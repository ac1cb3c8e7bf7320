---------------------------- MODULE ProposalScreens ----------------------------
(***************************************************************************)
(* The proposals board of one user (ProposalsBoard.tsx) over the query     *)
(* cache, the idempotency middleware and the group on the server.          *)
(*                                                                         *)
(* Each control of the board owns one mutation and its idempotency keys:   *)
(* the vote control, the deletion and the confirmation of each row, and    *)
(* the two forms that create a proposal.  A control is mounted as long as  *)
(* the cached reads show it; a control that is mounted again starts afresh *)
(* with new keys.  Cancelling a panel detaches the control from the        *)
(* mutation on its way but does not stop it.  The client may give up on a  *)
(* request that the server still carries out.  The panel in front of a     *)
(* deletion or a confirmation is left out but for what closing it does.    *)
(***************************************************************************)
EXTENDS Idempotency, FiniteSets

CONSTANTS
    Proposals,      \* the ids a proposal may get
    WindowOf,       \* the window of each of them
    First,          \* the proposals that exist at the start
    Values,         \* the values of a vote
    Reminding,      \* the settings of "Send reminders" in a confirmation
    Screens,        \* the sets of controls that a user may work with, each with
                    \* a value of the setting max_proposals_per_group
    CallIds,        \* bounds the requests on their way
    MaxVersion      \* bounds the changes of the group

Forms == {"suggested", "manual"}
Windows == {WindowOf[p] : p \in Proposals}
AllControls == ({"vote", "delete", "confirm"} \X Proposals)
               \cup ({"create"} \X Forms) \cup {<<"unconfirm", "group">>}

ASSUME ScreenAssumption ==
    /\ Screens \subseteq (SUBSET AllControls) \X Nat
    /\ First \subseteq Proposals
    /\ MaxVersion \in Nat /\ CallIds \subseteq Nat
    /\ CallIds # {}

VARIABLES
    server,     \* the group, its proposals and this user's votes
    records,    \* the idempotency records
    cache,      \* the cached reads of the group and of the proposals
    ctl,        \* the state of each control
    calls,      \* the mutations on their way
    pageRead,   \* the conditional read of the proposals that is on its way
    effects     \* history: the keys whose request changed the group (once), changed
                \* it again (twice), and had two requests past the lookup at one
                \* time or lost their record (raced)

vars == <<server, records, cache, ctl, calls, pageRead, effects>>

Kind(c) == c[1]
Subject(c) == c[2]

Ops(c) == CASE Kind(c) = "vote" -> Values \cup {"withdraw"}
            [] Kind(c) = "delete" -> {"delete"}
            [] Kind(c) = "confirm" -> Reminding
            [] Kind(c) = "create" -> Windows
            [] Kind(c) = "unconfirm" -> {"reopen"}

-----------------------------------------------------------------------------
(* The routes.                                                             *)

Answers == {"ok", "gone", "confirmed", "not-confirmed", "limit"}

\* What the route answers to an operation of a control.
Refusal(s, c, op) ==
    IF Kind(c) = "unconfirm"
    THEN IF s.state = "open" THEN "not-confirmed" ELSE "ok"
    ELSE IF Kind(c) = "create"
    THEN IF s.state = "confirmed" THEN "confirmed"
         ELSE IF Cardinality(s.live) >= s.limit THEN "limit" ELSE "ok"
    ELSE IF Kind(c) = "vote" /\ Subject(c) \notin s.live THEN "gone"
    ELSE IF s.state = "confirmed" THEN "confirmed"
    ELSE IF Subject(c) \notin s.live THEN "gone" ELSE "ok"

Created(s, w) == CHOOSE p \in Proposals \ s.used : WindowOf[p] = w

\* What the route does when it does not refuse.
Changed(s, c, op) ==
    CASE Kind(c) = "vote" ->
           [s EXCEPT !.votes[Subject(c)] = IF op = "withdraw" THEN "none" ELSE op]
      [] Kind(c) = "delete" ->
           [s EXCEPT !.live = @ \ {Subject(c)}, !.votes[Subject(c)] = "none"]
      [] Kind(c) = "confirm" -> [s EXCEPT !.state = "confirmed"]
      [] Kind(c) = "unconfirm" -> [s EXCEPT !.state = "open"]
      [] OTHER ->   \* a creation
           [s EXCEPT !.live = @ \cup {Created(s, op)}, !.used = @ \cup {Created(s, op)}]

\* Withdrawing a vote that was not cast changes nothing, and neither does a refusal.
Served(s, c, op) ==
    IF Refusal(s, c, op) # "ok" \/ (op = "withdraw" /\ Changed(s, c, op) = s) THEN s
    ELSE [Changed(s, c, op) EXCEPT !.version = s.version + 1]

Page(s) == [p \in s.live |-> s.votes[p]]

-----------------------------------------------------------------------------
(* The controls.                                                           *)

NewControl(gen) == [status |-> "idle", op |-> "none", held |-> FALSE, gen |-> gen]
NoCall == [phase |-> "none", key |-> <<>>, op |-> "none", answer |-> "none",
           client |-> "deaf"]
NoRead == [phase |-> "idle", sent |-> 0, tag |-> 0, rows |-> <<>>]
ReadPage(sent) == [NoRead EXCEPT !.phase = "sent", !.sent = sent]

Init ==
    /\ \E screen \in Screens :
         /\ server = [state |-> "open", live |-> First, used |-> First, limit |-> screen[2],
                      votes |-> [p \in Proposals |-> "none"], version |-> 1]
         /\ ctl = [c \in screen[1] |-> NewControl(0)]
    /\ records = {}
    /\ cache = [page |-> [tag |-> 1, rows |-> Page(server)],
                group |-> [tag |-> 1, state |-> "open"]]
    /\ calls = [i \in CallIds |-> NoCall]
    /\ pageRead = NoRead
    /\ effects = [once |-> {}, twice |-> {}, raced |-> {}]

Controls == DOMAIN ctl

Flying(cs) == {i \in CallIds : cs[i].phase # "none"}
ControlOf(call) == call.key[1]

\* A bound: enough ids are left for the creations on their way and one more.
Spare(w) ==
    Cardinality({p \in Proposals \ server.used : WindowOf[p] = w}) >
        Cardinality({i \in Flying(calls) : Kind(ControlOf(calls[i])) = "create"})

\* The controls that the reads show: the rows and the suggestions, for an open group
\* the votes, the confirmations and the manual form, and for a confirmed one, on the
\* page of the group, its reopening.
Mounted(c, reads) ==
    /\ Kind(c) \in {"vote", "delete", "confirm"} => Subject(c) \in DOMAIN reads.page.rows
    /\ (Kind(c) \in {"vote", "confirm"} \/ c = <<"create", "manual">>) => reads.group.state = "open"
    /\ Kind(c) = "unconfirm" => reads.group.state = "confirmed"

\* What can be pressed: a row of a confirmed group is shown without its deletion,
\* and the suggestions without their buttons.
Usable(c) ==
    /\ Mounted(c, cache)
    /\ Kind(c) # "unconfirm" => cache.group.state = "open"

\* One key per mount of a control, and in the forms one per distinct body.
KeyOf(c, op) == <<c, IF Kind(c) = "create" THEN op ELSE "any", ctl[c].gen>>

UnusedGen(c, cs) ==
    CHOOSE g \in 0 .. Cardinality(CallIds) :
        /\ \A i \in Flying(cs) : cs[i].key # <<>> =>
              ~(ControlOf(cs[i]) = c /\ cs[i].key[3] = g)
        /\ \A h \in 0 .. g - 1 : \E i \in Flying(cs) :
              ControlOf(cs[i]) = c /\ cs[i].key[3] = h

\* What rendering the reads does: the controls they no longer show are unmounted,
\* their mutations go on without an observer, and their keys are not used again.
Rendered(reads, ctls, cs) ==
    LET gone == {c \in DOMAIN ctls : ~Mounted(c, reads)}
        lone == [i \in CallIds |->
                   IF cs[i].client = "observed" /\ ControlOf(cs[i]) \in gone
                   THEN [cs[i] EXCEPT !.client = "unobserved"] ELSE cs[i]]
        fresh == [c \in DOMAIN ctls |->
                   IF c \in gone THEN NewControl(UnusedGen(c, cs)) ELSE ctls[c]]
        Known(key) == \/ key[3] = fresh[key[1]].gen /\ key[1] \notin gone
                      \/ \E i \in Flying(cs) : cs[i].key = key
    IN
    /\ cache' = reads
    /\ calls' = lone
    /\ ctl' = fresh
    /\ records' = {r \in records : Known(r.key)}
    /\ effects' = [h \in DOMAIN effects |-> {k \in effects[h] : Known(k)}]

\* A bound: the version stays in range when all the requests on their way change it.
MayChange == server.version + Cardinality(Flying(calls)) < MaxVersion

\* A mutation of control c starts with operation op.
Send(c, op) ==
    /\ Flying(calls) # CallIds
    /\ MayChange \/ RecordsOf(records, KeyOf(c, op)) # {}
    /\ LET i == CHOOSE j \in CallIds \ Flying(calls) :
                  \A k \in CallIds \ Flying(calls) : j <= k
       IN calls' = [calls EXCEPT ![i] = [phase |-> "sent", key |-> KeyOf(c, op), op |-> op,
                                         answer |-> "none", client |-> "observed"]]
    /\ ctl' = [ctl EXCEPT ![c].status = "pending",
                           ![c].op = IF Kind(c) = "vote" THEN op ELSE "none",
                           ![c].held = Kind(c) \in {"delete", "create"}]
    /\ UNCHANGED <<server, records, cache, pageRead, effects>>

\* choose(value) of the vote control: nothing when it is the vote already shown.
Choose(p, value) ==
    LET c == <<"vote", p>> IN
    /\ c \in Controls /\ Usable(c) /\ ctl[c].status # "pending"
    /\ cache.page.rows[p] # value
    /\ Send(c, value)

\* remove() of the vote control.
Withdraw(p) ==
    LET c == <<"vote", p>> IN
    /\ c \in Controls /\ Usable(c) /\ ctl[c].status # "pending"
    /\ cache.page.rows[p] # "none"
    /\ Send(c, "withdraw")

\* Retry on the notice of a failed vote repeats the choice, or the withdrawal.
RetryVote(p) ==
    LET c == <<"vote", p>> IN
    /\ c \in Controls /\ Usable(c) /\ ctl[c].status = "notice"
    /\ cache.page.rows[p] # ctl[c].op
    /\ Send(c, ctl[c].op)

Panels == {"delete", "confirm", "unconfirm"}

\* The panel is closed, or opened again: reset() clears the notice.  Cancel is
\* enabled while the mutation runs: reset() detaches its observer then, so the
\* callbacks that were passed to mutate() never run.
CancelPanel(c) ==
    /\ Kind(c) \in Panels /\ ctl[c].status # "idle"
    /\ ctl' = [ctl EXCEPT ![c].status = "idle"]
    /\ calls' = [i \in CallIds |->
                   IF calls[i].client = "observed" /\ ControlOf(calls[i]) = c
                   THEN [calls[i] EXCEPT !.client = "unobserved"] ELSE calls[i]]
    /\ UNCHANGED <<server, records, cache, pageRead, effects>>

\* remove() of a row: "Delete permanently", or Retry on the notice, which is not
\* withdrawn when the group is confirmed.  A ref keeps a second press out.
PressDelete(p) ==
    LET c == <<"delete", p>> IN
    /\ c \in Controls /\ ctl[c].status # "pending" /\ ~ctl[c].held
    /\ Usable(c) \/ (ctl[c].status = "notice" /\ Mounted(c, cache))
    /\ Send(c, "delete")

\* confirm() of a row: only the disabled button keeps a second press out.
PressConfirm(p, reminding) ==
    LET c == <<"confirm", p>> IN
    /\ c \in Controls /\ Usable(c) /\ ctl[c].status # "pending"
    /\ Send(c, reminding)

PressUnconfirm ==
    LET c == <<"unconfirm", "group">> IN
    /\ c \in Controls /\ Usable(c) /\ ctl[c].status # "pending"
    /\ Send(c, "reopen")

\* propose(suggestion): a ref keeps out the press that beats the disabled button.
ProposeSuggestion(w) ==
    LET c == <<"create", "suggested">> IN
    /\ c \in Controls /\ Usable(c) /\ ~ctl[c].held /\ Spare(w)
    /\ Send(c, w)

\* submit() of the manual form, for a window that fits.
SubmitManual(w) ==
    LET c == <<"create", "manual">> IN
    /\ c \in Controls /\ Usable(c) /\ ~ctl[c].held /\ Spare(w)
    /\ Send(c, w)

-----------------------------------------------------------------------------
(* A request: the middleware, the route, the middleware again.  Each step  *)
(* has a session of its own.                                               *)

Move(i, call) == calls' = [calls EXCEPT ![i] = call]

Twins(i) == {j \in Flying(calls) \ {i} : calls[j].key = calls[i].key}

LookUp(i) ==
    LET found == LookedUp(records, calls[i].key, calls[i].op)
        racing == \E j \in Twins(i) : calls[j].phase \in {"admitted", "ran"}
    IN
    /\ calls[i].phase = "sent"
    /\ Move(i, IF found = "run" THEN [calls[i] EXCEPT !.phase = "admitted"]
               ELSE [calls[i] EXCEPT !.phase = "answered", !.answer = found])
    /\ effects' = IF found = "run" /\ racing
                  THEN [effects EXCEPT !.raced = @ \cup {calls[i].key}] ELSE effects
    /\ UNCHANGED <<server, records, cache, ctl, pageRead>>

Run(i) ==
    LET c == ControlOf(calls[i])
        op == calls[i].op
        key == calls[i].key
    IN
    /\ calls[i].phase = "admitted"
    /\ server' = Served(server, c, op)
    /\ Move(i, [calls[i] EXCEPT !.phase = "ran", !.answer = Refusal(server, c, op)])
    /\ effects' = IF server' = server THEN effects
                  ELSE [effects EXCEPT !.once = @ \cup {key},
                                       !.twice = IF key \in effects.once THEN @ \cup {key} ELSE @]
    /\ UNCHANGED <<records, cache, ctl, pageRead>>

\* Mutant of Record: nothing is stored when the client has hung up.
RecordIfHeard(i) ==
    /\ calls[i].phase = "ran"
    /\ records' = IF calls[i].client = "deaf" THEN records
                  ELSE Stored(records, calls[i].key, calls[i].op, calls[i].answer)
    /\ Move(i, [calls[i] EXCEPT !.phase = "answered",
                    !.answer = StoredAnswer(records, calls[i].key, @)])
    /\ UNCHANGED <<server, cache, ctl, pageRead, effects>>

Record(i) ==
    /\ calls[i].phase = "ran"
    /\ records' = Stored(records, calls[i].key, calls[i].op, calls[i].answer)
    /\ Move(i, [calls[i] EXCEPT !.phase = "answered",
                    !.answer = StoredAnswer(records, calls[i].key, @)])
    /\ UNCHANGED <<server, cache, ctl, pageRead, effects>>

\* The process of a request dies, or the request never arrives; what it changed
\* before stays changed.  Only requests whose client has given up are lost like
\* this: the client that has not is the one of GiveUp, and then of this action.
Vanish(i) ==
    /\ calls[i].phase # "none" /\ calls[i].client = "deaf"
    /\ Move(i, NoCall)
    /\ effects' = IF calls[i].phase \in {"admitted", "ran"}
                  THEN [effects EXCEPT !.raced = @ \cup {calls[i].key}] ELSE effects
    /\ UNCHANGED <<server, records, cache, ctl, pageRead>>

-----------------------------------------------------------------------------
(* The mutation ends.                                                      *)

\* The state of the control, when it still observes the mutation.
Ended(i, control) ==
    LET c == ControlOf(calls[i]) IN
    IF calls[i].client = "observed" THEN [ctl EXCEPT ![c] = control] ELSE ctl

Observer(i) == ctl[ControlOf(calls[i])]

\* The request fails for the client, by the network or by its patience.
GiveUp(i) ==
    /\ calls[i].phase \in {"sent", "admitted", "ran", "answered"} /\ calls[i].client # "deaf"
    /\ Move(i, [calls[i] EXCEPT !.client = "deaf"])
    /\ ctl' = Ended(i, [Observer(i) EXCEPT !.status = "notice", !.held = FALSE])
    /\ UNCHANGED <<server, records, cache, pageRead, effects>>

\* How a refusal is presented.  What is gone already is what the user of a vote or
\* a deletion wanted; a confirmed group or a limit gets a sentence without Retry;
\* everything else gets the notice.
Outcome(c, answer) ==
    CASE answer = "gone" /\ Kind(c) \in {"vote", "delete"} -> "gone"
      [] answer \in {"confirmed", "limit"} /\ Kind(c) # "unconfirm" -> "sentence"
      [] OTHER -> "notice"

\* What is gone is read again and nothing is said.
Refused(i) ==
    LET outcome == Outcome(ControlOf(calls[i]), calls[i].answer)
        reread == outcome = "gone" /\ calls[i].client = "observed"
    IN
    /\ calls[i].phase = "answered" /\ calls[i].client # "deaf" /\ calls[i].answer # "ok"
    /\ Move(i, NoCall)
    /\ ctl' = Ended(i, IF outcome = "notice"
                       THEN [Observer(i) EXCEPT !.status = "notice", !.held = FALSE]
                       ELSE NewControl(Observer(i).gen))
    /\ pageRead' = IF reread THEN ReadPage(cache.page.tag) ELSE pageRead
    /\ UNCHANGED <<server, records, cache, effects>>

\* Mutant of Spliced: the validator stays with the body it no longer describes.
SplicedUnderTag(page, p, vote) ==
    IF p \in DOMAIN page.rows THEN [page EXCEPT !.rows[p] = vote] ELSE page

\* The proposal that a vote answers with takes its place in the cached page, and
\* the validator is dropped.
Spliced(page, p, vote) ==
    [tag |-> 0, rows |-> IF p \in DOMAIN page.rows THEN [page.rows EXCEPT ![p] = vote]
                         ELSE page.rows]

Accepted(i, next) ==
    /\ calls[i].phase = "answered" /\ calls[i].client # "deaf" /\ calls[i].answer = "ok"
    /\ Move(i, [calls[i] EXCEPT !.phase = next])
    /\ UNCHANGED <<server, records, ctl, effects>>

\* A vote that was cast is spliced into the page; the page is read again.
VoteAccepted(i) ==
    LET c == ControlOf(calls[i])
        page == IF calls[i].op = "withdraw" THEN cache.page
                ELSE Spliced(cache.page, Subject(c), calls[i].op)
    IN
    /\ Accepted(i, "page") /\ Kind(c) = "vote"
    /\ cache' = [cache EXCEPT !.page = page]
    /\ pageRead' = ReadPage(page.tag)

\* The list is read again; nothing is put into it.
ProposalAccepted(i) ==
    /\ Accepted(i, "page") /\ Kind(ControlOf(calls[i])) \in {"create", "delete"}
    /\ pageRead' = ReadPage(cache.page.tag)
    /\ UNCHANGED cache

\* The group is read again, and then the page.
ConfirmationAccepted(i) ==
    /\ Accepted(i, "group") /\ Kind(ControlOf(calls[i])) \in {"confirm", "unconfirm"}
    /\ UNCHANGED <<cache, pageRead>>

Acceptance(i) == VoteAccepted(i) \/ ProposalAccepted(i) \/ ConfirmationAccepted(i)

\* The refetches are over.
Settled(i) ==
    /\ calls[i].phase = "settled"
    /\ Move(i, NoCall)
    /\ ctl' = Ended(i, NewControl(Observer(i).gen))
    /\ UNCHANGED <<server, records, cache, pageRead, effects>>

-----------------------------------------------------------------------------
(* The reads.                                                              *)

\* The mutations that wait for a read go on, whether it failed or not.
Awaited(from, to) ==
    [i \in CallIds |-> IF calls[i].phase = from THEN [calls[i] EXCEPT !.phase = to] ELSE calls[i]]

\* The group: one row, so one instant.  The freeze is derived from it by the
\* rendering, and a confirmation then invalidates the page.
ReadGroup ==
    LET waiting == \E i \in CallIds : calls[i].phase = "group" IN
    /\ waiting \/ cache.group.tag # server.version
    /\ Rendered([cache EXCEPT !.group = [tag |-> server.version, state |-> server.state]],
                ctl, Awaited("group", "page"))
    /\ pageRead' = IF waiting THEN ReadPage(cache.page.tag) ELSE pageRead
    /\ UNCHANGED server

LoseGroup ==
    /\ \E i \in CallIds : calls[i].phase = "group"
    /\ calls' = Awaited("group", "page")
    /\ pageRead' = ReadPage(cache.page.tag)
    /\ UNCHANGED <<server, records, cache, ctl, effects>>

\* The window gets the focus.
StartPage ==
    /\ pageRead.phase = "idle" /\ cache.page.tag # server.version
    /\ pageRead' = ReadPage(cache.page.tag)
    /\ UNCHANGED <<server, records, cache, ctl, calls, effects>>

\* list_proposals reads the group, which gives the tag, and then the proposals.
LoadPage ==
    /\ pageRead.phase = "sent"
    /\ pageRead' = [pageRead EXCEPT !.phase = "loaded", !.tag = server.version]
    /\ UNCHANGED <<server, records, cache, ctl, calls, effects>>

AnswerPage ==
    /\ pageRead.phase = "loaded"
    /\ pageRead' = [pageRead EXCEPT !.phase = "answered", !.rows = Page(server)]
    /\ UNCHANGED <<server, records, cache, ctl, calls, effects>>

\* A 304 puts the cached page back; a 200 replaces rows and tag together.
DeliverPage ==
    LET page == IF pageRead.tag = pageRead.sent THEN cache.page
                ELSE [tag |-> pageRead.tag, rows |-> pageRead.rows]
    IN
    /\ pageRead.phase = "answered"
    /\ pageRead' = NoRead
    /\ Rendered([cache EXCEPT !.page = page], ctl, Awaited("page", "settled"))
    /\ UNCHANGED server

\* Mutant of LosePage: a mutation waits for a read that succeeds.
LosePageAwaited ==
    /\ pageRead.phase = "answered"
    /\ pageRead' = NoRead
    /\ UNCHANGED <<server, records, cache, ctl, calls, effects>>

LosePage ==
    /\ pageRead.phase = "answered"
    /\ pageRead' = NoRead
    /\ calls' = Awaited("page", "settled")
    /\ UNCHANGED <<server, records, cache, ctl, effects>>

-----------------------------------------------------------------------------
(* The others, and this user in another tab.                               *)

Elsewhere(c, op) ==
    /\ MayChange
    /\ Kind(c) = "create" => Spare(op)
    /\ Refusal(server, c, op) = "ok"
    /\ server' = Served(server, c, op)
    /\ server' # server
    /\ UNCHANGED <<records, cache, ctl, calls, pageRead, effects>>

User ==
    \/ \E p \in Proposals : Withdraw(p) \/ RetryVote(p) \/ \E v \in Values : Choose(p, v)
    \/ \E p \in Proposals : PressDelete(p) \/ \E r \in Reminding : PressConfirm(p, r)
    \/ PressUnconfirm
    \/ \E w \in Windows : ProposeSuggestion(w) \/ SubmitManual(w)
    \/ \E c \in Controls : CancelPanel(c)

Requests == \E i \in CallIds : LookUp(i) \/ Run(i) \/ Record(i) \/ Vanish(i)

Endings == \E i \in CallIds : GiveUp(i) \/ Refused(i) \/ Acceptance(i) \/ Settled(i)

Reads == ReadGroup \/ LoseGroup \/ StartPage \/ LoadPage \/ AnswerPage \/ DeliverPage \/ LosePage

Others == \E c \in AllControls : \E op \in Ops(c) : Elsewhere(c, op)

Next == User \/ Requests \/ Endings \/ Reads \/ Others

\* Requests are served and their answers arrive, or the client gives up; the reads
\* that a mutation waits for end, however often others cancel and repeat them.
Fairness ==
    /\ \A i \in CallIds : WF_vars(\/ LookUp(i) \/ Run(i) \/ Record(i)
                                 \/ Refused(i) \/ Acceptance(i) \/ Settled(i))
    /\ WF_vars(ReadGroup) /\ WF_vars(LoadPage) /\ SF_vars(AnswerPage) /\ SF_vars(DeliverPage)

Spec == Init /\ [][Next]_vars /\ Fairness

-----------------------------------------------------------------------------
(* Properties.                                                             *)

\* A tag vouches for its body: when the cached tag is the current version the cached
\* page is the current one, votes spliced into it included, so a 304 never confirms
\* a page the client made up (voteMutations.ts, the comment on spliceProposal).
TagVouches ==
    /\ cache.page.tag = server.version => cache.page.rows = Page(server)
    /\ cache.group.tag = server.version => cache.group.state = server.state

\* A retry is the same request: a key changes the group a second time only when two
\* of its requests were past the lookup at one time or one died before its record
\* was written.
OncePerKey == effects.twice \subseteq effects.raced

\* A change of mind is a new request (VoteControl.tsx, the comment on the key).
NoKeyReuse == \A i \in CallIds : calls[i].answer # "reuse"

\* Every press ends: no mutation runs for ever, however its reads are cancelled and
\* repeated by the others, so no control stays pending.
Running(i) == calls[i].phase # "none" /\ calls[i].client # "deaf"
PressEnds == \A i \in CallIds : Running(i) ~> ~Running(i)
=============================================================================
