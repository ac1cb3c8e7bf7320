------------------------------- MODULE Sessions -------------------------------
(***************************************************************************)
(* The sessions of one user: the tabs of one browser, which share the      *)
(* refresh cookie, and the refresh tokens on the server.                   *)
(*                                                                         *)
(* A tab holds its access token in memory only.  It refreshes at boot and  *)
(* when a request is answered token_expired; the callers of one tab share  *)
(* one refresh, and the tabs contend for a Web Lock where the browser has  *)
(* one.  The server rotates a refresh token in two statements, a read and  *)
(* a commit.  A reload leaves the calls of the old page behind: the server *)
(* still carries them out, and their cookie may or may not be kept.        *)
(*                                                                         *)
(* A token is its place in the sequence of the tokens issued, and stands   *)
(* for the access token issued with it.  0 is no token.  The expiry of a   *)
(* refresh token, after 30 days, is left out.                              *)
(***************************************************************************)
EXTENDS Integers, Sequences, FiniteSets

CONSTANTS
    Tabs,           \* the tabs of the browser
    Requests,       \* the requests to the API, each sent at most once
    TabOf,          \* the tab that sends it
    Keyed,          \* the requests with an idempotency key: the mutations
    Scenes,         \* what may happen in one behaviour: sets of requests and of
                    \* "reload", "signout", "loss" and "mail"; with "mail" nobody is
                    \* signed in at the start
    MaxFaults,      \* bounds the reloads, the lost calls and the failures of /config
    MaxHours        \* bounds the expiries of the access tokens

ASSUME SessionAssumption ==
    /\ TabOf \in [Requests -> Tabs] /\ Keyed \subseteq Requests
    /\ Scenes \subseteq SUBSET ({"reload", "signout", "loss", "mail"} \cup Requests)
    /\ MaxFaults \in Nat /\ MaxHours \in Nat

VARIABLES
    server,     \* the refresh tokens, the magic link and the stored answers
    cookie,     \* the refresh cookie of the browser
    scene,      \* what may happen
    locks,      \* whether the browser has navigator.locks
    tab,        \* the state of each tab
    calls,      \* the call to /auth of each kind that each tab is waiting for
    orphans,    \* the calls whose page is gone or has given up
    req,        \* the requests of the tabs
    spent,      \* what has been used of the bounds
    history     \* what has happened that may end a session

vars == <<server, cookie, scene, locks, tab, calls, orphans, req, spent, history>>

Kinds == {"refresh", "logout", "exchange"}

-----------------------------------------------------------------------------
(* The server: services/auth.py.                                           *)

Tokens(s) == 1..Len(s.tokens)
Active(s, n) == s.tokens[n].revoked = 0
FamilyOf(s, n) == {m \in Tokens(s) : s.tokens[m].family = s.tokens[n].family}

\* The token of the family with the latest revoked_at; equal times come in any order.
LatestRevoked(s, n) ==
    {m \in FamilyOf(s, n) : /\ ~Active(s, m)
                            /\ \A k \in FamilyOf(s, n) :
                                 s.tokens[k].revoked <= s.tokens[m].revoked}

\* Reuse is forgiven to the token that was rotated last, for 30 seconds.
InGrace(s, n, latest) ==
    /\ latest = n
    /\ \E m \in FamilyOf(s, n) : Active(s, m)
    /\ ~s.tokens[n].aged

RefreshVerdicts(s, n) ==
    IF n = 0 THEN {"refuse"}
    ELSE IF Active(s, n) THEN {"rotate"}
    ELSE {IF InGrace(s, n, latest) THEN "refuse" ELSE "revoke" : latest \in LatestRevoked(s, n)}

ExchangeVerdicts(s) == IF s.link = "mailed" THEN {"issue"} ELSE {"refuse"}

LogoutVerdicts(n) == IF n = 0 THEN {"refuse"} ELSE {"revoke"}

Verdicts(s, kind, n) ==
    CASE kind = "refresh" -> RefreshVerdicts(s, n)
      [] kind = "logout" -> LogoutVerdicts(n)
      [] kind = "exchange" -> ExchangeVerdicts(s)

Issued(s, family) == Append(s.tokens, [family |-> family, revoked |-> 0, aged |-> FALSE])
RevokedNow(s, n) == [s.tokens[n] EXCEPT !.revoked = s.clock, !.aged = FALSE]

\* Mutant of Rotated: the successor is not inserted.
RotatedAway(s, n) == [s EXCEPT !.tokens[n] = RevokedNow(s, n), !.clock = @ + 1]

\* The row that was read is marked without another look at it.
Rotated(s, n) ==
    LET marked == [s EXCEPT !.tokens[n] = RevokedNow(s, n)]
    IN  [marked EXCEPT !.tokens = Issued(marked, s.tokens[n].family), !.clock = @ + 1]

FamilyRevoked(s, n) ==
    [s EXCEPT !.tokens = [m \in Tokens(s) |-> IF m \in FamilyOf(s, n) THEN RevokedNow(s, m)
                                              ELSE s.tokens[m]],
              !.clock = @ + 1]

NewFamily(s) == 1 + Cardinality({s.tokens[n].family : n \in Tokens(s)})
SessionCreated(s) ==
    [s EXCEPT !.tokens = Issued(s, NewFamily(s)), !.link = "used", !.clock = @ + 1]

\* The commit of a call, and what it answers: a token, or "done", or "refused".
Committed(s, call) ==
    CASE call.verdict = "rotate" -> Rotated(s, call.cookie)
      [] call.verdict = "revoke" -> FamilyRevoked(s, call.cookie)
      [] call.verdict = "issue" -> SessionCreated(s)
      [] call.verdict = "refuse" -> s

AnswerOf(s, kind, call) ==
    CASE call.verdict \in {"rotate", "issue"} -> [ok |-> TRUE, token |-> Len(s.tokens) + 1]
      [] call.verdict = "revoke" /\ kind = "logout" -> [ok |-> TRUE, token |-> 0]
      [] OTHER -> [ok |-> FALSE, token |-> 0]

\* The Set-Cookie of an answer; a refusal sets none.
CookieAfter(answer) == IF answer.ok THEN answer.token ELSE cookie

-----------------------------------------------------------------------------
(* The tabs.                                                               *)

NoAnswer == [ok |-> FALSE, token |-> 0]
NoCall == [phase |-> "none", cookie |-> 0, verdict |-> "none", answer |-> NoAnswer]
Sent(n) == [NoCall EXCEPT !.phase = "sent", !.cookie = n]
NoCalls == [kind \in Kinds |-> NoCall]

\* The form of /sign-in, its inFlightRef and whether it still observes its mutation.
NewForm == [status |-> "idle", held |-> FALSE, flying |-> "none"]
\* The query for /config: the failure shown and the timer of BootFailure.
NewConfig == [fetching |-> TRUE, ok |-> FALSE, failure |-> "none", armed |-> FALSE]
ReadConfig == [fetching |-> FALSE, ok |-> TRUE, failure |-> "none", armed |-> FALSE]

\* What a tab is: page is "app" or the "callback" page of a mail link.
OpenTab(token) == [page |-> "app", config |-> ReadConfig, probe |-> "done", session |-> token,
                   exchange |-> "none", form |-> NewForm]
ClosedTab == [OpenTab(0) EXCEPT !.page = "closed"]
BootingTab(page) == [OpenTab(0) EXCEPT !.page = page, !.config = NewConfig, !.probe = "running"]

\* The boot gate.
Up(t) == tab[t].page # "closed" /\ tab[t].config.ok /\ tab[t].probe = "done"

Init ==
    /\ locks \in BOOLEAN
    /\ scene \in Scenes
    /\ server = [tokens |-> IF "mail" \in scene THEN <<>>
                            ELSE <<[family |-> 1, revoked |-> 0, aged |-> FALSE]>>,
                 clock |-> 1, link |-> "none", expired |-> 0, refused |-> {}]
    /\ cookie = Len(server.tokens)
    /\ IF "mail" \in scene
       THEN \E t \in Tabs : tab = [u \in Tabs |-> IF u = t THEN OpenTab(0) ELSE ClosedTab]
       ELSE tab = [t \in Tabs |-> OpenTab(1)]
    /\ calls = [t \in Tabs |-> NoCalls]
    /\ orphans = {}
    /\ req = [r \in Requests |-> [phase |-> "none", token |-> 0, answer |-> "none"]]
    /\ spent = [faults |-> 0, hours |-> 0]
    /\ history = {}

\* refreshSession: join the refresh of this tab, or start one.
Refreshed(cs, t) ==
    IF cs[t]["refresh"].phase # "none" THEN cs
    ELSE [cs EXCEPT ![t]["refresh"] =
            IF locks THEN [NoCall EXCEPT !.phase = "queued"] ELSE Sent(cookie)]

\* Mutant of Grant: the lock is not exclusive.
GrantShared(t) ==
    /\ calls[t]["refresh"].phase = "queued"
    /\ calls' = [calls EXCEPT ![t]["refresh"] = Sent(cookie)]
    /\ UNCHANGED <<server, cookie, scene, locks, tab, orphans, req, spent, history>>

\* The lock is granted: the page that held it has its answer, or is gone.
Grant(t) ==
    /\ calls[t]["refresh"].phase = "queued"
    /\ \A u \in Tabs : calls[u]["refresh"].phase \in {"none", "queued"}
    /\ calls' = [calls EXCEPT ![t]["refresh"] = Sent(cookie)]
    /\ UNCHANGED <<server, cookie, scene, locks, tab, orphans, req, spent, history>>

\* The server reads the row and decides.
Decided(call, verdict) == [call EXCEPT !.phase = "decided", !.verdict = verdict]
Done(kind, call) == [call EXCEPT !.phase = "answered", !.answer = AnswerOf(server, kind, call)]

Decide(t, kind) ==
    /\ calls[t][kind].phase = "sent"
    /\ \E verdict \in Verdicts(server, kind, calls[t][kind].cookie) :
         calls' = [calls EXCEPT ![t][kind] = Decided(@, verdict)]
    /\ UNCHANGED <<server, cookie, scene, locks, tab, orphans, req, spent, history>>

Commit(t, kind) ==
    /\ calls[t][kind].phase = "decided"
    /\ server' = Committed(server, calls[t][kind])
    /\ calls' = [calls EXCEPT ![t][kind] = Done(kind, @)]
    /\ UNCHANGED <<cookie, scene, locks, tab, orphans, req, spent, history>>

\* Mutant of Resumed: a failed refresh leaves its callers waiting.
ResumedOnSuccess(t, token) ==
    [r \in Requests |->
        IF TabOf[r] # t \/ req[r].phase # "refreshing" \/ token = 0 THEN req[r]
        ELSE [req[r] EXCEPT !.phase = "retried", !.token = token]]

\* The callers of a refresh go on: the probe ends, and each request is sent again or
\* keeps its 401.
Resumed(t, token) ==
    [r \in Requests |->
        IF TabOf[r] # t \/ req[r].phase # "refreshing" THEN req[r]
        ELSE IF token # 0 THEN [req[r] EXCEPT !.phase = "retried", !.token = token]
        ELSE [req[r] EXCEPT !.phase = "done", !.answer = "expired"]]

\* performRefresh: any failure clears the store.
RefreshSettled(t, token) ==
    /\ tab' = [tab EXCEPT ![t].session = token, ![t].probe = "done"]
    /\ req' = Resumed(t, token)

\* signOut: the store is cleared however the call ended.
SignOutSettled(t) ==
    /\ tab' = [tab EXCEPT ![t].session = 0]
    /\ UNCHANGED req

ExchangeSettled(t, answer, network) ==
    /\ tab' = IF answer.ok
              THEN [tab EXCEPT ![t].session = answer.token, ![t].exchange = "done", ![t].page = "app"]
              ELSE [tab EXCEPT ![t].exchange = IF network THEN "failed" ELSE "unusable"]
    /\ UNCHANGED req

Settled(t, kind, answer, network) ==
    CASE kind = "refresh" -> RefreshSettled(t, answer.token)
      [] kind = "logout" -> SignOutSettled(t)
      [] kind = "exchange" -> ExchangeSettled(t, answer, network)

Receive(t, kind) ==
    /\ calls[t][kind].phase = "answered"
    /\ cookie' = CookieAfter(calls[t][kind].answer)
    /\ Settled(t, kind, calls[t][kind].answer, FALSE)
    /\ calls' = [calls EXCEPT ![t][kind] = NoCall]
    /\ UNCHANGED <<server, scene, locks, orphans, spent, history>>

Orphan(kind, call) == [kind |-> kind, call |-> call]
Reaching(call) == call.phase \in {"sent", "decided"}

\* The network fails: before the server has seen the call, or after.
LoseCall(t, kind) ==
    /\ calls[t][kind].phase \in {"sent", "decided", "answered"}
    /\ "loss" \in scene /\ spent.faults < MaxFaults
    /\ spent' = [spent EXCEPT !.faults = @ + 1]
    /\ \/ calls[t][kind].phase = "sent" /\ UNCHANGED orphans
       \/ orphans' = orphans \cup (IF Reaching(calls[t][kind])
                                   THEN {Orphan(kind, calls[t][kind])} ELSE {})
    /\ Settled(t, kind, NoAnswer, TRUE)
    /\ calls' = [calls EXCEPT ![t][kind] = NoCall]
    /\ history' = history \cup {"lost"}
    /\ UNCHANGED <<server, cookie, scene, locks>>

\* The server finishes a call that nobody waits for.
FinishOrphan(o) ==
    /\ o \in orphans
    /\ \/ /\ o.call.phase = "sent"
          /\ \E verdict \in Verdicts(server, o.kind, o.call.cookie) :
               orphans' = (orphans \ {o}) \cup {Orphan(o.kind, Decided(o.call, verdict))}
          /\ UNCHANGED <<server, cookie>>
       \/ /\ o.call.phase = "decided"
          /\ server' = Committed(server, o.call)
          /\ orphans' = orphans \ {o}
          \* A browser may keep the cookie of an answer whose page is gone.
          /\ cookie' \in {cookie, CookieAfter(AnswerOf(server, o.kind, o.call))}
    /\ UNCHANGED <<scene, locks, tab, calls, req, spent, history>>

-----------------------------------------------------------------------------
(* The requests of a tab: api/client.ts.                                   *)

SendRequest(r) ==
    /\ r \in scene /\ Up(TabOf[r]) /\ req[r].phase = "none"
    /\ tab[TabOf[r]].session # 0
    /\ req' = [req EXCEPT ![r].phase = "sent", ![r].token = tab[TabOf[r]].session]
    /\ UNCHANGED <<server, cookie, scene, locks, tab, calls, orphans, spent, history>>

\* The answer to a request: the stored one of its key, or the one its token earns.
Refuses(r) == r \in server.refused \/ req[r].token <= server.expired
Stored(r) == [server EXCEPT !.refused = IF Refuses(r) /\ r \in Keyed THEN @ \cup {r} ELSE @]

\* The first answer.  token_expired is the only 401 that a token leads to here.
FirstAnswer(r) ==
    /\ req[r].phase = "sent"
    /\ server' = Stored(r)
    /\ IF Refuses(r)
       THEN /\ req' = [req EXCEPT ![r].phase = "refreshing"]
            /\ calls' = Refreshed(calls, TabOf[r])
       ELSE /\ req' = [req EXCEPT ![r].phase = "done", ![r].answer = "ok"]
            /\ UNCHANGED calls
    /\ UNCHANGED <<cookie, scene, locks, tab, orphans, spent, history>>

\* The answer to the one retry, with the key of the first.
SecondAnswer(r) ==
    /\ req[r].phase = "retried"
    /\ server' = Stored(r)
    /\ req' = [req EXCEPT ![r].phase = "done", ![r].answer = IF Refuses(r) THEN "expired" ELSE "ok"]
    /\ UNCHANGED <<cookie, scene, locks, tab, calls, orphans, spent, history>>

\* SessionStatus: the button is disabled while the sign-out is on its way.
SignOut(t) ==
    /\ "signout" \in scene /\ Up(t) /\ tab[t].session # 0
    /\ calls[t]["logout"].phase = "none"
    /\ calls' = [calls EXCEPT ![t]["logout"] = Sent(cookie)]
    /\ history' = history \cup {"signed out"}
    /\ UNCHANGED <<server, cookie, scene, locks, tab, orphans, req, spent>>

-----------------------------------------------------------------------------
(* Opening a page: app/RootLayout.tsx and app/BootFailure.tsx.             *)

\* A reload leaves the calls behind and starts the reads of the boot gate anew.
Left(t) == {Orphan(kind, calls[t][kind]) : kind \in {k \in Kinds : Reaching(calls[t][k])}}
Booted(t) == Refreshed([calls EXCEPT ![t] = NoCalls], t)

Reload(t) ==
    /\ tab[t].page # "closed" /\ "reload" \in scene /\ spent.faults < MaxFaults
    /\ spent' = [spent EXCEPT !.faults = @ + 1]
    /\ tab' = [tab EXCEPT ![t] = BootingTab(@.page)]
    /\ orphans' = orphans \cup Left(t)
    /\ calls' = Booted(t)
    /\ req' = [r \in Requests |-> IF TabOf[r] = t /\ req[r].phase # "none"
                                  THEN [req[r] EXCEPT !.phase = "done"] ELSE req[r]]
    /\ cookie' \in {cookie} \cup {CookieAfter(calls[t][k].answer) :
                                    k \in {k \in Kinds : calls[t][k].phase = "answered"}}
    /\ history' = IF \E k \in Kinds : calls[t][k].phase \notin {"none", "queued"}
                  THEN history \cup {"lost"} ELSE history
    \* The request of the form may still reach the server.
    /\ \/ UNCHANGED server
       \/ /\ tab[t].form.flying # "none"
          /\ server' = [server EXCEPT !.link = "mailed"]
    /\ UNCHANGED <<scene, locks>>

\* The mail link opens the callback page in another tab.
OpenCallback(t) ==
    /\ tab[t].page = "closed" /\ server.link # "none"
    /\ tab' = [tab EXCEPT ![t] = BootingTab("callback")]
    /\ calls' = Booted(t)
    /\ UNCHANGED <<server, cookie, scene, locks, orphans, req, spent, history>>

ConfigRead(t) ==
    /\ tab[t].page # "closed" /\ tab[t].config.fetching
    /\ \/ tab' = [tab EXCEPT ![t].config = ReadConfig] /\ UNCHANGED spent
       \* Unavailable, with a Retry-After: the timer is armed for the new failure.
       \/ /\ spent.faults < MaxFaults
          /\ \E failure \in {"unavailable", "network"} :
               tab' = [tab EXCEPT ![t].config =
                         [fetching |-> FALSE, ok |-> FALSE, failure |-> failure,
                          armed |-> failure = "unavailable"]]
          /\ spent' = [spent EXCEPT !.faults = @ + 1]
    /\ UNCHANGED <<server, cookie, scene, locks, calls, orphans, req, history>>

\* The timer asks again, unless a read is on its way.
ConfigTimer(t) ==
    /\ tab[t].config.armed
    /\ tab' = [tab EXCEPT ![t].config.armed = FALSE, ![t].config.fetching = TRUE]
    /\ UNCHANGED <<server, cookie, scene, locks, calls, orphans, req, spent, history>>

ConfigRetry(t) ==
    /\ tab[t].config.failure # "none" /\ ~tab[t].config.fetching
    /\ tab' = [tab EXCEPT ![t].config.fetching = TRUE]
    /\ UNCHANGED <<server, cookie, scene, locks, calls, orphans, req, spent, history>>

\* The callback page spends the token of its link once, when it is first shown, and
\* again when the user retries a failure that was not the server's refusal.
Spend(t) ==
    /\ tab' = [tab EXCEPT ![t].exchange = "running"]
    /\ calls' = [calls EXCEPT ![t]["exchange"] = Sent(cookie)]
    /\ UNCHANGED <<server, cookie, scene, locks, orphans, req, spent, history>>

Exchange(t) == Up(t) /\ tab[t].page = "callback" /\ tab[t].exchange = "none" /\ Spend(t)
RetryExchange(t) == Up(t) /\ tab[t].exchange = "failed" /\ Spend(t)

-----------------------------------------------------------------------------
(* The form of /sign-in: features/auth/SignInForm.tsx.                     *)

FormShown(t) == "mail" \in scene /\ Up(t) /\ tab[t].page = "app" /\ tab[t].session = 0

\* Submitting a valid address, or the retry of the notice.
SubmitAddress(t) ==
    /\ FormShown(t) /\ tab[t].form.status \in {"idle", "failed"}
    /\ ~tab[t].form.held
    /\ server.link = "none"     \* a bound: one link is mailed
    /\ tab' = [tab EXCEPT ![t].form = [status |-> "pending", held |-> TRUE, flying |-> "observed"]]
    /\ UNCHANGED <<server, cookie, scene, locks, calls, orphans, req, spent, history>>

\* Typing resets the mutation: a request on its way is no longer observed, and the
\* callback that frees the form is not called.
EditAddress(t) ==
    /\ FormShown(t) /\ tab[t].form.status \in {"pending", "failed"}
    /\ tab' = [tab EXCEPT ![t].form.status = "idle",
                          ![t].form.flying = IF @ = "observed" THEN "unobserved" ELSE @]
    /\ UNCHANGED <<server, cookie, scene, locks, calls, orphans, req, spent, history>>

Answered(form, status) ==
    IF form.flying = "observed" THEN [NewForm EXCEPT !.status = status]
    ELSE [form EXCEPT !.flying = "none"]

AddressAnswered(t) ==
    /\ tab[t].form.flying # "none"
    /\ \/ /\ server' = [server EXCEPT !.link = "mailed"]
          /\ tab' = [tab EXCEPT ![t].form = Answered(@, "sent")]
          /\ UNCHANGED spent
       \/ /\ spent.faults < MaxFaults
          /\ spent' = [spent EXCEPT !.faults = @ + 1]
          /\ tab' = [tab EXCEPT ![t].form = Answered(@, "failed")]
          /\ UNCHANGED server
    /\ UNCHANGED <<cookie, scene, locks, calls, orphans, req, history>>

UseDifferentAddress(t) ==
    /\ tab[t].form.status = "sent" /\ FormShown(t)
    /\ tab' = [tab EXCEPT ![t].form = NewForm]
    /\ UNCHANGED <<server, cookie, scene, locks, calls, orphans, req, spent, history>>

-----------------------------------------------------------------------------
(* Time.                                                                   *)

AllAged == [n \in Tokens(server) |-> [server.tokens[n] EXCEPT !.aged = ~Active(server, n)]]

\* The grace window of every revocation so far has passed.
HalfMinutePasses ==
    /\ server.tokens # AllAged
    /\ server' = [server EXCEPT !.tokens = AllAged]
    /\ UNCHANGED <<cookie, scene, locks, tab, calls, orphans, req, spent, history>>

\* Every access token so far has expired.
QuarterHourPasses ==
    /\ spent.hours < MaxHours /\ server.expired < Len(server.tokens)
    /\ spent' = [spent EXCEPT !.hours = @ + 1]
    /\ server' = [server EXCEPT !.expired = Len(server.tokens), !.tokens = AllAged]
    /\ UNCHANGED <<cookie, scene, locks, tab, calls, orphans, req, history>>

-----------------------------------------------------------------------------

CallStep(t) ==
    \/ Grant(t)
    \/ \E kind \in Kinds : Decide(t, kind) \/ Commit(t, kind) \/ Receive(t, kind)
RequestStep(r) == FirstAnswer(r) \/ SecondAnswer(r)
BootStep(t) == ConfigRead(t) \/ ConfigTimer(t) \/ Exchange(t)
UserStep(t) ==
    \/ SignOut(t) \/ Reload(t) \/ OpenCallback(t) \/ ConfigRetry(t) \/ RetryExchange(t)
    \/ SubmitAddress(t) \/ EditAddress(t) \/ UseDifferentAddress(t)

Next ==
    \/ \E t \in Tabs : CallStep(t) \/ BootStep(t) \/ UserStep(t) \/ AddressAnswered(t)
    \/ \E t \in Tabs, kind \in Kinds : LoseCall(t, kind)
    \/ \E r \in Requests : SendRequest(r) \/ RequestStep(r)
    \/ \E o \in orphans : FinishOrphan(o)
    \/ HalfMinutePasses
    \/ QuarterHourPasses

\* The server answers, or the network fails, and timers fire.  Nobody has to act.
Fairness ==
    /\ \A t \in Tabs : WF_vars(CallStep(t)) /\ WF_vars(BootStep(t)) /\ WF_vars(AddressAnswered(t))
    /\ \A r \in Requests : WF_vars(RequestStep(r))

Spec == Init /\ [][Next]_vars /\ Fairness

-----------------------------------------------------------------------------
(* Properties.                                                             *)

TokenOrNone == 0..Len(server.tokens)

\* Type correctness: every cookie, access token and answer is of a token that was
\* issued, and a request goes on only with a token.
TypeOK ==
    /\ \A n \in Tokens(server) : server.tokens[n].revoked \in 0..server.clock
    /\ server.link \in {"none", "mailed", "used"} /\ server.refused \subseteq Keyed
    /\ cookie \in TokenOrNone /\ locks \in BOOLEAN
    /\ \A t \in Tabs : /\ tab[t].session \in TokenOrNone
                       /\ \A k \in Kinds : calls[t][k].cookie \in TokenOrNone
                       /\ \A k \in Kinds : calls[t][k].answer.token \in TokenOrNone
    /\ \A r \in Requests : req[r].phase # "none" => req[r].token \in 1..Len(server.tokens)

\* Where the browser has locks, nobody has signed out and no answer was lost, no tab
\* is signed out by the rotation: every refresh that presents a cookie is served, each
\* family has one active token, and the cookie is active but while a call changes it.
\* It relates the shared promise and the lock of session.ts, the moment the browser
\* stores the cookie, and the rotation of services/auth.py.
HonestTabsStaySignedIn ==
    (locks /\ history = {}) =>
        /\ \A t \in Tabs : LET c == calls[t]["refresh"] IN
              (c.phase = "decided" /\ c.cookie # 0) => c.verdict = "rotate"
        /\ \A n \in Tokens(server) : Cardinality({m \in FamilyOf(server, n) : Active(server, m)}) = 1
        /\ (cookie # 0 /\ ~Active(server, cookie)) =>
              \E t \in Tabs : calls[t]["refresh"].phase = "answered"

\* Every wait ends: a refresh and the requests that share it, a retry, a sign-out, the
\* exchange of a mail link, a boot, which fails as unavailable only for as long as the
\* server does, and a request for a mail link.
Settles ==
    /\ \A t \in Tabs :
         /\ \A k \in Kinds : (calls[t][k].phase # "none") ~> (calls[t][k].phase = "none")
         /\ (tab[t].config.failure = "unavailable") ~> (tab[t].config.failure # "unavailable")
         /\ (tab[t].form.status = "pending") ~> (tab[t].form.status # "pending")
    /\ \A r \in Requests : (req[r].phase = "sent") ~> (req[r].phase = "done")
=============================================================================
