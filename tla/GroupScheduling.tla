---------------------------- MODULE GroupScheduling ----------------------------
(***************************************************************************)
(* The service layer of the scheduler (backend/app/services): groups,      *)
(* memberships, availability, proposals, votes and confirmation, over the  *)
(* PostgreSQL tables they share.                                           *)
(*                                                                         *)
(* Each HTTP request runs one service function in one database session at  *)
(* isolation level READ COMMITTED, and every function has the same shape:  *)
(*   Load    SELECT the groups row and the caller's membership,            *)
(*   decide  more SELECTs, the guards, and changes to the ORM objects,     *)
(*   Commit  flush the pending changes and commit, or fail as a whole.     *)
(* Requests interleave between these three steps.  Nothing locks the rows  *)
(* a request has read, so what a request decides on may be stale when it   *)
(* commits: the interleavings this module is about.                        *)
(***************************************************************************)
EXTENDS Integers, FiniteSets, FiniteSetsExt

CONSTANTS
    Users, Groups, Requests,
    Proposals,          \* identifiers of proposal rows, each used at most once
    ProposalGroup,      \* the group a proposal identifier is created in
    Span,               \* the slots a proposal covers
    NoProposal,         \* SQL NULL in groups.confirmed_proposal_id
    Slots,              \* slot instants, as integers
    Windows,            \* sets of slots that the bounds of a group can generate
    Selections,         \* <<available, preferred>> bodies of PUT availability/me
    VoteValues,
    Notified,           \* users whose memberships have notify_email true
    ReminderLead,       \* REMINDER_LEAD_HOURS, in slots
    MaxMembers, MaxProposals, MaxGroupsPerUser,
    Enabled,            \* the operations a run exercises
    MaxVersion, MaxRotations, MaxTime   \* bounds of the state space

Ops == {"create", "patch", "drop", "join", "remove", "availability", "propose",
        "withdraw", "vote", "unvote", "confirm", "unconfirm"}

ASSUME SchedulingAssumption ==
    /\ Users # {} /\ Groups # {} /\ Windows # {}
    /\ Requests # {} /\ IsFiniteSet(Requests)
    /\ Slots \subseteq Nat
    /\ Windows \subseteq SUBSET Slots
    /\ ProposalGroup \in [Proposals -> Groups]
    /\ Span \in [Proposals -> SUBSET Slots]
    /\ NoProposal \notin Proposals
    /\ Selections \subseteq (SUBSET Slots) \X (SUBSET Slots)
    /\ Notified \subseteq Users
    /\ Enabled \subseteq Ops
    /\ ReminderLead \in Nat
    /\ MaxMembers \in Nat \ {0} /\ MaxProposals \in Nat /\ MaxGroupsPerUser \in Nat
    /\ MaxVersion \in Nat /\ MaxRotations \in Nat /\ MaxTime \in Nat

VARIABLES
    groups,     \* the groups rows
    roles,      \* memberships.role, "none" when there is no membership row
    submitted,  \* users with memberships.availability_submitted_at set
    avail,      \* availability rows <<user, slot, state>> of each group
    proposals,  \* life cycle of each proposal row
    votes,      \* votes rows <<proposal, user, value>>
    reminders,  \* reminder_send job of each <<proposal, user>>
    now,        \* the clock
    req,        \* the requests in flight, with their ORM session
    overtaken   \* history: the requests in flight that have seen their group before
                \* another request committed a change to it

tables == <<groups, roles, submitted, avail, proposals, votes, reminders>>
vars == <<groups, roles, submitted, avail, proposals, votes, reminders, now, req, overtaken>>

States == {"absent", "open", "confirmed", "deleted"}
Roles == {"none", "owner", "member"}
Marks == {"available", "preferred"}

GroupRow == [owner : Users, state : States, pid : Proposals \cup {NoProposal},
             window : Windows, invite : Nat, version : Nat]

AvailRow == Users \X Slots \X Marks
VoteRow == Proposals \X Users \X VoteValues
Key == Proposals \X Users

BlankRow == [owner |-> CHOOSE u \in Users : TRUE, state |-> "absent",
             pid |-> NoProposal, window |-> CHOOSE w \in Windows : TRUE,
             invite |-> 0, version |-> 0]

\* A request: the groups row as loaded, the same row as the session holds it
\* now, and the inserts, updates and deletes pending until the flush.
Request ==
    [phase : {"idle", "loaded", "ready"}, user : Users, group : Groups,
     role : Roles, row : GroupRow, obj : GroupRow,
     stmt : {"insert", "update", "delete"}, token : Nat, ifMatch : Nat,
     memIns : SUBSET Users, memDel : SUBSET Users, submit : SUBSET Users,
     avIns : SUBSET AvailRow, avDel : SUBSET (Users \X Slots),
     propIns : SUBSET Proposals, propDel : SUBSET Proposals,
     voteIns : SUBSET VoteRow, voteUpd : SUBSET VoteRow, voteDel : SUBSET Key,
     jobIns : SUBSET Key, jobDel : SUBSET Key]

Idle ==
    [phase |-> "idle", user |-> CHOOSE u \in Users : TRUE,
     group |-> CHOOSE g \in Groups : TRUE,
     role |-> "none", row |-> BlankRow, obj |-> BlankRow,
     stmt |-> "update", token |-> 0, ifMatch |-> 0,
     memIns |-> {}, memDel |-> {}, submit |-> {}, avIns |-> {}, avDel |-> {},
     propIns |-> {}, propDel |-> {}, voteIns |-> {}, voteUpd |-> {},
     voteDel |-> {}, jobIns |-> {}, jobDel |-> {}]

Init ==
    /\ groups = [g \in Groups |-> BlankRow]
    /\ roles = [g \in Groups |-> [u \in Users |-> "none"]]
    /\ submitted = [g \in Groups |-> {}]
    /\ avail = [g \in Groups |-> {}]
    /\ proposals = [p \in Proposals |-> "unused"]
    /\ votes = {}
    /\ reminders = [k \in Key |-> "none"]
    /\ now = 0
    /\ req = [r \in Requests |-> Idle]
    /\ overtaken = {}

Exists(row) == row.state \in {"open", "confirmed"}
Members(g) == {u \in Users : roles[g][u] # "none"}
LiveProposals(g) == {p \in Proposals : ProposalGroup[p] = g /\ proposals[p] = "live"}

-----------------------------------------------------------------------------
(* The start of a request: get_group_view, _group_and_membership.          *)

Load(r, u, g) ==
    /\ req[r].phase = "idle"
    /\ Exists(groups[g])
    /\ req' = [req EXCEPT ![r] = [Idle EXCEPT !.phase = "loaded", !.user = u,
                 !.group = g, !.role = roles[g][u],
                 !.row = groups[g], !.obj = groups[g]]]
    /\ UNCHANGED <<tables, now, overtaken>>

\* The session of r closes.
Close(r) == req' = [req EXCEPT ![r] = Idle]

\* A read, or a request a guard rejects: the session closes and nothing changed.
Finish(r) ==
    /\ req[r].phase = "loaded"
    /\ Close(r) /\ overtaken' = overtaken \ {r}
    /\ UNCHANGED <<tables, now>>

Caller(r, op) == op \in Enabled /\ req[r].phase = "loaded"
AsMember(r, op) == Caller(r, op) /\ req[r].role # "none"
AsOwner(r, op) == Caller(r, op) /\ req[r].role = "owner"

\* The request leaves its decision phase with the pending changes of q.
Pend(r, q) ==
    /\ req' = [req EXCEPT ![r] = [q EXCEPT !.phase = "ready"]]
    /\ UNCHANGED <<tables, now, overtaken>>

\* Mutant of Bumped: a decrement.
BumpedDown(q) == [q EXCEPT !.obj.version = q.row.version - 2]

\* bump_group_version: an increment of the version the session loaded.
Bumped(q) == [q EXCEPT !.obj.version = q.row.version + 1]
PendBumped(r, q) == q.row.version < MaxVersion /\ Pend(r, Bumped(q))

-----------------------------------------------------------------------------
(* Groups and memberships.                                                 *)

\* create_group: no row to load; the slug is fresh, and the owner is a member.
CreateGroup(r, u, g) ==
    /\ "create" \in Enabled
    /\ req[r].phase = "idle"
    /\ groups[g].state = "absent"
    /\ \A q \in Requests : req[q].stmt = "insert" => req[q].group # g
    /\ Cardinality({h \in Groups : roles[h][u] # "none"}) < MaxGroupsPerUser
    /\ \E w \in Windows :
         Pend(r, [Idle EXCEPT !.user = u, !.group = g, !.stmt = "insert",
                    !.obj = [BlankRow EXCEPT !.owner = u, !.state = "open",
                               !.window = w, !.version = 1],
                    !.memIns = {u}])

\* Mutants of UpdateGroup: the availability stays; If-Match is not compared.
UpdateGroupKeepingRows(r, w, rebound, rotate, ifMatch) ==
    LET q == req[r] IN
    /\ AsOwner(r, "patch")
    /\ ifMatch \in {0, q.row.version}
    /\ PendBumped(r, [q EXCEPT !.ifMatch = ifMatch, !.obj.window = w])

UpdateGroupUnmatched(r, w, rebound, rotate, ifMatch) ==
    LET q == req[r] IN
    /\ AsOwner(r, "patch")
    /\ ~rebound => w = q.row.window
    /\ PendBumped(r, [q EXCEPT !.ifMatch = ifMatch, !.obj.window = w])

\* update_group: when the bounds are among the changes, the availability that no
\* longer fits them goes; the invite token may rotate.  Name, description and
\* feed token only show as a new version.
UpdateGroup(r, w, rebound, rotate, ifMatch) ==
    LET q == req[r] IN
    /\ AsOwner(r, "patch")
    /\ ifMatch \in {0, q.row.version}
    /\ ~rebound => w = q.row.window
    /\ rotate => q.row.invite < MaxRotations
    /\ PendBumped(r, [q EXCEPT !.ifMatch = ifMatch, !.obj.window = w,
         !.obj.invite = IF rotate THEN @ + 1 ELSE @,
         !.avDel = {<<a[1], a[2]>> :
                      a \in {b \in avail[q.group] : rebound /\ b[2] \notin w}}])

\* delete_group: the foreign keys cascade at the commit.
DeleteGroup(r) ==
    /\ AsOwner(r, "drop")
    /\ Pend(r, [req[r] EXCEPT !.stmt = "delete"])

\* Mutant of JoinGroup: the limit is off by one.
JoinGroupOneTooMany(r, token) ==
    LET q == req[r] IN
    /\ Caller(r, "join")
    /\ token = q.row.invite
    /\ roles[q.group][q.user] = "none"
    /\ Cardinality(Members(q.group)) <= MaxMembers
    /\ PendBumped(r, [q EXCEPT !.token = token, !.memIns = {q.user}])

\* join_group: no membership needed, only the token of the invite link.
JoinGroup(r, token) ==
    LET q == req[r] IN
    /\ Caller(r, "join")
    /\ token = q.row.invite
    /\ roles[q.group][q.user] = "none"
    /\ Cardinality(Members(q.group)) < MaxMembers
    /\ PendBumped(r, [q EXCEPT !.token = token, !.memIns = {q.user}])

\* Mutants of RemoveMember: the owner can leave; the availability stays.
RemoveMemberOrOwner(r, target) ==
    LET q == req[r] IN
    /\ AsMember(r, "remove")
    /\ roles[q.group][target] # "none"
    /\ q.role = "owner" \/ q.user = target
    /\ PendBumped(r, [q EXCEPT !.memDel = {target}])

RemoveMemberKeepingRows(r, target) ==
    LET q == req[r] IN
    /\ AsMember(r, "remove")
    /\ roles[q.group][target] = "member"
    /\ q.role = "owner" \/ q.user = target
    /\ PendBumped(r, [q EXCEPT
         !.voteDel = {<<v[1], v[2]>> : v \in {w \in votes :
                         w[2] = target /\ ProposalGroup[w[1]] = q.group}},
         !.memDel = {target}])

\* remove_member: the owner removes a member, or a member leaves.
RemoveMember(r, target) ==
    LET q == req[r] IN
    /\ AsMember(r, "remove")
    /\ roles[q.group][target] = "member"
    /\ q.role = "owner" \/ q.user = target
    /\ PendBumped(r, [q EXCEPT
         !.avDel = {<<a[1], a[2]>> : a \in {b \in avail[q.group] : b[1] = target}},
         !.voteDel = {<<v[1], v[2]>> : v \in {w \in votes :
                         w[2] = target /\ ProposalGroup[w[1]] = q.group}},
         !.memDel = {target}])

-----------------------------------------------------------------------------
(* Availability, proposals and votes: refused once the group is confirmed. *)

\* Mutant of Preferring: a slot in both lists is stored twice.
PreferringToo(u, sel) ==
    {<<u, s, "preferred">> : s \in sel[2]}
        \cup {<<u, s, "available">> : s \in sel[1]}

Preferring(u, sel) ==
    {<<u, s, "preferred">> : s \in sel[2]}
        \cup {<<u, s, "available">> : s \in sel[1] \ sel[2]}

\* put_my_availability: a full replacement.  The DELETE statement runs here, on
\* the rows it sees; the inserts are flushed at the commit.
PutMyAvailability(r, sel) ==
    LET q == req[r] IN
    /\ AsMember(r, "availability")
    /\ q.row.state # "confirmed"
    /\ sel[1] \subseteq q.row.window /\ sel[2] \subseteq q.row.window
    /\ PendBumped(r, [q EXCEPT
         !.avDel = {<<a[1], a[2]>> : a \in {b \in avail[q.group] : b[1] = q.user}},
         !.avIns = Preferring(q.user, sel),
         !.submit = {q.user}])

\* create_proposal
CreateProposal(r, p) ==
    LET q == req[r] IN
    /\ AsOwner(r, "propose")
    /\ q.row.state # "confirmed"
    /\ Cardinality(LiveProposals(q.group)) < MaxProposals
    /\ Span[p] \subseteq q.row.window
    /\ proposals[p] = "unused" /\ ProposalGroup[p] = q.group
    /\ \A o \in Requests : p \notin req[o].propIns
    /\ PendBumped(r, [q EXCEPT !.propIns = {p}])

\* Mutant of DeleteProposal: also while the group is confirmed.
DeleteProposalAnytime(r, p) ==
    LET q == req[r] IN
    /\ AsOwner(r, "withdraw")
    /\ p \in LiveProposals(q.group)
    /\ PendBumped(r, [q EXCEPT !.propDel = {p}])

\* delete_proposal
DeleteProposal(r, p) ==
    LET q == req[r] IN
    /\ AsOwner(r, "withdraw")
    /\ q.row.state # "confirmed"
    /\ p \in LiveProposals(q.group)
    /\ PendBumped(r, [q EXCEPT !.propDel = {p}])

\* Mutants of PutVote: also while the group is confirmed; without a new version.
PutVoteAnytime(r, p, v) ==
    LET q == req[r]
        mine == {w \in votes : w[1] = p /\ w[2] = q.user}
    IN
    /\ AsMember(r, "vote")
    /\ p \in LiveProposals(q.group)
    /\ PendBumped(r, [q EXCEPT
         !.voteIns = IF mine = {} THEN {<<p, q.user, v>>} ELSE {},
         !.voteUpd = IF mine = {} THEN {} ELSE {<<p, q.user, v>>} \ mine])

PutVoteUnversioned(r, p, v) ==
    LET q == req[r]
        mine == {w \in votes : w[1] = p /\ w[2] = q.user}
    IN
    /\ AsMember(r, "vote")
    /\ p \in LiveProposals(q.group)
    /\ q.row.state # "confirmed"
    /\ Pend(r, [q EXCEPT
         !.voteIns = IF mine = {} THEN {<<p, q.user, v>>} ELSE {},
         !.voteUpd = IF mine = {} THEN {} ELSE {<<p, q.user, v>>} \ mine])

\* put_vote: an insert, or an update when the value differs from the stored one.
PutVote(r, p, v) ==
    LET q == req[r]
        mine == {w \in votes : w[1] = p /\ w[2] = q.user}
    IN
    /\ AsMember(r, "vote")
    /\ p \in LiveProposals(q.group)
    /\ q.row.state # "confirmed"
    /\ PendBumped(r, [q EXCEPT
         !.voteIns = IF mine = {} THEN {<<p, q.user, v>>} ELSE {},
         !.voteUpd = IF mine = {} THEN {} ELSE {<<p, q.user, v>>} \ mine])

\* delete_vote: without a vote to delete it neither bumps nor commits.
DeleteVote(r, p) ==
    LET q == req[r] IN
    /\ AsMember(r, "unvote")
    /\ p \in LiveProposals(q.group)
    /\ q.row.state # "confirmed"
    /\ \E w \in votes : w[1] = p /\ w[2] = q.user
    /\ PendBumped(r, [q EXCEPT !.voteDel = {<<p, q.user>>}])

-----------------------------------------------------------------------------
(* Confirmation and its reminders.                                         *)

RunAfter(p) == Min(Span[p]) - ReminderLead

\* Mutant of ConfirmGroup: any member may.
ConfirmGroupByMember(r, p, send) ==
    LET q == req[r] IN
    /\ AsMember(r, "confirm")
    /\ q.row.state # "confirmed"
    /\ p \in LiveProposals(q.group)
    /\ PendBumped(r, [q EXCEPT !.obj.state = "confirmed", !.obj.pid = p])

\* confirm_group: a reminder in the past is dropped.
ConfirmGroup(r, p, send) ==
    LET q == req[r] IN
    /\ AsOwner(r, "confirm")
    /\ q.row.state # "confirmed"
    /\ p \in LiveProposals(q.group)
    /\ PendBumped(r, [q EXCEPT !.obj.state = "confirmed", !.obj.pid = p,
         !.jobIns = IF send /\ RunAfter(p) > now
                    THEN {p} \X (Members(q.group) \cap Notified) ELSE {}])

\* Mutant of UnconfirmGroup: confirmed_proposal_id stays.
UnconfirmGroupKeepingProposal(r) ==
    LET q == req[r] IN
    /\ AsOwner(r, "unconfirm")
    /\ q.row.state = "confirmed" /\ q.row.pid # NoProposal
    /\ PendBumped(r, [q EXCEPT !.obj.state = "open"])

\* unconfirm_group: the jobs of the confirmed proposal that are not completed.
UnconfirmGroup(r) ==
    LET q == req[r] IN
    /\ AsOwner(r, "unconfirm")
    /\ q.row.state = "confirmed" /\ q.row.pid # NoProposal
    /\ PendBumped(r, [q EXCEPT !.obj.state = "open", !.obj.pid = NoProposal,
         !.jobDel = {k \in Key : k[1] = q.row.pid
                                   /\ reminders[k] \in {"waiting", "locked"}}])

-----------------------------------------------------------------------------
(* The flush.  SQLAlchemy writes the columns whose value the session       *)
(* changed, whatever another transaction stored in between.                *)

Flushed(current, loaded, obj) ==
    [owner |-> current.owner,
     state |-> IF obj.state # loaded.state THEN obj.state ELSE current.state,
     pid |-> IF obj.pid # loaded.pid THEN obj.pid ELSE current.pid,
     window |-> IF obj.window # loaded.window THEN obj.window ELSE current.window,
     invite |-> IF obj.invite # loaded.invite THEN obj.invite ELSE current.invite,
     version |-> IF obj.version # loaded.version THEN obj.version ELSE current.version]

Keys(rows) == {<<x[1], x[2]>> : x \in rows}

\* An UPDATE must match its row (StaleDataError), and primary keys, foreign keys
\* and the unique dedupe_key must hold; a DELETE may match nothing.
Flushable(q) ==
    /\ q.stmt = "update" => Exists(groups[q.group])
    /\ q.stmt = "insert" => groups[q.group].state = "absent"
    /\ \A u \in q.memIns : roles[q.group][u] = "none"
    /\ \A u \in q.submit : roles[q.group][u] # "none"
    /\ Keys(q.avIns) \cap (Keys(avail[q.group]) \ q.avDel) = {}
    /\ \A v \in q.voteIns : proposals[v[1]] = "live"
    /\ Keys(q.voteIns) \cap Keys(votes) = {}
    /\ Keys(q.voteUpd) \subseteq Keys(votes)
    /\ \A k \in q.jobIns : reminders[k] = "none"

\* The proposals a commit deletes, directly or by the cascade from its group.
Gone(q) == IF q.stmt = "delete" THEN LiveProposals(q.group) ELSE q.propDel

NewRoles(q) ==
    [u \in Users |->
       IF q.stmt = "delete" \/ u \in q.memDel THEN "none"
       ELSE IF u \in q.memIns
            THEN IF q.stmt = "insert" THEN "owner" ELSE "member"
       ELSE roles[q.group][u]]

\* The other requests in flight on the group of r: what they have read of it is old
\* once r commits.
Others(r) == {o \in Requests \ {r} : req[o].phase # "idle" /\ req[o].group = req[r].group}

Commit(r) ==
    LET q == req[r]
        g == q.group
        dropped == q.stmt = "delete"
    IN
    /\ q.phase = "ready"
    /\ Flushable(q)
    /\ groups' = [groups EXCEPT ![g] =
         IF dropped THEN [BlankRow EXCEPT !.state = "deleted"]
         ELSE IF q.stmt = "insert" THEN q.obj
         ELSE Flushed(@, q.row, q.obj)]
    /\ roles' = [roles EXCEPT ![g] = NewRoles(q)]
    /\ submitted' = [submitted EXCEPT ![g] =
         IF dropped THEN {} ELSE (@ \ q.memDel) \cup q.submit]
    /\ avail' = [avail EXCEPT ![g] =
         IF dropped THEN {}
         ELSE {a \in @ : <<a[1], a[2]>> \notin q.avDel} \cup q.avIns]
    /\ proposals' = [p \in Proposals |->
         IF p \in Gone(q) THEN "deleted"
         ELSE IF p \in q.propIns THEN "live" ELSE proposals[p]]
    /\ votes' = {v \in votes :
                   /\ v[1] \notin Gone(q)
                   /\ <<v[1], v[2]>> \notin q.voteDel \cup Keys(q.voteUpd)}
                \cup q.voteIns \cup q.voteUpd
    /\ reminders' = [k \in Key |->
         IF k \in q.jobDel THEN "none"
         ELSE IF k \in q.jobIns THEN "waiting" ELSE reminders[k]]
    /\ Close(r) /\ overtaken' = (overtaken \ {r}) \cup Others(r)
    /\ UNCHANGED now

\* A constraint violation, a deadlock, the statement timeout, a lost connection:
\* guarded_session rolls back and the client sees an error.
Abort(r) ==
    /\ req[r].phase = "ready"
    /\ Close(r) /\ overtaken' = overtaken \ {r}
    /\ UNCHANGED <<tables, now>>

Tick ==
    /\ now < MaxTime
    /\ now' = now + 1
    /\ UNCHANGED <<tables, req, overtaken>>

Step(r) ==
    \/ \E u \in Users, g \in Groups : Load(r, u, g) \/ CreateGroup(r, u, g)
    \/ Finish(r) \/ Commit(r) \/ Abort(r)
    \/ \E w \in Windows, b, i \in BOOLEAN, m \in 0 .. MaxVersion :
         UpdateGroup(r, w, b, i, m)
    \/ DeleteGroup(r) \/ UnconfirmGroup(r)
    \/ \E t \in 0 .. MaxRotations : JoinGroup(r, t)
    \/ \E u \in Users : RemoveMember(r, u)
    \/ \E sel \in Selections : PutMyAvailability(r, sel)
    \/ \E p \in Proposals :
         \/ CreateProposal(r, p) \/ DeleteProposal(r, p) \/ DeleteVote(r, p)
         \/ \E v \in VoteValues : PutVote(r, p, v)
         \/ \E b \in BOOLEAN : ConfirmGroup(r, p, b)

Next == Tick \/ \E r \in Requests : Step(r)

Spec == Init /\ [][Next]_vars

-----------------------------------------------------------------------------
(* Invariants that hold however the requests interleave.                   *)

\* Every variable has its type: the rows are rows of their tables, and every
\* session holds a groups row and pending changes to rows of those tables.
TypeOK ==
    /\ groups \in [Groups -> GroupRow]
    /\ roles \in [Groups -> [Users -> Roles]]
    /\ submitted \in [Groups -> SUBSET Users]
    /\ avail \in [Groups -> SUBSET AvailRow]
    /\ proposals \in [Proposals -> {"unused", "live", "deleted"}]
    /\ votes \in SUBSET VoteRow
    /\ reminders \in [Key -> {"none", "waiting", "locked", "done"}]
    /\ now \in Nat
    /\ req \in [Requests -> Request]
    /\ overtaken \in SUBSET Requests

\* ARCHITECTURE.md section 5, invariant 5: confirmed_proposal_id is non-null
\* exactly when the group is confirmed.  Two requests may both confirm, or
\* confirm and unconfirm, from the same loaded row, and the flush writes the two
\* columns one by one: they must still move together.
ConfirmedIffProposal ==
    \A g \in Groups :
        /\ groups[g].state = "confirmed" <=> groups[g].pid # NoProposal
        /\ groups[g].pid # NoProposal => ProposalGroup[groups[g].pid] = g

\* ARCHITECTURE.md section 5, invariant 7, and backend.md "A group has exactly
\* one owner": whatever joins and removals race, the owner of an existing group
\* keeps the owner membership and nobody else ever has one.
OneOwner ==
    \A g \in Groups :
        Exists(groups[g]) =>
            \A u \in Users : roles[g][u] = "owner" <=> u = groups[g].owner

Commits(r) == req[r].phase = "ready" /\ req'[r].phase = "idle"

AuthorisedStep ==
    /\ \A g \in Groups :
          (/\ Exists(groups[g])
           /\ \/ groups[g].state # groups'[g].state
              \/ groups[g].pid # groups'[g].pid
              \/ groups[g].window # groups'[g].window
              \/ LiveProposals(g) # LiveProposals(g)')
          => \E r \in Requests : Commits(r) /\ req[r].user = groups[g].owner
    /\ \A g \in Groups : \A a \in avail'[g] \ avail[g] :
          \E r \in Requests : Commits(r) /\ req[r].user = a[1]
    /\ \A v \in votes' \ votes :
          \E r \in Requests : Commits(r) /\ req[r].user = v[2]

\* The handlers check the caller's role in a SELECT that may be stale when they
\* write, so authority must never change under a request in flight: state, bounds
\* and proposals of an existing group change only through a request of its owner,
\* and rows of availability or votes appear only through their own user.
ChangesAreAuthorised == [][AuthorisedStep]_vars

-----------------------------------------------------------------------------
(* The inductive invariant behind the three properties above.              *)

Consistent(row, g) ==
    /\ row.state = "confirmed" <=> row.pid # NoProposal
    /\ row.pid # NoProposal => ProposalGroup[row.pid] = g

\* A session changes state and pid together or leaves both alone.
MovesTogether(q) ==
    (q.obj.state # q.row.state) <=> (q.obj.pid # q.row.pid)

Privileged(q) ==
    \/ q.stmt = "delete" \/ q.propIns # {} \/ q.propDel # {}
    \/ q.obj.state # q.row.state \/ q.obj.window # q.row.window

\* A session that has only loaded has changed nothing yet.
Untouched(q) ==
    /\ q.stmt = "update" /\ q.obj = q.row
    /\ q.memIns = {} /\ q.memDel = {} /\ q.avIns = {}
    /\ q.propIns = {} /\ q.propDel = {} /\ q.voteIns = {} /\ q.voteUpd = {}

\* What a session on an existing row knows about that row, however stale.
SessionOnRow(q) ==
    /\ groups[q.group].state # "absent"
    /\ Exists(q.obj) /\ MovesTogether(q)
    /\ Privileged(q) => q.role = "owner"
    /\ Exists(groups[q.group]) =>
          /\ q.role = "owner" => q.user = groups[q.group].owner
          /\ groups[q.group].owner \notin q.memDel

\* What a session that inserts a group is about to write.
SessionOnNewRow(q) ==
    /\ q.obj.state = "open"
    /\ q.memIns = {q.obj.owner} /\ q.memDel = {}
    /\ q.propIns = {} /\ q.propDel = {}

OwnRows(q) ==
    /\ \A a \in q.avIns : a[1] = q.user
    /\ \A v \in q.voteIns \cup q.voteUpd : v[2] = q.user
    /\ \A p \in q.propIns \cup q.propDel : ProposalGroup[p] = q.group

SessionInv(q) ==
    /\ Consistent(q.row, q.group) /\ Consistent(q.obj, q.group)
    /\ OwnRows(q)
    /\ q.phase = "loaded" => Untouched(q)
    /\ q.phase # "idle" =>
          IF q.stmt = "insert" THEN SessionOnNewRow(q) ELSE SessionOnRow(q)

\* No membership before the group: its first member is the owner.
NoRolesBefore ==
    \A g \in Groups : groups[g].state = "absent" => \A u \in Users : roles[g][u] = "none"

\* Holds in every reachable state, and every step keeps it: it adds to the two
\* invariants what each session holds while the rows move under it.
IInv ==
    /\ TypeOK /\ ConfirmedIffProposal /\ OneOwner /\ NoRolesBefore
    /\ \A r \in Requests : SessionInv(req[r])

-----------------------------------------------------------------------------
(* Properties that only a late commit can break.  Nothing stops a request  *)
(* that was overtaken from committing what it decided on, and then each of *)
(* these can fail; the point is that nothing else makes them fail, in any  *)
(* interleaving and whatever is broken already.                            *)

LateCommit(g) == \E r \in overtaken : Commits(r) /\ req[r].group = g

\* What a group read, a matrix read and a proposal read show under one ETag.
Content(g) ==
    <<[groups[g] EXCEPT !.version = 0], roles[g], submitted[g], avail[g],
      LiveProposals(g), {v \in votes : ProposalGroup[v[1]] = g}>>

Counted(g) ==
    Exists(groups[g]) /\ Exists(groups[g])' /\ Content(g) # Content(g)'
    => groups'[g].version = groups[g].version + 1

\* ARCHITECTURE.md section 5, invariant 9: every change to what a group shows
\* increments its version, so no ETag stands for two contents.  bump_group_version
\* computes version + 1 from the loaded row, and the UPDATE is unconditional.
EveryChangeCounts == [][\A g \in Groups : Counted(g)]_vars

\* Only a late commit changes what a group shows without raising its version by one.
VersionCountsChanges == [][\A g \in Groups : Counted(g) \/ LateCommit(g)]_vars

Frozen(g) ==
    groups[g].state = "confirmed" /\ Exists(groups[g])' =>
        /\ avail'[g] \subseteq avail[g]
        /\ LiveProposals(g)' = LiveProposals(g)
        /\ \A v \in votes' : ProposalGroup[v[1]] = g => v \in votes

\* ARCHITECTURE.md section 5, invariant 4: while a group is confirmed nothing is
\* added to its availability, votes or proposals, and no proposal goes away, unless
\* by a late commit.  (Removing a member, or new bounds, may still delete rows.)
FrozenWhileConfirmed == [][\A g \in Groups : Frozen(g) \/ LateCommit(g)]_vars

ConfirmedLive(g) ==
    groups[g].state = "confirmed" => proposals[groups[g].pid] = "live"

\* A confirmed group points at a proposal row that exists, the one the export and the
\* feed render: only a late commit may take that away.
ConfirmedProposalLive ==
    [][\A g \in Groups : ConfirmedLive(g) => ConfirmedLive(g)' \/ LateCommit(g)]_vars

RowsOfMembers(g) ==
    /\ \A a \in avail[g] : roles[g][a[1]] # "none"
    /\ \A v \in votes : ProposalGroup[v[1]] = g => roles[g][v[2]] # "none"

\* Availability and votes belong to members, because removing a member removes both:
\* only a late commit leaves rows without a membership.
RowsOfMembersOnly ==
    [][\A g \in Groups : RowsOfMembers(g) => RowsOfMembers(g)' \/ LateCommit(g)]_vars

WithinWindow(g) == \A a \in avail[g] : a[2] \in groups[g].window

\* ARCHITECTURE.md section 5, invariant 1: stored availability lies inside the bounds
\* of its group, also after the bounds change, unless a late commit puts it outside.
AvailabilityInWindow ==
    [][\A g \in Groups : WithinWindow(g) => WithinWindow(g)' \/ LateCommit(g)]_vars

IfMatchStep ==
    \A r \in Requests \ overtaken :
        Commits(r) /\ req[r].ifMatch # 0 /\ groups' # groups =>
            groups[req[r].group].version = req[r].ifMatch

\* If-Match is optimistic concurrency: a PATCH that carries one takes effect on the
\* version it names, unless its commit is late.
IfMatchHonoured == [][IfMatchStep]_vars

\* The requests that have counted, and will add a member, a proposal, a group.
Joining(g) == {r \in Requests : req[r].group = g /\ req[r].memIns # {}}
Offering(g) == {r \in Requests : req[r].group = g /\ req[r].propIns # {}}
Founding(u) == {r \in Requests : req[r].stmt = "insert" /\ req[r].user = u}
Owned(u) == {g \in Groups : groups[g].owner = u /\ Exists(groups[g])}

\* ARCHITECTURE.md section 5, invariant 6: MAX_MEMBERS, the proposal limit and the
\* limit of groups per user hold with one request in flight.  Each request more that
\* has counted may exceed a limit by one, and that is all: requests that come later
\* count what is there.
LimitsHold ==
    LET more == Cardinality(Requests) - 1 IN
    /\ \A g \in Groups :
         /\ Cardinality(Members(g)) + Cardinality(Joining(g)) <= MaxMembers + more
         /\ Cardinality(LiveProposals(g)) + Cardinality(Offering(g)) <= MaxProposals + more
    /\ \A u \in Users :
         Cardinality(Owned(u)) + Cardinality(Founding(u)) <= MaxGroupsPerUser + more

\* The contract is about the tables; of the sessions, the reminders and the clock it
\* knows nothing.
Contract ==
    INSTANCE GroupContract
      WITH groups <- groups, roles <- roles, submitted <- submitted, avail <- avail,
           proposals <- proposals, votes <- votes

\* Every commit that is not late is one step of the contract: what the handler decided
\* on is what its flush finds.
KeepsContract ==
    Contract!Init /\ [][Contract!Next \/ \E g \in Groups : LateCommit(g)]_(Contract!vars)
=============================================================================
