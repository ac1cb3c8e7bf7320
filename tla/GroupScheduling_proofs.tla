------------------------ MODULE GroupScheduling_proofs ------------------------
(***************************************************************************)
(* Proofs about GroupScheduling for any number of users, groups, proposals *)
(* and requests, and any bounds and limits.                                *)
(*                                                                         *)
(* The first part proves type correctness, the invariants that survive     *)
(* stale reads, and the authority of every change.                         *)
(*                                                                         *)
(* The second part separates the commits that are late, of requests that   *)
(* another commit on their group has overtaken, from the others.  A        *)
(* session that is not overtaken finds at its flush what it has read       *)
(* (OverlapInv), so its commit is one operation of GroupContract; from     *)
(* that follow the invariants of ARCHITECTURE.md section 5, the freeze,    *)
(* the version, If-Match and the limits, each up to the late commits.      *)
(***************************************************************************)
EXTENDS GroupScheduling, FiniteSetTheorems, TLAPS

\* The records of the module have the types their definitions claim.
LEMMA BlankRowType == BlankRow \in GroupRow
BY SchedulingAssumption DEF BlankRow, GroupRow, States

\* A session before its first statement is a session.
LEMMA IdleType == Idle \in Request
BY SchedulingAssumption, BlankRowType DEF Idle, Request, Roles

\* The flush writes a groups row, whatever columns it takes from which row.
LEMMA FlushedType ==
    ASSUME NEW a \in GroupRow, NEW b \in GroupRow, NEW c \in GroupRow
    PROVE  Flushed(a, b, c) \in GroupRow
BY DEF Flushed, GroupRow

\* A session that leaves its decision phase is still a session.
LEMMA BumpedType ==
    ASSUME NEW q \in Request
    PROVE  Bumped(q) \in Request
BY DEF Bumped, Request, GroupRow

\* The decision steps change one session and no table.
LEMMA PendType ==
    ASSUME TypeOK, NEW r \in Requests, NEW q \in Request, Pend(r, q)
    PROVE  TypeOK'
<1>1. [q EXCEPT !.phase = "ready"] \in Request
  BY DEF Request
<1>2. req' \in [Requests -> Request]
  BY <1>1 DEF Pend, TypeOK
<1> QED
  BY <1>2 DEF Pend, tables, TypeOK

\* A session that leaves its object with a new version keeps its type.
LEMMA PendBumpedType ==
    ASSUME TypeOK, NEW r \in Requests, NEW q \in Request, PendBumped(r, q)
    PROVE  TypeOK'
BY PendType, BumpedType DEF PendBumped

\* Type correctness (the rows and sessions of GroupScheduling keep their shape).
LEMMA TypeInit == Init => TypeOK
BY BlankRowType, IdleType DEF Init, TypeOK, Roles

\* Flush and COMMIT write rows of the right types.
LEMMA TypeCommit ==
    ASSUME TypeOK, NEW r \in Requests, Commit(r)
    PROVE  TypeOK'
<1> DEFINE q == req[r]
<1> q \in Request
  BY DEF TypeOK
<1>1. req' \in [Requests -> Request]
  BY IdleType DEF Commit, Close, TypeOK, Request
<1>2. groups' \in [Groups -> GroupRow]
  <2> DEFINE g == q.group
             dead == [BlankRow EXCEPT !.state = "deleted"]
             new == IF q.stmt = "delete" THEN dead
                    ELSE IF q.stmt = "insert" THEN q.obj
                    ELSE Flushed(groups[g], q.row, q.obj)
  <2>1. dead \in GroupRow
    BY BlankRowType DEF GroupRow, States
  <2>2. groups[g] \in GroupRow /\ q.row \in GroupRow /\ q.obj \in GroupRow
    BY DEF TypeOK, Request
  <2>3. Flushed(groups[g], q.row, q.obj) \in GroupRow
    BY <2>2, FlushedType
  <2>4. new \in GroupRow
    BY <2>1, <2>2, <2>3
  <2>5. groups' = [groups EXCEPT ![g] = new]
    BY DEF Commit
  <2> QED
    BY <2>4, <2>5 DEF TypeOK
<1>3. roles' \in [Groups -> [Users -> Roles]]
  <2> NewRoles(q) \in [Users -> Roles]
    BY DEF NewRoles, TypeOK, Request, Roles
  <2> QED
    BY DEF Commit, TypeOK
<1>4. submitted' \in [Groups -> SUBSET Users]
  BY DEF Commit, TypeOK, Request
<1>5. avail' \in [Groups -> SUBSET AvailRow]
  BY DEF Commit, TypeOK, Request
<1>6. proposals' \in [Proposals -> {"unused", "live", "deleted"}]
  BY DEF Commit, TypeOK
<1>7. votes' \in SUBSET VoteRow
  BY DEF Commit, TypeOK, Request
<1>8. reminders' \in [Key -> {"none", "waiting", "locked", "done"}]
  BY DEF Commit, TypeOK
<1>9. now' \in Nat /\ overtaken' \in SUBSET Requests
  BY DEF Commit, Others, TypeOK
<1> QED
  BY <1>1, <1>2, <1>3, <1>4, <1>5, <1>6, <1>7, <1>8, <1>9 DEF TypeOK

\* What a service decides on is of the right type, and so is what it leaves pending.
LEMMA TypeDecision ==
    ASSUME TypeOK, NEW r \in Requests,
           \/ \E u \in Users, g \in Groups : CreateGroup(r, u, g)
           \/ \E w \in Windows, b, i \in BOOLEAN, m \in 0 .. MaxVersion : UpdateGroup(r, w, b, i, m)
           \/ DeleteGroup(r) \/ UnconfirmGroup(r)
           \/ \E t \in 0 .. MaxRotations : JoinGroup(r, t)
           \/ \E u \in Users : RemoveMember(r, u)
           \/ \E sel \in Selections : PutMyAvailability(r, sel)
           \/ \E p \in Proposals :
                \/ CreateProposal(r, p) \/ DeleteProposal(r, p) \/ DeleteVote(r, p)
                \/ \E v \in VoteValues : PutVote(r, p, v)
                \/ \E b \in BOOLEAN : ConfirmGroup(r, p, b)
    PROVE  TypeOK'
<1> DEFINE q == req[r]
<1>q. q \in Request /\ q.row \in GroupRow /\ q.user \in Users /\ q.group \in Groups
  BY DEF TypeOK, Request
<1>1. CASE \E u \in Users, g \in Groups : CreateGroup(r, u, g)
  <2> PICK u \in Users, g \in Groups : CreateGroup(r, u, g)
    BY <1>1
  <2> PICK w \in Windows :
         Pend(r, [Idle EXCEPT !.user = u, !.group = g, !.stmt = "insert",
                    !.obj = [BlankRow EXCEPT !.owner = u, !.state = "open",
                               !.window = w, !.version = 1],
                    !.memIns = {u}])
    BY DEF CreateGroup
  <2>1. [BlankRow EXCEPT !.owner = u, !.state = "open", !.window = w, !.version = 1]
          \in GroupRow
    BY BlankRowType DEF GroupRow, States
  <2> QED
    BY <2>1, IdleType, PendType DEF Request
<1>2. CASE \E w \in Windows, b, i \in BOOLEAN, m \in 0 .. MaxVersion :
             UpdateGroup(r, w, b, i, m)
  <2> PICK w \in Windows, b \in BOOLEAN, i \in BOOLEAN, m \in 0 .. MaxVersion :
             UpdateGroup(r, w, b, i, m)
    BY <1>2
  <2> DEFINE del == {<<a[1], a[2]>> : a \in {x \in avail[q.group] : b /\ x[2] \notin w}}
             invite == IF i THEN q.obj.invite + 1 ELSE q.obj.invite
  <2>1. m \in Nat /\ invite \in Nat /\ del \in SUBSET (Users \X Slots)
    BY <1>q, SchedulingAssumption DEF TypeOK, AvailRow, Request, GroupRow
  <2> HIDE DEF invite, del
  <2>2. [q EXCEPT !.ifMatch = m, !.obj.window = w, !.obj.invite = invite,
                  !.avDel = del] \in Request
    BY <1>q, <2>1 DEF Request, GroupRow
  <2>3. PendBumped(r, [q EXCEPT !.ifMatch = m, !.obj.window = w,
                         !.obj.invite = invite, !.avDel = del])
    BY DEF UpdateGroup, invite, del
  <2> QED
    BY <2>2, <2>3, PendBumpedType
<1>4. CASE DeleteGroup(r)
  <2>1. [q EXCEPT !.stmt = "delete"] \in Request
    BY <1>q DEF Request
  <2> QED
    BY <1>4, <2>1, PendType DEF DeleteGroup
<1>5. CASE UnconfirmGroup(r)
  <2> DEFINE del == {k \in Key : k[1] = q.row.pid /\ reminders[k] \in {"waiting", "locked"}}
  <2>0. del \in SUBSET Key
    OBVIOUS
  <2> HIDE DEF del
  <2>1. [q.obj EXCEPT !.state = "open", !.pid = NoProposal] \in GroupRow
    BY <1>q DEF Request, GroupRow, States
  <2>2. [q EXCEPT !.obj.state = "open", !.obj.pid = NoProposal, !.jobDel = del] \in Request
    BY <1>q, <2>0, <2>1 DEF Request
  <2> QED
    BY <1>5, <2>2, PendBumpedType DEF UnconfirmGroup, del
<1>6. CASE \E t \in 0 .. MaxRotations : JoinGroup(r, t)
  <2> PICK t \in 0 .. MaxRotations : JoinGroup(r, t)
    BY <1>6
  <2>0. t \in Nat
    BY SchedulingAssumption
  <2>1. [q EXCEPT !.token = t, !.memIns = {q.user}] \in Request
    BY <1>q, <2>0 DEF Request
  <2> QED
    BY <2>1, PendBumpedType DEF JoinGroup
<1>7. CASE \E u \in Users : RemoveMember(r, u)
  <2> PICK u \in Users : RemoveMember(r, u)
    BY <1>7
  <2> DEFINE del == {<<a[1], a[2]>> : a \in {b \in avail[q.group] : b[1] = u}}
             vdel == {<<v[1], v[2]>> : v \in {w \in votes :
                         w[2] = u /\ ProposalGroup[w[1]] = q.group}}
  <2>1. del \in SUBSET (Users \X Slots)
    BY <1>q DEF TypeOK, AvailRow
  <2>2. vdel \in SUBSET Key
    BY DEF TypeOK, VoteRow, Key
  <2>3. [q EXCEPT !.avDel = del, !.voteDel = vdel, !.memDel = {u}] \in Request
    BY <1>q, <2>1, <2>2 DEF Request
  <2> QED
    BY <2>3, PendBumpedType DEF RemoveMember
<1>8. CASE \E sel \in Selections : PutMyAvailability(r, sel)
  <2> PICK sel \in Selections : PutMyAvailability(r, sel)
    BY <1>8
  <2> DEFINE del == {<<a[1], a[2]>> : a \in {b \in avail[q.group] : b[1] = q.user}}
  <2>1. del \in SUBSET (Users \X Slots)
    BY <1>q DEF TypeOK, AvailRow
  <2>2. Preferring(q.user, sel) \in SUBSET AvailRow
    BY <1>q, SchedulingAssumption DEF Preferring, AvailRow, Marks
  <2>3. [q EXCEPT !.avDel = del, !.avIns = Preferring(q.user, sel), !.submit = {q.user}]
          \in Request
    BY <1>q, <2>1, <2>2 DEF Request
  <2> QED
    BY <2>3, PendBumpedType DEF PutMyAvailability
<1>9. CASE \E p \in Proposals :
             \/ CreateProposal(r, p) \/ DeleteProposal(r, p) \/ DeleteVote(r, p)
             \/ \E v \in VoteValues : PutVote(r, p, v)
             \/ \E b \in BOOLEAN : ConfirmGroup(r, p, b)
  <2> PICK p \in Proposals :
             \/ CreateProposal(r, p) \/ DeleteProposal(r, p) \/ DeleteVote(r, p)
             \/ \E v \in VoteValues : PutVote(r, p, v)
             \/ \E b \in BOOLEAN : ConfirmGroup(r, p, b)
    BY <1>9
  <2>1. CASE CreateProposal(r, p)
    <3>1. [q EXCEPT !.propIns = {p}] \in Request
      BY <1>q DEF Request
    <3> QED
      BY <2>1, <3>1, PendBumpedType DEF CreateProposal
  <2>2. CASE DeleteProposal(r, p)
    <3>1. [q EXCEPT !.propDel = {p}] \in Request
      BY <1>q DEF Request
    <3> QED
      BY <2>2, <3>1, PendBumpedType DEF DeleteProposal
  <2>3. CASE DeleteVote(r, p)
    <3>1. [q EXCEPT !.voteDel = {<<p, q.user>>}] \in Request
      BY <1>q DEF Request, Key
    <3> QED
      BY <2>3, <3>1, PendBumpedType DEF DeleteVote
  <2>4. CASE \E v \in VoteValues : PutVote(r, p, v)
    <3> PICK v \in VoteValues : PutVote(r, p, v)
      BY <2>4
    <3> DEFINE mine == {w \in votes : w[1] = p /\ w[2] = q.user}
               ins == IF mine = {} THEN {<<p, q.user, v>>} ELSE {}
               upd == IF mine = {} THEN {} ELSE {<<p, q.user, v>>} \ mine
    <3>1. ins \in SUBSET VoteRow /\ upd \in SUBSET VoteRow
      BY <1>q DEF VoteRow
    <3>2. [q EXCEPT !.voteIns = ins, !.voteUpd = upd] \in Request
      BY <1>q, <3>1 DEF Request
    <3> QED
      BY <3>2, PendBumpedType DEF PutVote
  <2>5. CASE \E b \in BOOLEAN : ConfirmGroup(r, p, b)
    <3> PICK b \in BOOLEAN : ConfirmGroup(r, p, b)
      BY <2>5
    <3> DEFINE jobs == IF b /\ RunAfter(p) > now
                       THEN {p} \X (Members(q.group) \cap Notified) ELSE {}
    <3>1. jobs \in SUBSET Key
      BY DEF Members, Key
    <3>2. [q EXCEPT !.obj.state = "confirmed", !.obj.pid = p, !.jobIns = jobs] \in Request
      BY <1>q, <3>1 DEF Request, GroupRow, States
    <3> QED
      BY <3>2, PendBumpedType DEF ConfirmGroup
  <2> QED
    BY <2>1, <2>2, <2>3, <2>4, <2>5
<1> QED
  BY <1>1, <1>2, <1>4, <1>5, <1>6, <1>7, <1>8, <1>9

\* Every step of every request keeps the types.
LEMMA TypeStep == TypeOK /\ [Next]_vars => TypeOK'
<1> SUFFICES ASSUME TypeOK, [Next]_vars PROVE TypeOK'
  OBVIOUS
<1>1. CASE UNCHANGED vars
  BY <1>1 DEF vars, TypeOK
<1>2. CASE Tick
  BY <1>2 DEF Tick, tables, TypeOK
<1>3. ASSUME NEW r \in Requests, Step(r) PROVE TypeOK'
  <2>1. CASE \E u \in Users, g \in Groups : Load(r, u, g)
    <3> PICK u \in Users, g \in Groups : Load(r, u, g)
      BY <2>1
    <3> DEFINE new == [Idle EXCEPT !.phase = "loaded", !.user = u, !.group = g,
                         !.role = roles[g][u], !.row = groups[g], !.obj = groups[g]]
    <3>1. roles[g][u] \in Roles /\ groups[g] \in GroupRow
      BY DEF TypeOK
    <3>2. new \in Request
      BY <3>1, IdleType DEF Request
    <3> QED
      BY <3>2 DEF Load, tables, TypeOK
  <2>2. CASE Finish(r)
    BY <2>2, IdleType DEF Finish, Close, tables, TypeOK
  <2>3. CASE Abort(r)
    BY <2>3, IdleType DEF Abort, Close, tables, TypeOK
  <2>4. CASE Commit(r)
    BY <2>4, TypeCommit
  <2> QED
    BY <1>3, <2>1, <2>2, <2>3, <2>4, TypeDecision DEF Step
<1> QED
  BY <1>1, <1>2, <1>3 DEF Next

\* The tables and the sessions keep their types whatever requests interleave.
THEOREM TypeCorrect == Spec => []TypeOK
BY TypeInit, TypeStep, PTL DEF Spec

-----------------------------------------------------------------------------
(* The inductive invariant IInv: the tables by themselves, then what every *)
(* session holds.                                                          *)

LEMMA InvInit == Init => IInv
<1> SUFFICES ASSUME Init PROVE IInv
  OBVIOUS
<1>1. TypeOK
  BY TypeInit
<1>2. ConfirmedIffProposal /\ OneOwner /\ NoRolesBefore
  BY DEF Init, ConfirmedIffProposal, OneOwner, NoRolesBefore, BlankRow, Exists
<1>3. SessionInv(Idle)
  BY DEF SessionInv, Idle, BlankRow, Consistent, OwnRows
<1> QED
  BY <1>1, <1>2, <1>3 DEF IInv, Init

\* A step that leaves the tables alone and puts a sound session in place of r's.
LEMMA SessionStep ==
    ASSUME IInv, NEW r \in Requests, NEW q, SessionInv(q), TypeOK',
           UNCHANGED tables, req' = [req EXCEPT ![r] = q]
    PROVE  IInv'
<1>1. (ConfirmedIffProposal /\ OneOwner /\ NoRolesBefore)'
  BY DEF IInv, tables, ConfirmedIffProposal, OneOwner, NoRolesBefore
<1>2. ASSUME NEW s \in Requests PROVE SessionInv(req[s])'
  <2>1. req'[s] = IF s = r THEN q ELSE req[s]
    BY DEF IInv, TypeOK
  <2>2. SessionInv(req'[s])
    BY <2>1 DEF IInv
  <2> QED
    BY <2>2 DEF SessionInv, SessionOnRow, tables
<1> QED
  BY <1>1, <1>2 DEF IInv

\* A decision is such a step.
LEMMA DecisionStep ==
    ASSUME IInv, NEW r \in Requests, NEW q, Pend(r, q),
           SessionInv([q EXCEPT !.phase = "ready"]), TypeOK'
    PROVE  IInv'
BY SessionStep DEF Pend

\* Bumping the version disturbs nothing the invariant is about.
LEMMA BumpedStep ==
    ASSUME IInv, NEW r \in Requests, NEW q \in Request, PendBumped(r, q),
           SessionInv([q EXCEPT !.phase = "ready"]), TypeOK'
    PROVE  IInv'
<1> DEFINE a == [q EXCEPT !.phase = "ready"]
           b == [Bumped(q) EXCEPT !.phase = "ready"]
<1>1. /\ b.phase = a.phase /\ b.user = a.user /\ b.group = a.group /\ b.role = a.role
      /\ b.row = a.row /\ b.stmt = a.stmt /\ b.memIns = a.memIns /\ b.memDel = a.memDel
      /\ b.avIns = a.avIns /\ b.propIns = a.propIns /\ b.propDel = a.propDel
      /\ b.voteIns = a.voteIns /\ b.voteUpd = a.voteUpd
  BY DEF Bumped, Request
<1>2. /\ b.obj.owner = a.obj.owner /\ b.obj.state = a.obj.state
      /\ b.obj.pid = a.obj.pid /\ b.obj.window = a.obj.window
  BY DEF Bumped, Request, GroupRow
<1>3. a.phase = "ready"
  BY DEF Request
<1>4. SessionInv(b)
  BY <1>1, <1>2, <1>3 DEF SessionInv, SessionOnRow, SessionOnNewRow, Consistent,
       OwnRows, MovesTogether, Privileged, Exists
<1> QED
  BY <1>4, DecisionStep DEF PendBumped

\* What the invariant says of a session in its decision phase.
LEMMA LoadedFacts ==
    ASSUME IInv, NEW r \in Requests, req[r].phase = "loaded"
    PROVE  /\ req[r] \in Request /\ req[r].row \in GroupRow
           /\ Untouched(req[r]) /\ SessionOnRow(req[r])
           /\ Consistent(req[r].row, req[r].group)
BY DEF IInv, TypeOK, Request, SessionInv, Untouched

\* A decision on an existing row keeps the invariant when it moves state and
\* proposal together, has its caller's authority and spares the owner.
LEMMA UpdateStep ==
    ASSUME IInv, TypeOK', NEW r \in Requests, req[r].phase = "loaded",
           NEW n \in Request, PendBumped(r, n),
           n.user = req[r].user, n.group = req[r].group, n.role = req[r].role,
           n.row = req[r].row, n.stmt = "update",
           Consistent(n.obj, n.group), Exists(n.obj), MovesTogether(n), OwnRows(n),
           Privileged(n) => n.role = "owner",
           Exists(groups[n.group]) => groups[n.group].owner \notin n.memDel
    PROVE  IInv'
<1> DEFINE a == [n EXCEPT !.phase = "ready"]
<1>1. /\ a.phase = "ready" /\ a.user = n.user /\ a.group = n.group /\ a.role = n.role
      /\ a.row = n.row /\ a.obj = n.obj /\ a.stmt = n.stmt /\ a.memIns = n.memIns
      /\ a.memDel = n.memDel /\ a.avIns = n.avIns /\ a.propIns = n.propIns
      /\ a.propDel = n.propDel /\ a.voteIns = n.voteIns /\ a.voteUpd = n.voteUpd
  BY DEF Request
<1>2. SessionOnRow(req[r]) /\ Consistent(req[r].row, req[r].group)
  BY LoadedFacts
<1> HIDE DEF a
<1>3. SessionOnRow(a)
  BY <1>1, <1>2 DEF SessionOnRow, MovesTogether, Privileged
<1>4. SessionInv(a)
  BY <1>1, <1>2, <1>3 DEF SessionInv, OwnRows
<1> QED
  BY <1>4, BumpedStep DEF a

\* create_group: the owner is the member that is inserted with the group.
LEMMA InvCreate ==
    ASSUME IInv, TypeOK', NEW r \in Requests, NEW u \in Users, NEW g \in Groups,
           CreateGroup(r, u, g)
    PROVE  IInv'
<1> PICK w \in Windows :
       Pend(r, [Idle EXCEPT !.user = u, !.group = g, !.stmt = "insert",
                  !.obj = [BlankRow EXCEPT !.owner = u, !.state = "open",
                             !.window = w, !.version = 1],
                  !.memIns = {u}])
  BY DEF CreateGroup
<1> DEFINE o == [BlankRow EXCEPT !.owner = u, !.state = "open", !.window = w, !.version = 1]
           q == [Idle EXCEPT !.user = u, !.group = g, !.stmt = "insert",
                  !.obj = o, !.memIns = {u}]
           a == [q EXCEPT !.phase = "ready"]
<1>0. BlankRow.pid = NoProposal /\ BlankRow.state = "absent"
  BY DEF BlankRow
<1>1. o.owner = u /\ o.state = "open" /\ o.pid = NoProposal
  BY DEF BlankRow
<1> HIDE DEF o
<1>2. /\ a.phase = "ready" /\ a.stmt = "insert" /\ a.obj = o /\ a.row = BlankRow
      /\ a.memIns = {u} /\ a.memDel = {} /\ a.propIns = {} /\ a.propDel = {}
      /\ a.avIns = {} /\ a.voteIns = {} /\ a.voteUpd = {}
  BY DEF Idle
<1> HIDE DEF a
<1>3. SessionInv(a)
  BY <1>0, <1>1, <1>2 DEF SessionInv, SessionOnNewRow, OwnRows, Consistent
<1> QED
  BY <1>3, DecisionStep DEF a, o

\* update_group: decided with role owner, state and confirmed proposal left alone.
LEMMA InvUpdateGroup ==
    ASSUME IInv, TypeOK', NEW r \in Requests, NEW w \in Windows,
           NEW b \in BOOLEAN, NEW i \in BOOLEAN,
           NEW m \in 0 .. MaxVersion, UpdateGroup(r, w, b, i, m)
    PROVE  IInv'
<1> DEFINE q == req[r]
           del == {<<a[1], a[2]>> : a \in {x \in avail[q.group] : b /\ x[2] \notin w}}
           invite == IF i THEN q.obj.invite + 1 ELSE q.obj.invite
           n == [q EXCEPT !.ifMatch = m, !.obj.window = w, !.obj.invite = invite,
                          !.avDel = del]
<1>1. q.phase = "loaded" /\ q.role = "owner" /\ PendBumped(r, n)
  BY DEF UpdateGroup, AsOwner, Caller
<1>2. /\ q \in Request /\ q.obj \in GroupRow /\ Untouched(q) /\ SessionOnRow(q)
      /\ Consistent(q.obj, q.group)
  BY <1>1, LoadedFacts DEF Untouched
<1>3. m \in Nat /\ invite \in Nat /\ del \in SUBSET (Users \X Slots)
  BY <1>2, SchedulingAssumption DEF IInv, TypeOK, AvailRow, Request, GroupRow
<1> HIDE DEF del, invite
<1>4. n \in Request
  BY <1>2, <1>3 DEF Request, GroupRow
<1>5. /\ n.user = q.user /\ n.group = q.group /\ n.role = q.role /\ n.row = q.row
      /\ n.stmt = q.stmt /\ n.memDel = q.memDel /\ n.avIns = q.avIns
      /\ n.propIns = q.propIns /\ n.propDel = q.propDel
      /\ n.voteIns = q.voteIns /\ n.voteUpd = q.voteUpd
      /\ n.obj.state = q.obj.state /\ n.obj.pid = q.obj.pid
  BY <1>2 DEF Request, GroupRow
<1>6. PendBumped(r, n)
  BY <1>1 DEF del, invite
<1> HIDE DEF n
<1> QED
  BY <1>1, <1>2, <1>4, <1>5, <1>6, UpdateStep DEF Untouched, SessionOnRow, Consistent,
     MovesTogether, OwnRows, Exists

\* delete_group: decided with role owner.
LEMMA InvDrop ==
    ASSUME IInv, TypeOK', NEW r \in Requests, DeleteGroup(r)
    PROVE  IInv'
<1> DEFINE q == req[r]
           a == [[q EXCEPT !.stmt = "delete"] EXCEPT !.phase = "ready"]
<1>1. q.phase = "loaded" /\ q.role = "owner"
  BY DEF DeleteGroup, AsOwner, Caller
<1>2. q \in Request /\ Untouched(q) /\ SessionOnRow(q) /\ Consistent(q.row, q.group)
  BY <1>1, LoadedFacts
<1>3. /\ a.phase = "ready" /\ a.stmt = "delete" /\ a.user = q.user /\ a.group = q.group
      /\ a.role = q.role /\ a.row = q.row /\ a.obj = q.obj /\ a.memDel = q.memDel
      /\ a.avIns = q.avIns /\ a.propIns = q.propIns /\ a.propDel = q.propDel
      /\ a.voteIns = q.voteIns /\ a.voteUpd = q.voteUpd
  BY <1>2 DEF Request
<1> HIDE DEF a
<1>4. SessionInv(a)
  BY <1>1, <1>2, <1>3 DEF SessionInv, SessionOnRow, Untouched, OwnRows, MovesTogether,
     Privileged
<1> QED
  BY <1>4, DecisionStep DEF DeleteGroup, a

\* join_group: inserts a row for the caller only.
LEMMA InvJoin ==
    ASSUME IInv, TypeOK', NEW r \in Requests, NEW t \in 0 .. MaxRotations, JoinGroup(r, t)
    PROVE  IInv'
<1> DEFINE q == req[r]
           n == [q EXCEPT !.token = t, !.memIns = {q.user}]
<1>1. q.phase = "loaded" /\ PendBumped(r, n)
  BY DEF JoinGroup, Caller
<1>2. /\ q \in Request /\ Untouched(q) /\ SessionOnRow(q) /\ Consistent(q.obj, q.group)
  BY <1>1, LoadedFacts DEF Untouched
<1>3. t \in Nat
  BY SchedulingAssumption
<1>4. n \in Request
  BY <1>2, <1>3 DEF Request
<1>5. /\ n.user = q.user /\ n.group = q.group /\ n.role = q.role /\ n.row = q.row
      /\ n.obj = q.obj /\ n.stmt = q.stmt /\ n.memDel = q.memDel /\ n.avIns = q.avIns
      /\ n.propIns = q.propIns /\ n.propDel = q.propDel
      /\ n.voteIns = q.voteIns /\ n.voteUpd = q.voteUpd
  BY <1>2 DEF Request
<1> HIDE DEF n
<1> QED
  BY <1>1, <1>2, <1>4, <1>5, UpdateStep DEF Untouched, SessionOnRow,
     MovesTogether, OwnRows, Privileged

\* remove_member: the owner is never the member removed.
LEMMA InvRemove ==
    ASSUME IInv, TypeOK', NEW r \in Requests, NEW u \in Users, RemoveMember(r, u)
    PROVE  IInv'
<1> DEFINE q == req[r]
           del == {<<a[1], a[2]>> : a \in {b \in avail[q.group] : b[1] = u}}
           vdel == {<<v[1], v[2]>> : v \in {w \in votes :
                       w[2] = u /\ ProposalGroup[w[1]] = q.group}}
           n == [q EXCEPT !.avDel = del, !.voteDel = vdel, !.memDel = {u}]
<1>1. q.phase = "loaded" /\ PendBumped(r, n) /\ roles[q.group][u] = "member"
  BY DEF RemoveMember, AsMember, Caller
<1>2. /\ q \in Request /\ Untouched(q) /\ SessionOnRow(q) /\ Consistent(q.obj, q.group)
  BY <1>1, LoadedFacts DEF Untouched
<1>3. Exists(groups[q.group]) => groups[q.group].owner # u
  BY <1>1, <1>2 DEF IInv, OneOwner, Request
<1>4. del \in SUBSET (Users \X Slots) /\ vdel \in SUBSET Key
  BY <1>2 DEF IInv, TypeOK, AvailRow, VoteRow, Key, Request
<1> HIDE DEF del, vdel
<1>5. n \in Request
  BY <1>2, <1>4 DEF Request
<1>6. /\ n.user = q.user /\ n.group = q.group /\ n.role = q.role /\ n.row = q.row
      /\ n.obj = q.obj /\ n.stmt = q.stmt /\ n.memDel = {u} /\ n.avIns = q.avIns
      /\ n.propIns = q.propIns /\ n.propDel = q.propDel
      /\ n.voteIns = q.voteIns /\ n.voteUpd = q.voteUpd
  BY <1>2 DEF Request
<1> HIDE DEF n
<1> QED
  BY <1>1, <1>2, <1>3, <1>5, <1>6, UpdateStep DEF Untouched, SessionOnRow,
     MovesTogether, OwnRows, Privileged

\* put_my_availability: writes rows of the caller only.
LEMMA InvAvailability ==
    ASSUME IInv, TypeOK', NEW r \in Requests, NEW sel \in Selections,
           PutMyAvailability(r, sel)
    PROVE  IInv'
<1> DEFINE q == req[r]
           del == {<<a[1], a[2]>> : a \in {b \in avail[q.group] : b[1] = q.user}}
           ins == Preferring(q.user, sel)
           n == [q EXCEPT !.avDel = del, !.avIns = ins, !.submit = {q.user}]
<1>1. q.phase = "loaded" /\ PendBumped(r, n)
  BY DEF PutMyAvailability, AsMember, Caller
<1>2. /\ q \in Request /\ Untouched(q) /\ SessionOnRow(q) /\ Consistent(q.obj, q.group)
      /\ q.user \in Users
  BY <1>1, LoadedFacts DEF Untouched, Request
<1>3. del \in SUBSET (Users \X Slots)
  BY <1>2 DEF IInv, TypeOK, AvailRow, Request
<1>4. ins \in SUBSET AvailRow /\ \A a \in ins : a[1] = q.user
  BY <1>2, SchedulingAssumption DEF Preferring, AvailRow, Marks
<1> HIDE DEF del, ins
<1>5. n \in Request
  BY <1>2, <1>3, <1>4 DEF Request
<1>6. /\ n.user = q.user /\ n.group = q.group /\ n.role = q.role /\ n.row = q.row
      /\ n.obj = q.obj /\ n.stmt = q.stmt /\ n.memDel = q.memDel /\ n.avIns = ins
      /\ n.propIns = q.propIns /\ n.propDel = q.propDel
      /\ n.voteIns = q.voteIns /\ n.voteUpd = q.voteUpd
  BY <1>2 DEF Request
<1> HIDE DEF n
<1>7. PendBumped(r, n)
  BY <1>1 DEF n, del, ins
<1> QED
  BY <1>1, <1>2, <1>4, <1>5, <1>6, <1>7, UpdateStep DEF Untouched, SessionOnRow,
     MovesTogether, OwnRows, Privileged

\* create_proposal: decided with role owner, state and confirmed proposal left alone.
LEMMA InvPropose ==
    ASSUME IInv, TypeOK', NEW r \in Requests, NEW p \in Proposals, CreateProposal(r, p)
    PROVE  IInv'
<1> DEFINE q == req[r]
           n == [q EXCEPT !.propIns = {p}]
<1>1. q.phase = "loaded" /\ PendBumped(r, n) /\ q.role = "owner" /\ ProposalGroup[p] = q.group
  BY DEF CreateProposal, AsOwner, Caller
<1>2. /\ q \in Request /\ Untouched(q) /\ SessionOnRow(q) /\ Consistent(q.obj, q.group)
      /\ q.user \in Users
  BY <1>1, LoadedFacts DEF Untouched, Request
<1>3. n \in Request
  BY <1>2 DEF Request
<1>4. /\ n.user = q.user /\ n.group = q.group /\ n.role = q.role /\ n.row = q.row
      /\ n.obj = q.obj /\ n.stmt = q.stmt /\ n.memDel = q.memDel /\ n.avIns = q.avIns
      /\ n.propIns = {p} /\ n.propDel = q.propDel
      /\ n.voteIns = q.voteIns /\ n.voteUpd = q.voteUpd
  BY <1>2 DEF Request
<1> HIDE DEF n
<1> QED
  BY <1>1, <1>2, <1>3, <1>4, UpdateStep DEF Untouched, SessionOnRow,
     MovesTogether, OwnRows, Privileged

\* delete_proposal: decided with role owner, state and confirmed proposal left alone.
LEMMA InvWithdraw ==
    ASSUME IInv, TypeOK', NEW r \in Requests, NEW p \in Proposals, DeleteProposal(r, p)
    PROVE  IInv'
<1> DEFINE q == req[r]
           n == [q EXCEPT !.propDel = {p}]
<1>1. q.phase = "loaded" /\ PendBumped(r, n) /\ q.role = "owner" /\ ProposalGroup[p] = q.group
  BY DEF DeleteProposal, AsOwner, Caller, LiveProposals
<1>2. /\ q \in Request /\ Untouched(q) /\ SessionOnRow(q) /\ Consistent(q.obj, q.group)
      /\ q.user \in Users
  BY <1>1, LoadedFacts DEF Untouched, Request
<1>3. n \in Request
  BY <1>2 DEF Request
<1>4. /\ n.user = q.user /\ n.group = q.group /\ n.role = q.role /\ n.row = q.row
      /\ n.obj = q.obj /\ n.stmt = q.stmt /\ n.memDel = q.memDel /\ n.avIns = q.avIns
      /\ n.propIns = q.propIns /\ n.propDel = {p}
      /\ n.voteIns = q.voteIns /\ n.voteUpd = q.voteUpd
  BY <1>2 DEF Request
<1> HIDE DEF n
<1> QED
  BY <1>1, <1>2, <1>3, <1>4, UpdateStep DEF Untouched, SessionOnRow,
     MovesTogether, OwnRows, Privileged

\* delete_vote: takes back the caller's own vote only.
LEMMA InvDeleteVote ==
    ASSUME IInv, TypeOK', NEW r \in Requests, NEW p \in Proposals, DeleteVote(r, p)
    PROVE  IInv'
<1> DEFINE q == req[r]
           n == [q EXCEPT !.voteDel = {<<p, q.user>>}]
<1>1. q.phase = "loaded" /\ PendBumped(r, n)
  BY DEF DeleteVote, AsMember, Caller
<1>2. /\ q \in Request /\ Untouched(q) /\ SessionOnRow(q) /\ Consistent(q.obj, q.group)
      /\ q.user \in Users
  BY <1>1, LoadedFacts DEF Untouched, Request
<1>3. n \in Request
  BY <1>2 DEF Request, Key
<1>4. /\ n.user = q.user /\ n.group = q.group /\ n.role = q.role /\ n.row = q.row
      /\ n.obj = q.obj /\ n.stmt = q.stmt /\ n.memDel = q.memDel /\ n.avIns = q.avIns
      /\ n.propIns = q.propIns /\ n.propDel = q.propDel
      /\ n.voteIns = q.voteIns /\ n.voteUpd = q.voteUpd
  BY <1>2 DEF Request
<1> HIDE DEF n
<1> QED
  BY <1>1, <1>2, <1>3, <1>4, UpdateStep DEF Untouched, SessionOnRow,
     MovesTogether, OwnRows, Privileged

\* put_vote: writes the caller's own vote only.
LEMMA InvPutVote ==
    ASSUME IInv, TypeOK', NEW r \in Requests, NEW p \in Proposals,
           NEW v \in VoteValues, PutVote(r, p, v)
    PROVE  IInv'
<1> DEFINE q == req[r]
           mine == {w \in votes : w[1] = p /\ w[2] = q.user}
           ins == IF mine = {} THEN {<<p, q.user, v>>} ELSE {}
           upd == IF mine = {} THEN {} ELSE {<<p, q.user, v>>} \ mine
           n == [q EXCEPT !.voteIns = ins, !.voteUpd = upd]
<1>1. q.phase = "loaded" /\ PendBumped(r, n)
  BY DEF PutVote, AsMember, Caller
<1>2. /\ q \in Request /\ Untouched(q) /\ SessionOnRow(q) /\ Consistent(q.obj, q.group)
      /\ q.user \in Users
  BY <1>1, LoadedFacts DEF Untouched, Request
<1>3. /\ ins \in SUBSET VoteRow /\ upd \in SUBSET VoteRow
      /\ \A x \in ins \cup upd : x[2] = q.user
  BY <1>2 DEF VoteRow
<1> HIDE DEF ins, upd
<1>4. n \in Request
  BY <1>2, <1>3 DEF Request
<1>5. /\ n.user = q.user /\ n.group = q.group /\ n.role = q.role /\ n.row = q.row
      /\ n.obj = q.obj /\ n.stmt = q.stmt /\ n.memDel = q.memDel /\ n.avIns = q.avIns
      /\ n.propIns = q.propIns /\ n.propDel = q.propDel
      /\ n.voteIns = ins /\ n.voteUpd = upd
  BY <1>2 DEF Request
<1>6. PendBumped(r, n)
  BY <1>1 DEF ins, upd
<1> HIDE DEF n
<1> QED
  BY <1>1, <1>2, <1>3, <1>4, <1>5, <1>6, UpdateStep DEF Untouched, SessionOnRow,
     MovesTogether, OwnRows, Privileged

\* confirm_group: state and confirmed proposal are set together.
LEMMA InvConfirm ==
    ASSUME IInv, TypeOK', NEW r \in Requests, NEW p \in Proposals,
           NEW b \in BOOLEAN, ConfirmGroup(r, p, b)
    PROVE  IInv'
<1> DEFINE q == req[r]
           jobs == IF b /\ RunAfter(p) > now
                   THEN {p} \X (Members(q.group) \cap Notified) ELSE {}
           n == [q EXCEPT !.obj.state = "confirmed", !.obj.pid = p, !.jobIns = jobs]
<1>1. /\ q.phase = "loaded" /\ q.role = "owner" /\ q.row.state # "confirmed"
      /\ ProposalGroup[p] = q.group /\ PendBumped(r, n)
  BY DEF ConfirmGroup, AsOwner, Caller, LiveProposals
<1>2. /\ q \in Request /\ q.obj \in GroupRow /\ Untouched(q) /\ SessionOnRow(q)
      /\ Consistent(q.row, q.group)
  BY <1>1, LoadedFacts DEF Untouched
<1>3. jobs \in SUBSET Key
  BY DEF Members, Key
<1> HIDE DEF jobs
<1>4. n \in Request
  BY <1>2, <1>3 DEF Request, GroupRow, States
<1>5. /\ n.user = q.user /\ n.group = q.group /\ n.role = q.role /\ n.row = q.row
      /\ n.stmt = q.stmt /\ n.memDel = q.memDel /\ n.avIns = q.avIns
      /\ n.propIns = q.propIns /\ n.propDel = q.propDel
      /\ n.voteIns = q.voteIns /\ n.voteUpd = q.voteUpd
      /\ n.obj.state = "confirmed" /\ n.obj.pid = p
  BY <1>2 DEF Request, GroupRow
<1>6. PendBumped(r, n)
  BY <1>1 DEF jobs
<1> HIDE DEF n
<1>7. q.row.pid = NoProposal /\ p # NoProposal
  BY <1>1, <1>2, SchedulingAssumption DEF Consistent
<1>8. Consistent(n.obj, n.group) /\ Exists(n.obj) /\ MovesTogether(n)
  BY <1>1, <1>5, <1>7 DEF Consistent, Exists, MovesTogether
<1> QED
  BY <1>1, <1>2, <1>4, <1>5, <1>6, <1>8, UpdateStep DEF Untouched, SessionOnRow, OwnRows

\* unconfirm_group: state and confirmed proposal are cleared together.
LEMMA InvUnconfirm ==
    ASSUME IInv, TypeOK', NEW r \in Requests, UnconfirmGroup(r)
    PROVE  IInv'
<1> DEFINE q == req[r]
           del == {k \in Key : k[1] = q.row.pid /\ reminders[k] \in {"waiting", "locked"}}
           n == [q EXCEPT !.obj.state = "open", !.obj.pid = NoProposal, !.jobDel = del]
<1>1. /\ q.phase = "loaded" /\ q.role = "owner" /\ q.row.state = "confirmed"
      /\ q.row.pid # NoProposal /\ PendBumped(r, n)
  BY DEF UnconfirmGroup, AsOwner, Caller
<1>2. /\ q \in Request /\ q.obj \in GroupRow /\ Untouched(q) /\ SessionOnRow(q)
  BY <1>1, LoadedFacts DEF Untouched
<1>3. del \in SUBSET Key
  OBVIOUS
<1> HIDE DEF del
<1>4. n \in Request
  BY <1>2, <1>3 DEF Request, GroupRow, States
<1>5. /\ n.user = q.user /\ n.group = q.group /\ n.role = q.role /\ n.row = q.row
      /\ n.stmt = q.stmt /\ n.memDel = q.memDel /\ n.avIns = q.avIns
      /\ n.propIns = q.propIns /\ n.propDel = q.propDel
      /\ n.voteIns = q.voteIns /\ n.voteUpd = q.voteUpd
      /\ n.obj.state = "open" /\ n.obj.pid = NoProposal
  BY <1>2 DEF Request, GroupRow
<1>6. PendBumped(r, n)
  BY <1>1 DEF del
<1> HIDE DEF n
<1>7. Consistent(n.obj, n.group) /\ Exists(n.obj) /\ MovesTogether(n)
  BY <1>1, <1>5 DEF Consistent, Exists, MovesTogether
<1> QED
  BY <1>1, <1>2, <1>4, <1>5, <1>6, <1>7, UpdateStep DEF Untouched, SessionOnRow, OwnRows

\* A session before its first statement knows nothing that could be stale.
LEMMA IdleInv == SessionInv(Idle)
BY DEF SessionInv, Idle, BlankRow, Consistent, OwnRows

\* A session that has just loaded its row knows what the tables say of it.
LEMMA InvLoad ==
    ASSUME IInv, TypeOK', NEW r \in Requests, NEW u \in Users, NEW g \in Groups,
           Load(r, u, g)
    PROVE  IInv'
<1> DEFINE n == [Idle EXCEPT !.phase = "loaded", !.user = u, !.group = g,
                   !.role = roles[g][u], !.row = groups[g], !.obj = groups[g]]
<1>1. /\ n.phase = "loaded" /\ n.user = u /\ n.group = g /\ n.role = roles[g][u]
      /\ n.row = groups[g] /\ n.obj = groups[g] /\ n.stmt = "update"
      /\ n.memIns = {} /\ n.memDel = {} /\ n.avIns = {} /\ n.propIns = {}
      /\ n.propDel = {} /\ n.voteIns = {} /\ n.voteUpd = {}
  BY DEF Idle
<1>2. UNCHANGED tables /\ req' = [req EXCEPT ![r] = n] /\ Exists(groups[g])
  BY DEF Load
<1>3. Consistent(groups[g], g)
  BY DEF IInv, ConfirmedIffProposal, Consistent
<1>4. roles[g][u] = "owner" => u = groups[g].owner
  BY <1>2 DEF IInv, OneOwner
<1> HIDE DEF n
<1>5. Untouched(n) /\ OwnRows(n)
  BY <1>1 DEF Untouched, OwnRows
<1>6. SessionOnRow(n)
  BY <1>1, <1>2, <1>4 DEF SessionOnRow, MovesTogether, Privileged, Exists
<1>7. SessionInv(n)
  BY <1>1, <1>3, <1>5, <1>6 DEF SessionInv
<1> QED
  BY <1>2, <1>7, SessionStep

\* What a commit does to the row of its group.
LEMMA CommitRow ==
    ASSUME IInv, NEW r \in Requests, Commit(r)
    PROVE  LET q == req[r]
               g == q.group
           IN /\ g \in Groups /\ q \in Request
              /\ \A h \in Groups \ {g} : groups'[h] = groups[h] /\ roles'[h] = roles[h]
              /\ groups'[g].state # "absent"
              /\ Consistent(groups'[g], g)
              /\ q.stmt = "insert" \/ groups[g].state # "absent"
              /\ Exists(groups'[g]) /\ q.stmt # "insert" =>
                    /\ q.stmt = "update" /\ Exists(groups[g])
                    /\ groups'[g].owner = groups[g].owner
              /\ q.stmt = "insert" =>
                    groups[g].state = "absent" /\ groups'[g].owner = q.obj.owner
<1> DEFINE q == req[r]
           g == q.group
           dead == [BlankRow EXCEPT !.state = "deleted"]
           new == Flushed(groups[g], q.row, q.obj)
<1>1. /\ q \in Request /\ g \in Groups /\ q.phase = "ready" /\ Flushable(q)
      /\ q.stmt \in {"insert", "update", "delete"}
      /\ Consistent(q.obj, g) /\ Consistent(groups[g], g)
      /\ q.stmt = "insert" => SessionOnNewRow(q)
      /\ q.stmt # "insert" => SessionOnRow(q)
  BY DEF Commit, IInv, TypeOK, Request, SessionInv, ConfirmedIffProposal, Consistent
<1>2. /\ groups'[g] = IF q.stmt = "delete" THEN dead
                      ELSE IF q.stmt = "insert" THEN q.obj ELSE new
      /\ \A h \in Groups \ {g} : groups'[h] = groups[h] /\ roles'[h] = roles[h]
  BY <1>1 DEF Commit, IInv, TypeOK
<1>3. dead.state = "deleted" /\ dead.pid = NoProposal
  BY DEF BlankRow
<1>4. /\ new.owner = groups[g].owner
      /\ new.state = IF q.obj.state # q.row.state THEN q.obj.state ELSE groups[g].state
      /\ new.pid = IF q.obj.pid # q.row.pid THEN q.obj.pid ELSE groups[g].pid
  BY DEF Flushed
<1> HIDE DEF dead, new
<1>5. CASE q.stmt = "delete"
  BY <1>1, <1>2, <1>3, <1>5 DEF Consistent, SessionOnRow, Exists
<1>6. CASE q.stmt = "insert"
  BY <1>1, <1>2, <1>6 DEF SessionOnNewRow, Flushable
<1>7. CASE q.stmt = "update"
  <2>1. Exists(groups[g]) /\ Exists(q.obj) /\ MovesTogether(q)
    BY <1>1, <1>7 DEF Flushable, SessionOnRow
  <2>2. groups'[g] = new
    BY <1>2, <1>7
  <2>3. Consistent(new, g)
    BY <1>1, <1>4, <2>1 DEF Consistent, MovesTogether
  <2>4. new.state # "absent"
    BY <1>4, <2>1 DEF Exists
  <2> QED
    BY <1>1, <1>2, <1>4, <1>7, <2>1, <2>2, <2>3, <2>4 DEF Exists
<1> QED
  BY <1>1, <1>5, <1>6, <1>7

\* The owner keeps the owner membership, and nobody else gets one.
LEMMA CommitOwner ==
    ASSUME IInv, NEW r \in Requests, Commit(r)
    PROVE  OneOwner'
<1> DEFINE q == req[r]
           g == q.group
<1>1. /\ g \in Groups /\ q \in Request
      /\ \A h \in Groups \ {g} : groups'[h] = groups[h] /\ roles'[h] = roles[h]
      /\ Exists(groups'[g]) /\ q.stmt # "insert" =>
            /\ q.stmt = "update" /\ Exists(groups[g])
            /\ groups'[g].owner = groups[g].owner
      /\ q.stmt = "insert" =>
            groups[g].state = "absent" /\ groups'[g].owner = q.obj.owner
  BY CommitRow
<1>2. q.phase = "ready" /\ \A u \in q.memIns : roles[g][u] = "none"
  BY DEF Commit, Flushable
<1>3. roles'[g] = NewRoles(q)
  BY <1>1 DEF Commit, IInv, TypeOK
<1>4. /\ q.stmt = "insert" => SessionOnNewRow(q)
      /\ q.stmt # "insert" => SessionOnRow(q)
  BY <1>2 DEF IInv, SessionInv
<1>5. ASSUME NEW u \in Users, Exists(groups'[g])
      PROVE  roles'[g][u] = "owner" <=> u = groups'[g].owner
  <2>1. roles'[g][u] = IF q.stmt = "delete" \/ u \in q.memDel THEN "none"
                       ELSE IF u \in q.memIns
                            THEN IF q.stmt = "insert" THEN "owner" ELSE "member"
                       ELSE roles[g][u]
    BY <1>3 DEF NewRoles
  <2>2. CASE q.stmt = "insert"
    <3>1. roles[g][u] = "none"
      BY <1>1, <2>2 DEF IInv, NoRolesBefore
    <3> QED
      BY <1>1, <1>4, <2>1, <2>2, <3>1 DEF SessionOnNewRow
  <2>3. CASE q.stmt # "insert"
    <3>1. /\ q.stmt = "update" /\ Exists(groups[g])
          /\ groups'[g].owner = groups[g].owner
      BY <1>1, <1>5, <2>3
    <3>2. roles[g][u] = "owner" <=> u = groups[g].owner
      BY <1>1, <3>1 DEF IInv, OneOwner
    <3>3. groups[g].owner \notin q.memDel
      BY <1>4, <2>3, <3>1 DEF SessionOnRow
    <3> QED
      BY <1>2, <2>1, <3>1, <3>2, <3>3
  <2> QED
    BY <2>2, <2>3
<1>6. ASSUME NEW h \in Groups, Exists(groups'[h])
      PROVE  \A u \in Users : roles'[h][u] = "owner" <=> u = groups'[h].owner
  <2>1. CASE h = g
    BY <1>5, <1>6, <2>1
  <2>2. CASE h # g
    BY <1>1, <1>6, <2>2 DEF IInv, OneOwner
  <2> QED
    BY <2>1, <2>2
<1>7. \A h \in Groups : Exists(groups'[h]) =>
        \A u \in Users : roles'[h][u] = "owner" <=> u = groups'[h].owner
  BY <1>6
<1> QED
  BY <1>7 DEF OneOwner, Exists

\* Changed columns over any consistent row are again a consistent row.
LEMMA InvCommit ==
    ASSUME IInv, TypeOK', NEW r \in Requests, Commit(r)
    PROVE  IInv'
<1> DEFINE q == req[r]
           g == q.group
<1>1. /\ g \in Groups
      /\ \A h \in Groups \ {g} : groups'[h] = groups[h] /\ roles'[h] = roles[h]
      /\ groups'[g].state # "absent" /\ Consistent(groups'[g], g)
      /\ q.stmt = "insert" \/ groups[g].state # "absent"
      /\ Exists(groups'[g]) /\ q.stmt # "insert" =>
            /\ Exists(groups[g]) /\ groups'[g].owner = groups[g].owner
      /\ q.stmt = "insert" => groups[g].state = "absent"
  BY CommitRow
<1> HIDE DEF g
<1>2. ConfirmedIffProposal' /\ NoRolesBefore'
  <2>1. \A h \in Groups : Consistent(groups'[h], h)
    BY <1>1 DEF IInv, ConfirmedIffProposal, Consistent
  <2>2. \A h \in Groups : groups'[h].state = "absent" =>
          \A u \in Users : roles'[h][u] = "none"
    BY <1>1 DEF IInv, NoRolesBefore
  <2> QED
    BY <2>1, <2>2 DEF ConfirmedIffProposal, Consistent, NoRolesBefore
<1>3. OneOwner'
  BY CommitOwner
<1>4. ASSUME NEW s \in Requests PROVE SessionInv(req[s])'
  <2>1. req'[s] = IF s = r THEN Idle ELSE req[s]
    BY DEF Commit, Close, IInv, TypeOK
  <2>2. CASE s = r
    <3>1. Idle.phase = "idle" /\ SessionInv(Idle)
      BY IdleInv DEF Idle
    <3> QED
      BY <2>1, <2>2, <3>1 DEF SessionInv
  <2>3. CASE s # r
    <3> DEFINE x == req[s]
    <3>1. x.group \in Groups /\ SessionInv(x)
      BY DEF IInv, TypeOK, Request
    <3>2. ASSUME SessionOnRow(x)
          PROVE  /\ groups'[x.group].state # "absent"
                 /\ Exists(groups'[x.group]) =>
                      Exists(groups[x.group]) /\ groups'[x.group].owner = groups[x.group].owner
      <4>1. CASE x.group = g
        BY <1>1, <3>2, <4>1 DEF SessionOnRow
      <4>2. CASE x.group # g
        BY <1>1, <3>1, <3>2, <4>2 DEF SessionOnRow
      <4> QED
        BY <4>1, <4>2
    <3>3. SessionOnRow(x) => SessionOnRow(req[s])'
      BY <2>1, <2>3, <3>2 DEF SessionOnRow, Exists
    <3> QED
      BY <2>1, <2>3, <3>1, <3>3 DEF SessionInv
  <2> QED
    BY <2>2, <2>3
<1> QED
  BY <1>2, <1>3, <1>4 DEF IInv

\* One case per action.
LEMMA InvStep == IInv /\ [Next]_vars => IInv'
<1> SUFFICES ASSUME IInv, [Next]_vars PROVE IInv'
  OBVIOUS
<1>0. TypeOK'
  BY TypeStep DEF IInv
<1>1. CASE UNCHANGED <<tables, req>>
  <2>1. ConfirmedIffProposal' /\ OneOwner' /\ NoRolesBefore'
    BY <1>1 DEF IInv, tables, ConfirmedIffProposal, OneOwner, NoRolesBefore
  <2>2. \A r \in Requests : SessionInv(req[r])'
    BY <1>1 DEF IInv, tables, SessionInv, SessionOnRow
  <2> QED
    BY <1>0, <2>1, <2>2 DEF IInv
<1>2. ASSUME NEW r \in Requests, Step(r) PROVE IInv'
  <2>1. CASE \E u \in Users, g \in Groups : Load(r, u, g) \/ CreateGroup(r, u, g)
    BY <1>0, <2>1, InvLoad, InvCreate
  <2>2. CASE Finish(r) \/ Abort(r)
    BY <1>0, <2>2, IdleInv, SessionStep DEF Finish, Abort, Close
  <2>3. CASE Commit(r)
    BY <1>0, <2>3, InvCommit
  <2>4. CASE \E w \in Windows, b, i \in BOOLEAN, m \in 0 .. MaxVersion :
                UpdateGroup(r, w, b, i, m)
    BY <1>0, <2>4, InvUpdateGroup
  <2>6. CASE DeleteGroup(r) \/ UnconfirmGroup(r)
    BY <1>0, <2>6, InvDrop, InvUnconfirm
  <2>7. CASE \E t \in 0 .. MaxRotations : JoinGroup(r, t)
    BY <1>0, <2>7, InvJoin
  <2>8. CASE \E u \in Users : RemoveMember(r, u)
    BY <1>0, <2>8, InvRemove
  <2>9. CASE \E sel \in Selections : PutMyAvailability(r, sel)
    BY <1>0, <2>9, InvAvailability
  <2>10. CASE \E p \in Proposals :
                \/ CreateProposal(r, p) \/ DeleteProposal(r, p) \/ DeleteVote(r, p)
                \/ \E v \in VoteValues : PutVote(r, p, v)
                \/ \E b \in BOOLEAN : ConfirmGroup(r, p, b)
    BY <1>0, <2>10, InvPropose, InvWithdraw, InvDeleteVote, InvPutVote, InvConfirm
  <2> QED
    BY <1>2, <2>1, <2>2, <2>3, <2>4, <2>6, <2>7, <2>8, <2>9, <2>10 DEF Step
<1> QED
  BY <1>1, <1>2 DEF Next, Tick, vars, tables

\* The inductive invariant holds in every reachable state.
THEOREM Invariant == Spec => []IInv
BY InvInit, InvStep, PTL DEF Spec

\* A group has a confirmed proposal, one of its own, exactly when it is
\* confirmed, whatever confirmations and unconfirmations race on stale rows.
THEOREM ConfirmedIffProposalHolds == Spec => []ConfirmedIffProposal
<1>1. IInv => ConfirmedIffProposal
  BY DEF IInv
<1> QED
  BY <1>1, Invariant, PTL

\* An existing group has exactly one owner, the user its row names, whatever
\* joins and removals race.
THEOREM OneOwnerHolds == Spec => []OneOwner
<1>1. IInv => OneOwner
  BY DEF IInv
<1> QED
  BY <1>1, Invariant, PTL

-----------------------------------------------------------------------------
(* Authority.                                                              *)

\* A commit changes the proposals of its own group only.
LEMMA CommitProposals ==
    ASSUME IInv, NEW r \in Requests, Commit(r), NEW g \in Groups,
           LiveProposals(g) # LiveProposals(g)'
    PROVE  /\ g = req[r].group
           /\ \/ req[r].stmt = "delete" \/ req[r].propIns # {} \/ req[r].propDel # {}
<1> DEFINE q == req[r]
<1>1. PICK p \in Proposals : ProposalGroup[p] = g /\ ~(proposals[p] = "live" <=> proposals'[p] = "live")
  BY DEF LiveProposals
<1>2. proposals'[p] = IF p \in Gone(q) THEN "deleted"
                      ELSE IF p \in q.propIns THEN "live" ELSE proposals[p]
  BY DEF Commit
<1>3. p \in Gone(q) \/ p \in q.propIns
  BY <1>1, <1>2
<1>4. \A x \in q.propIns \cup q.propDel : ProposalGroup[x] = q.group
  BY DEF IInv, SessionInv, OwnRows
<1> QED
  BY <1>1, <1>3, <1>4 DEF Gone, LiveProposals

\* What a commit changes, its session was entitled to change.
LEMMA CommitAuthorised ==
    ASSUME IInv, NEW r \in Requests, Commit(r)
    PROVE  AuthorisedStep
<1> DEFINE q == req[r]
           new == Flushed(groups[q.group], q.row, q.obj)
<1>1. /\ q \in Request /\ q.group \in Groups /\ q.phase = "ready"
      /\ q.stmt \in {"insert", "update", "delete"} /\ OwnRows(q)
      /\ q.stmt = "insert" => groups[q.group].state = "absent"
      /\ q.stmt # "insert" => SessionOnRow(q)
  BY DEF Commit, Flushable, IInv, TypeOK, Request, SessionInv
<1>2. Commits(r)
  BY <1>1 DEF Commits, Commit, Close, Idle, IInv, TypeOK
<1>3. ASSUME NEW g \in Groups, Exists(groups[g]),
             \/ groups[g].state # groups'[g].state \/ groups[g].pid # groups'[g].pid
             \/ groups[g].window # groups'[g].window
             \/ LiveProposals(g) # LiveProposals(g)'
      PROVE  \E s \in Requests : Commits(s) /\ req[s].user = groups[g].owner
  <2>1. g = q.group
    <3>1. CASE LiveProposals(g) # LiveProposals(g)'
      BY <3>1, CommitProposals
    <3>2. CASE groups[g] # groups'[g]
      BY <1>1, <3>2 DEF Commit, IInv, TypeOK
    <3> QED
      BY <1>3, <3>1, <3>2
  <2>2. q.stmt # "insert" /\ SessionOnRow(q)
    BY <1>1, <1>3, <2>1 DEF Exists
  <2>3. Privileged(q)
    <3>1. CASE q.stmt = "delete"
      BY <3>1 DEF Privileged
    <3>2. CASE LiveProposals(g) # LiveProposals(g)'
      BY <3>2, CommitProposals DEF Privileged
    <3>3. CASE q.stmt = "update" /\ LiveProposals(g) = LiveProposals(g)'
      <4>1. groups'[g] = new
        BY <1>1, <2>1, <3>3 DEF Commit, IInv, TypeOK
      <4>2. \/ q.obj.state # q.row.state \/ q.obj.pid # q.row.pid
            \/ q.obj.window # q.row.window
        BY <1>3, <2>1, <3>3, <4>1 DEF Flushed
      <4> QED
        BY <2>2, <4>2 DEF SessionOnRow, MovesTogether, Privileged
    <3> QED
      BY <1>1, <2>2, <3>1, <3>2, <3>3
  <2>4. q.user = groups[g].owner
    BY <1>3, <2>1, <2>2, <2>3 DEF SessionOnRow
  <2> QED
    BY <1>2, <2>4
<1>4. ASSUME NEW g \in Groups, NEW a \in avail'[g] \ avail[g]
      PROVE  \E s \in Requests : Commits(s) /\ req[s].user = a[1]
  <2>1. a \in q.avIns
    BY <1>1 DEF Commit, IInv, TypeOK
  <2> QED
    BY <1>1, <1>2, <2>1 DEF OwnRows
<1>5. ASSUME NEW v \in votes' \ votes
      PROVE  \E s \in Requests : Commits(s) /\ req[s].user = v[2]
  <2>1. v \in q.voteIns \cup q.voteUpd
    BY DEF Commit
  <2> QED
    BY <1>1, <1>2, <2>1 DEF OwnRows
<1> QED
  BY <1>3, <1>4, <1>5 DEF AuthorisedStep

\* No step changes what its request is not entitled to change.
LEMMA StepAuthorised == IInv /\ [Next]_vars => [AuthorisedStep]_vars
<1> SUFFICES ASSUME IInv, [Next]_vars PROVE [AuthorisedStep]_vars
  OBVIOUS
<1>1. CASE UNCHANGED tables
  BY <1>1 DEF tables, AuthorisedStep, LiveProposals
<1>2. ASSUME NEW r \in Requests, Step(r), ~ UNCHANGED tables PROVE Commit(r)
  BY <1>2 DEF Step, Load, CreateGroup, Finish, Abort, UpdateGroup,
     DeleteGroup, UnconfirmGroup, JoinGroup, RemoveMember, PutMyAvailability, CreateProposal, DeleteProposal,
     DeleteVote, PutVote, ConfirmGroup, PendBumped, Pend
<1>3. ASSUME NEW r \in Requests, Commit(r) PROVE AuthorisedStep
  BY <1>3, CommitAuthorised
<1> QED
  BY <1>1, <1>2, <1>3 DEF Next, Tick, vars, tables

\* State, bounds and proposals of an existing group change only through a
\* request of its owner, and rows of availability and votes appear only through
\* their own user, however stale the role each request has read.
THEOREM ChangesAreAuthorisedHolds == Spec => ChangesAreAuthorised
BY Invariant, StepAuthorised, PTL DEF Spec, ChangesAreAuthorised

-----------------------------------------------------------------------------
(* Requests that overlap, and the commits among them that are not late.    *)

Pendings == {"memIns", "memDel", "submit", "avIns", "avDel",
             "propIns", "propDel", "voteIns", "voteUpd", "voteDel"}

\* Of the pending changes of q, only those named in S can be there.
Only(q, S) == \A f \in Pendings \ S : q[f] = {}

Groupships(u) == {g \in Groups : roles[g][u] # "none"}
GroupVotes(g) == {v \in votes : ProposalGroup[v[1]] = g}
Renewed(row) == [row EXCEPT !.version = row.version + 1]

(***************************************************************************)
(* What a session that has decided is about to write, and what the tables  *)
(* say about it: one case per operation of the contract.  Each speaks of   *)
(* the rows of the session's own group only.                               *)
(***************************************************************************)
WillFound(q) ==
    /\ q.stmt = "insert" /\ groups[q.group].state = "absent"
    /\ \E w \in Windows :
         q.obj = [owner |-> q.user, state |-> "open", pid |-> NoProposal,
                  window |-> w, invite |-> 0, version |-> 1]
    /\ q.memIns = {q.user} /\ Only(q, {"memIns"})

WillDisband(q) == q.stmt = "delete" /\ Only(q, {})

WillAmend(q) ==
    \E w \in Windows, i \in {q.row.invite, q.row.invite + 1} :
        /\ q.obj = [Renewed(q.row) EXCEPT !.window = w, !.invite = i]
        /\ \/ q.avDel = Keys({a \in avail[q.group] : a[2] \notin w})
           \/ w = q.row.window /\ q.avDel = {}
        /\ Only(q, {"avDel"})

WillEnrol(q) ==
    /\ q.obj = Renewed(q.row)
    /\ roles[q.group][q.user] = "none"
    /\ Cardinality(Members(q.group)) < MaxMembers
    /\ q.memIns = {q.user} /\ Only(q, {"memIns"})

WillExpel(q) ==
    \E u \in Users :
        /\ q.obj = Renewed(q.row)
        /\ roles[q.group][u] = "member"
        /\ q.memDel = {u}
        /\ q.avDel = Keys({a \in avail[q.group] : a[1] = u})
        /\ q.voteDel = Keys({v \in GroupVotes(q.group) : v[2] = u})
        /\ Only(q, {"memDel", "avDel", "voteDel"})

WillAnswer(q) ==
    /\ q.row.state = "open" /\ q.obj = Renewed(q.row)
    /\ q.role # "none"
    /\ q.submit = {q.user}
    /\ q.avDel = Keys({a \in avail[q.group] : a[1] = q.user})
    /\ \A a \in q.avIns :
         /\ a[1] = q.user /\ a[2] \in q.row.window
         /\ \A b \in q.avIns : b[2] = a[2] => b = a
    /\ Only(q, {"submit", "avDel", "avIns"})

WillOffer(q) ==
    \E p \in Proposals :
        /\ q.row.state = "open" /\ q.obj = Renewed(q.row)
        /\ ProposalGroup[p] = q.group /\ proposals[p] = "unused"
        /\ Span[p] \subseteq q.row.window
        /\ Cardinality(LiveProposals(q.group)) < MaxProposals
        /\ q.propIns = {p} /\ Only(q, {"propIns"})

WillRetract(q) ==
    \E p \in LiveProposals(q.group) :
        /\ q.row.state = "open" /\ q.obj = Renewed(q.row)
        /\ q.propDel = {p} /\ Only(q, {"propDel"})

\* What a commit of q leaves of the votes S, when it deletes no proposal.
VotesLeft(q, S) ==
    {v \in S : <<v[1], v[2]>> \notin q.voteDel \cup Keys(q.voteUpd)}
        \cup q.voteIns \cup q.voteUpd

\* The votes S but the one of u on p.
OtherVotes(S, p, u) == {v \in S : ~(v[1] = p /\ v[2] = u)}

WillCast(q) ==
    \E p \in LiveProposals(q.group) :
        LET S == GroupVotes(q.group) IN
        /\ q.row.state = "open" /\ q.obj = Renewed(q.row)
        /\ q.role # "none"
        /\ \/ VotesLeft(q, S) = OtherVotes(S, p, q.user)
           \/ \E x \in VoteValues :
                VotesLeft(q, S) = OtherVotes(S, p, q.user) \cup {<<p, q.user, x>>}
        /\ Only(q, {"voteIns", "voteUpd", "voteDel"})

WillSettle(q) ==
    \E p \in LiveProposals(q.group) :
        /\ q.row.state = "open"
        /\ q.obj = [Renewed(q.row) EXCEPT !.state = "confirmed", !.pid = p]
        /\ Only(q, {})

WillReopen(q) ==
    /\ q.row.state = "confirmed"
    /\ q.obj = [Renewed(q.row) EXCEPT !.state = "open", !.pid = NoProposal]
    /\ Only(q, {})

Decided(q) ==
    \/ WillFound(q) \/ WillDisband(q)
    \/ /\ q.stmt = "update"
       /\ \/ WillAmend(q) \/ WillEnrol(q) \/ WillExpel(q)
          \/ WillAnswer(q) \/ WillOffer(q) \/ WillRetract(q)
          \/ WillCast(q) \/ WillSettle(q) \/ WillReopen(q)

\* What the session read is still what the tables hold.
Fresh(q) ==
    /\ q.row = groups[q.group] /\ Exists(q.row)
    /\ q.role = roles[q.group][q.user]

\* A session that no commit has overtaken.
FreshSession(q) ==
    /\ q.phase # "idle" /\ q.stmt # "insert" => Fresh(q)
    /\ q.phase = "ready" => Decided(q)

\* What any session may hold, overtaken or not: the changes of one operation on the
\* rows of one group.
Tidy(q) ==
    /\ \A v \in q.voteIns \cup q.voteUpd : ProposalGroup[v[1]] = q.group
    /\ \A k \in q.voteDel : ProposalGroup[k[1]] = q.group
    /\ \A v, w \in q.voteIns \cup q.voteUpd : v = w
    /\ q.voteIns \cup q.voteUpd # {} => q.propDel = {}
    /\ q.memIns \subseteq {q.user}
    /\ \A p, x \in q.propIns : p = x
    /\ q.stmt = "insert" => q.obj.owner = q.user /\ q.memIns # {} /\ Only(q, {"memIns"})
    /\ q.stmt = "delete" => Only(q, {})
    /\ q.ifMatch # 0 => q.stmt # "insert" /\ q.ifMatch = q.row.version

Sound(r) ==
    LET q == req[r] IN
    /\ Tidy(q)
    /\ q.phase = "loaded" => q.stmt = "update" /\ q.obj = q.row /\ Only(q, {})
    /\ r \notin overtaken => FreshSession(q)

\* What holds of the tables whatever is late.
VotesOnLive == \A v \in votes : proposals[v[1]] = "live"
OneVoteEach == \A v, w \in votes : v[1] = w[1] /\ v[2] = w[2] => v = w
NothingYet == \A g \in Groups : groups[g].state = "absent" => avail[g] = {}

\* Rows are added one by one, so each limited set stays finite.
RowsFinite ==
    /\ \A g \in Groups : IsFiniteSet(Members(g)) /\ IsFiniteSet(LiveProposals(g))
    /\ \A u \in Users : IsFiniteSet(Groupships(u))

(***************************************************************************)
(* The inductive invariant behind the properties that only a late commit   *)
(* can break: a session that was not overtaken still holds at the flush    *)
(* what it read.  It holds of every execution, late commits or not.        *)
(***************************************************************************)
OverlapInv ==
    /\ IInv /\ VotesOnLive /\ OneVoteEach /\ NothingYet /\ RowsFinite
    /\ \A r \in Requests : Sound(r)

-----------------------------------------------------------------------------
(* Sessions: the decision of each handler.                                 *)

\* The rows of h are what they were.
GroupKept(h) ==
    /\ groups'[h] = groups[h] /\ roles'[h] = roles[h]
    /\ submitted'[h] = submitted[h] /\ avail'[h] = avail[h]
    /\ GroupVotes(h)' = GroupVotes(h)
    /\ \A p \in Proposals : ProposalGroup[p] = h => proposals'[p] = proposals[p]

\* A step that writes no table keeps every group.
LEMMA TablesKept ==
    ASSUME UNCHANGED tables, NEW h
    PROVE  GroupKept(h)
BY DEF tables, GroupKept, GroupVotes

\* What is kept of a group as its readers count it.
LEMMA KeptCounts ==
    ASSUME NEW h, GroupKept(h)
    PROVE  /\ Members(h)' = Members(h) /\ LiveProposals(h)' = LiveProposals(h)
           /\ groups'[h] = groups[h] /\ roles'[h] = roles[h] /\ avail'[h] = avail[h]
           /\ GroupVotes(h)' = GroupVotes(h)
           /\ \A p \in Proposals : ProposalGroup[p] = h => proposals'[p] = proposals[p]
BY DEF GroupKept, Members, LiveProposals

\* What a session holds depends on itself and the rows of its group only.
LEMMA SessionFrame ==
    ASSUME NEW s, NEW n, req'[s] = n, GroupKept(n.group), FreshSession(n)
    PROVE  FreshSession(req[s])'
<1> DEFINE h == n.group
<1>0. req'[s] = n /\ h = n.group
  OBVIOUS
<1>1. /\ Members(h)' = Members(h) /\ LiveProposals(h)' = LiveProposals(h)
      /\ groups'[h] = groups[h] /\ roles'[h] = roles[h] /\ avail'[h] = avail[h]
      /\ GroupVotes(h)' = GroupVotes(h)
      /\ \A p \in Proposals : ProposalGroup[p] = h => proposals'[p] = proposals[p]
  BY KeptCounts
<1> HIDE DEF h
<1>2. Decided(n) => Decided(req[s])'
  <2>1. WillFound(n) => WillFound(req[s])'
    BY <1>0, <1>1 DEF WillFound, Only
  <2>2. WillDisband(n) => WillDisband(req[s])'
    BY <1>0 DEF WillDisband, Only
  <2>3. WillAmend(n) => WillAmend(req[s])'
    <3>1. \A w : Keys({a \in avail'[req'[s].group] : a[2] \notin w})
                  = Keys({a \in avail[n.group] : a[2] \notin w})
      BY <1>0, <1>1
    <3> QED
      BY <1>0, <3>1 DEF WillAmend, Only, Renewed, Keys
  <2>4. WillEnrol(n) => WillEnrol(req[s])'
    BY <1>0, <1>1 DEF WillEnrol, Only, Renewed
  <2>5. WillExpel(n) => WillExpel(req[s])'
    BY <1>0, <1>1 DEF WillExpel, Only, Renewed, Keys
  <2>6. WillAnswer(n) => WillAnswer(req[s])'
    BY <1>0, <1>1 DEF WillAnswer, Only, Renewed, Keys
  <2>7. WillOffer(n) => WillOffer(req[s])'
    BY <1>0, <1>1 DEF WillOffer, Only, Renewed
  <2>8. WillRetract(n) => WillRetract(req[s])'
    BY <1>0, <1>1 DEF WillRetract, Only, Renewed
  <2>9. WillCast(n) => WillCast(req[s])'
    BY <1>0, <1>1 DEF WillCast, Only, Renewed, VotesLeft, OtherVotes, Keys
  <2>10. WillSettle(n) => WillSettle(req[s])'
    BY <1>0, <1>1 DEF WillSettle, Only, Renewed
  <2>11. WillReopen(n) => WillReopen(req[s])'
    BY <1>0 DEF WillReopen, Only, Renewed
  <2> QED
    BY <1>0, <2>1, <2>2, <2>3, <2>4, <2>5, <2>6, <2>7, <2>8, <2>9, <2>10, <2>11 DEF Decided
<1>3. Fresh(n) => Fresh(req[s])'
  BY <1>0, <1>1 DEF Fresh, Exists
<1> QED
  BY <1>0, <1>2, <1>3 DEF FreshSession

\* A session that a step writes, while the tables stay.
LEMMA SoundWritten ==
    ASSUME NEW r \in Requests, NEW m, UNCHANGED tables, req \in [Requests -> Request],
           req' = [req EXCEPT ![r] = m], overtaken' = overtaken, Tidy(m),
           m.phase = "loaded" => m.stmt = "update" /\ m.obj = m.row /\ Only(m, {}),
           r \notin overtaken => FreshSession(m)
    PROVE  Sound(r)'
<1>1. req'[r] = m
  OBVIOUS
<1>2. r \notin overtaken => FreshSession(req[r])'
  BY <1>1, TablesKept, SessionFrame
<1>3. Tidy(req[r])'
  BY <1>1 DEF Tidy, Only
<1>4. (req[r].phase = "loaded" =>
         req[r].stmt = "update" /\ req[r].obj = req[r].row /\ Only(req[r], {}))'
  BY <1>1 DEF Only
<1> QED
  BY <1>2, <1>3, <1>4 DEF Sound

\* A decision with a new version: what the session holds after it.
LEMMA PendedFields ==
    ASSUME NEW n \in Request
    PROVE  LET m == [Bumped(n) EXCEPT !.phase = "ready"]
           IN /\ m.phase = "ready" /\ m.user = n.user /\ m.group = n.group
              /\ m.role = n.role /\ m.row = n.row /\ m.stmt = n.stmt
              /\ m.ifMatch = n.ifMatch
              /\ m.obj = [n.obj EXCEPT !.version = n.row.version + 1]
              /\ \A f \in Pendings : m[f] = n[f]
BY DEF Bumped, Request, Pendings

\* What the invariant says of a session that has loaded its row.
LEMMA LoadedSession ==
    ASSUME OverlapInv, NEW r \in Requests, req[r].phase = "loaded"
    PROVE  LET q == req[r]
           IN /\ q \in Request /\ q.group \in Groups /\ q.user \in Users
              /\ q.row \in GroupRow /\ q.obj = q.row /\ q.stmt = "update"
              /\ Exists(q.row) /\ Only(q, {})
              /\ q.ifMatch # 0 => q.ifMatch = q.row.version
              /\ r \notin overtaken => Fresh(q)
<1> DEFINE q == req[r]
<1>1. TypeOK /\ SessionInv(q) /\ Sound(r)
  BY DEF OverlapInv, IInv
<1>2. q \in Request /\ q.group \in Groups /\ q.user \in Users /\ q.row \in GroupRow
  BY <1>1 DEF TypeOK, Request
<1>3. /\ q.obj = q.row /\ q.stmt = "update" /\ Only(q, {})
      /\ q.ifMatch # 0 => q.ifMatch = q.row.version
      /\ r \notin overtaken => Fresh(q)
  BY <1>1 DEF Sound, Tidy, FreshSession
<1>4. Exists(q.row)
  BY <1>1, <1>3 DEF SessionInv, SessionOnRow
<1> QED
  BY <1>2, <1>3, <1>4

\* A decision that bumps the version hands on a session that has decided.
LEMMA SoundDecision ==
    ASSUME OverlapInv, NEW r \in Requests, req[r].phase = "loaded",
           NEW n \in Request, PendBumped(r, n),
           n.user = req[r].user, n.group = req[r].group, n.role = req[r].role,
           n.row = req[r].row, n.stmt = "update", Tidy(n),
           Decided([Bumped(n) EXCEPT !.phase = "ready"])
    PROVE  Sound(r)'
<1> DEFINE m == [Bumped(n) EXCEPT !.phase = "ready"]
<1>1. /\ m.phase = "ready" /\ m.user = n.user /\ m.group = n.group
      /\ m.role = n.role /\ m.row = n.row /\ m.stmt = n.stmt
      /\ m.ifMatch = n.ifMatch /\ \A f \in Pendings : m[f] = n[f]
  BY PendedFields
<1>2. /\ UNCHANGED tables /\ req' = [req EXCEPT ![r] = m] /\ overtaken' = overtaken
      /\ req \in [Requests -> Request]
  BY DEF PendBumped, Pend, OverlapInv, IInv, TypeOK
<1>3. Decided(m)
  OBVIOUS
<1> HIDE DEF m
<1>4. Tidy(m)
  BY <1>1 DEF Tidy, Pendings
<1>5. r \notin overtaken => FreshSession(m)
  BY <1>1, <1>3, LoadedSession DEF FreshSession, Fresh
<1> QED
  BY <1>1, <1>2, <1>4, <1>5, SoundWritten

\* update_group, with or without If-Match, decides on the row it will amend.
LEMMA DecideAmend ==
    ASSUME OverlapInv, NEW r \in Requests, NEW w \in Windows, NEW b \in BOOLEAN,
           NEW i \in BOOLEAN, NEW k \in 0 .. MaxVersion, UpdateGroup(r, w, b, i, k)
    PROVE  Sound(r)'
<1> DEFINE q == req[r]
           del == {<<a[1], a[2]>> : a \in {x \in avail[q.group] : b /\ x[2] \notin w}}
           invite == IF i THEN q.obj.invite + 1 ELSE q.obj.invite
           n == [q EXCEPT !.ifMatch = k, !.obj.window = w, !.obj.invite = invite,
                          !.avDel = del]
           m == [Bumped(n) EXCEPT !.phase = "ready"]
<1>1. q.phase = "loaded" /\ PendBumped(r, n)
  BY DEF UpdateGroup, AsOwner, Caller
<1>g. (~b => w = q.row.window) /\ k \in {0, q.row.version}
  BY DEF UpdateGroup
<1>2. /\ q \in Request /\ q.group \in Groups /\ q.row \in GroupRow /\ q.obj = q.row
      /\ q.stmt = "update" /\ Exists(q.row) /\ Only(q, {})
  BY <1>1, LoadedSession
<1>3. del = Keys({a \in avail[q.group] : a[2] \notin w}) \/ (w = q.row.window /\ del = {})
  BY <1>g DEF Keys
<1>4. invite \in {q.row.invite, q.row.invite + 1} /\ invite \in Nat /\ k \in Nat
  BY <1>g, <1>2, SchedulingAssumption DEF GroupRow
<1>5. del \in SUBSET (Users \X Slots)
  BY <1>2 DEF OverlapInv, IInv, TypeOK, AvailRow
<1> HIDE DEF del, invite
<1>6. n \in Request
  BY <1>2, <1>4, <1>5 DEF Request, GroupRow
<1>7. /\ n.user = q.user /\ n.group = q.group /\ n.role = q.role /\ n.row = q.row
      /\ n.stmt = "update" /\ n.ifMatch = k /\ n.avDel = del
      /\ n.obj = [q.row EXCEPT !.window = w, !.invite = invite]
      /\ \A f \in Pendings \ {"avDel"} : n[f] = q[f]
  BY <1>2 DEF Request, Pendings
<1>8. PendBumped(r, n)
  BY <1>1 DEF del, invite
<1> HIDE DEF n
<1>13. Tidy(n)
  BY <1>g, <1>2, <1>7 DEF Tidy, Only, Pendings
<1>9. /\ m.group = q.group /\ m.row = q.row /\ m.stmt = "update" /\ m.avDel = del
      /\ m.obj = [n.obj EXCEPT !.version = n.row.version + 1]
      /\ \A f \in Pendings : m[f] = n[f]
  BY <1>6, <1>7, PendedFields DEF Pendings
<1> HIDE DEF m
<1>10. m.obj = [Renewed(q.row) EXCEPT !.window = w, !.invite = invite]
  BY <1>2, <1>7, <1>9 DEF Renewed, GroupRow
<1>11. Only(m, {"avDel"})
  BY <1>2, <1>7, <1>9 DEF Only
<1>12. WillAmend(m)
  <2>1. /\ \/ m.avDel = Keys({a \in avail[m.group] : a[2] \notin w})
           \/ w = m.row.window /\ m.avDel = {}
        /\ m.obj = [Renewed(m.row) EXCEPT !.window = w, !.invite = invite]
        /\ invite \in {m.row.invite, m.row.invite + 1}
    BY <1>3, <1>4, <1>9, <1>10
  <2> QED
    BY <1>11, <2>1, Zenon DEF WillAmend
<1> QED
  BY <1>1, <1>2, <1>6, <1>7, <1>8, <1>9, <1>12, <1>13, SoundDecision DEF Decided, m

\* join_group: the caller is not a member and there is room.
LEMMA DecideEnrol ==
    ASSUME OverlapInv, NEW r \in Requests, NEW t \in 0 .. MaxRotations,
           JoinGroup(r, t)
    PROVE  Sound(r)'
<1> DEFINE q == req[r]
           n == [q EXCEPT !.token = t, !.memIns = {q.user}]
           m == [Bumped(n) EXCEPT !.phase = "ready"]
<1>1. q.phase = "loaded" /\ PendBumped(r, n)
  BY DEF JoinGroup, AsOwner, AsMember, Caller
<1>g. roles[q.group][q.user] = "none" /\ Cardinality(Members(q.group)) < MaxMembers
  BY DEF JoinGroup, AsOwner, AsMember, Caller
<1>2. /\ q \in Request /\ q.group \in Groups /\ q.user \in Users /\ q.row \in GroupRow
      /\ q.obj = q.row /\ q.stmt = "update" /\ Exists(q.row) /\ Only(q, {})
      /\ q.ifMatch # 0 => q.ifMatch = q.row.version
  BY <1>1, LoadedSession
<1>t. t \in Nat
  BY SchedulingAssumption
<1>4. n \in Request
  BY <1>2, <1>t DEF Request
<1>5. /\ n.user = q.user /\ n.group = q.group /\ n.role = q.role /\ n.row = q.row
      /\ n.stmt = "update" /\ n.ifMatch = q.ifMatch /\ n.obj = q.row /\ n.memIns = {q.user}
      /\ \A f \in Pendings \ {"memIns"} : n[f] = q[f]
  BY <1>2 DEF Request, Pendings
<1>6. PendBumped(r, n)
  BY <1>1
<1> HIDE DEF n
<1>12. Tidy(n)
  BY <1>2, <1>5 DEF Tidy, Only, Pendings
<1>7. /\ m.group = q.group /\ m.user = q.user /\ m.role = q.role /\ m.row = q.row
      /\ m.stmt = "update"
      /\ m.obj = [n.obj EXCEPT !.version = q.row.version + 1]
      /\ \A f \in Pendings : m[f] = n[f]
  BY <1>4, <1>5, PendedFields
<1> HIDE DEF m
<1>8. Only(m, {"memIns"})
  BY <1>2, <1>5, <1>7 DEF Only
<1>9. WillEnrol(m)
  <2>1. m.obj = Renewed(m.row) /\ m.memIns = {m.user}
    BY <1>2, <1>5, <1>7 DEF Renewed, Pendings
  <2> QED
    BY <1>g, <1>7, <1>8, <2>1 DEF WillEnrol
<1> QED
  BY <1>1, <1>2, <1>4, <1>5, <1>6, <1>7, <1>9, <1>12, SoundDecision DEF Decided, m

\* remove_member: the rows of the removed member, as they are now.
LEMMA DecideExpel ==
    ASSUME OverlapInv, NEW r \in Requests, NEW u \in Users,
           RemoveMember(r, u)
    PROVE  Sound(r)'
<1> DEFINE q == req[r]
           del == {<<a[1], a[2]>> : a \in {b \in avail[q.group] : b[1] = u}}
           vdel == {<<v[1], v[2]>> : v \in {w \in votes :
                       w[2] = u /\ ProposalGroup[w[1]] = q.group}}
           n == [q EXCEPT !.avDel = del, !.voteDel = vdel, !.memDel = {u}]
           m == [Bumped(n) EXCEPT !.phase = "ready"]
<1>1. q.phase = "loaded" /\ PendBumped(r, n)
  BY DEF RemoveMember, AsOwner, AsMember, Caller
<1>g. roles[q.group][u] = "member"
  BY DEF RemoveMember, AsOwner, AsMember, Caller
<1>2. /\ q \in Request /\ q.group \in Groups /\ q.user \in Users /\ q.row \in GroupRow
      /\ q.obj = q.row /\ q.stmt = "update" /\ Exists(q.row) /\ Only(q, {})
      /\ q.ifMatch # 0 => q.ifMatch = q.row.version
  BY <1>1, LoadedSession
<1>3. /\ del \in SUBSET (Users \X Slots) /\ vdel \in SUBSET Key
      /\ \A k \in vdel : ProposalGroup[k[1]] = q.group
  BY <1>2 DEF OverlapInv, IInv, TypeOK, AvailRow, VoteRow, Key
<1>10. vdel = Keys({v \in GroupVotes(q.group) : v[2] = u})
  BY DEF Keys, GroupVotes
<1> HIDE DEF del, vdel
<1>4. n \in Request
  BY <1>2, <1>3 DEF Request
<1>5. /\ n.user = q.user /\ n.group = q.group /\ n.role = q.role /\ n.row = q.row
      /\ n.stmt = "update" /\ n.ifMatch = q.ifMatch /\ n.obj = q.row /\ n.memDel = {u}
      /\ n.avDel = del /\ n.voteDel = vdel
      /\ \A f \in Pendings \ {"memDel", "avDel", "voteDel"} : n[f] = q[f]
  BY <1>2 DEF Request, Pendings
<1>6. PendBumped(r, n)
  BY <1>1 DEF del, vdel
<1> HIDE DEF n
<1>12. Tidy(n)
  BY <1>2, <1>3, <1>5 DEF Tidy, Only, Pendings
<1>7. /\ m.group = q.group /\ m.user = q.user /\ m.role = q.role /\ m.row = q.row
      /\ m.stmt = "update"
      /\ m.obj = [n.obj EXCEPT !.version = q.row.version + 1]
      /\ \A f \in Pendings : m[f] = n[f]
  BY <1>4, <1>5, PendedFields
<1> HIDE DEF m
<1>8. Only(m, {"memDel", "avDel", "voteDel"})
  BY <1>2, <1>5, <1>7 DEF Only
<1>9. WillExpel(m)
  <2>1. /\ m.obj = Renewed(m.row) /\ m.memDel = {u}
        /\ m.avDel = Keys({a \in avail[m.group] : a[1] = u})
        /\ m.voteDel = Keys({v \in GroupVotes(m.group) : v[2] = u})
    BY <1>2, <1>5, <1>7, <1>10 DEF Renewed, Pendings, Keys, del
  <2> QED
    BY <1>g, <1>7, <1>8, <2>1 DEF WillExpel
<1> QED
  BY <1>1, <1>2, <1>4, <1>5, <1>6, <1>7, <1>9, <1>12, SoundDecision DEF Decided, m

\* put_my_availability: the rows of the caller give way to the selection.
LEMMA DecideAnswer ==
    ASSUME OverlapInv, NEW r \in Requests, NEW sel \in Selections,
           PutMyAvailability(r, sel)
    PROVE  Sound(r)'
<1> DEFINE q == req[r]
           del == {<<a[1], a[2]>> : a \in {b \in avail[q.group] : b[1] = q.user}}
           ins == Preferring(q.user, sel)
           n == [q EXCEPT !.avDel = del, !.avIns = ins, !.submit = {q.user}]
           m == [Bumped(n) EXCEPT !.phase = "ready"]
<1>1. q.phase = "loaded" /\ PendBumped(r, n)
  BY DEF PutMyAvailability, AsOwner, AsMember, Caller
<1>g. /\ q.row.state # "confirmed" /\ q.role # "none"
      /\ sel[1] \subseteq q.row.window /\ sel[2] \subseteq q.row.window
  BY DEF PutMyAvailability, AsOwner, AsMember, Caller
<1>2. /\ q \in Request /\ q.group \in Groups /\ q.user \in Users /\ q.row \in GroupRow
      /\ q.obj = q.row /\ q.stmt = "update" /\ Exists(q.row) /\ Only(q, {})
      /\ q.ifMatch # 0 => q.ifMatch = q.row.version
  BY <1>1, LoadedSession
<1>i. \A a \in ins : /\ a[1] = q.user /\ a[2] \in q.row.window
                     /\ \A b \in ins : b[2] = a[2] => b = a
  BY <1>g DEF Preferring
<1>3. del \in SUBSET (Users \X Slots) /\ ins \in SUBSET AvailRow
  BY <1>2, SchedulingAssumption DEF OverlapInv, IInv, TypeOK, AvailRow, Preferring, Marks
<1> HIDE DEF del, ins
<1>4. n \in Request
  BY <1>2, <1>3 DEF Request
<1>5. /\ n.user = q.user /\ n.group = q.group /\ n.role = q.role /\ n.row = q.row
      /\ n.stmt = "update" /\ n.ifMatch = q.ifMatch /\ n.obj = q.row /\ n.submit = {q.user}
      /\ n.avDel = del /\ n.avIns = ins
      /\ \A f \in Pendings \ {"submit", "avDel", "avIns"} : n[f] = q[f]
  BY <1>2 DEF Request, Pendings
<1>6. PendBumped(r, n)
  BY <1>1 DEF del, ins
<1> HIDE DEF n
<1>12. Tidy(n)
  BY <1>2, <1>5 DEF Tidy, Only, Pendings
<1>7. /\ m.group = q.group /\ m.user = q.user /\ m.role = q.role /\ m.row = q.row
      /\ m.stmt = "update"
      /\ m.obj = [n.obj EXCEPT !.version = q.row.version + 1]
      /\ \A f \in Pendings : m[f] = n[f]
  BY <1>4, <1>5, PendedFields
<1> HIDE DEF m
<1>8. Only(m, {"submit", "avDel", "avIns"})
  BY <1>2, <1>5, <1>7 DEF Only
<1>9. WillAnswer(m)
  <2>1. /\ m.obj = Renewed(m.row) /\ m.submit = {m.user} /\ m.avIns = ins
        /\ m.avDel = Keys({a \in avail[m.group] : a[1] = m.user})
    BY <1>2, <1>5, <1>7 DEF Renewed, Pendings, Keys, del
  <2> QED
    BY <1>2, <1>g, <1>i, <1>7, <1>8, <2>1 DEF WillAnswer, Exists
<1> QED
  BY <1>1, <1>2, <1>4, <1>5, <1>6, <1>7, <1>9, <1>12, SoundDecision DEF Decided, m

\* create_proposal: an unused identifier, inside the bounds, below the limit.
LEMMA DecideOffer ==
    ASSUME OverlapInv, NEW r \in Requests, NEW p \in Proposals,
           CreateProposal(r, p)
    PROVE  Sound(r)'
<1> DEFINE q == req[r]
           n == [q EXCEPT !.propIns = {p}]
           m == [Bumped(n) EXCEPT !.phase = "ready"]
<1>1. q.phase = "loaded" /\ PendBumped(r, n)
  BY DEF CreateProposal, AsOwner, AsMember, Caller
<1>g. /\ q.row.state # "confirmed" /\ ProposalGroup[p] = q.group /\ proposals[p] = "unused"
      /\ Span[p] \subseteq q.row.window /\ Cardinality(LiveProposals(q.group)) < MaxProposals
  BY DEF CreateProposal, AsOwner, AsMember, Caller
<1>2. /\ q \in Request /\ q.group \in Groups /\ q.user \in Users /\ q.row \in GroupRow
      /\ q.obj = q.row /\ q.stmt = "update" /\ Exists(q.row) /\ Only(q, {})
      /\ q.ifMatch # 0 => q.ifMatch = q.row.version
  BY <1>1, LoadedSession
<1>4. n \in Request
  BY <1>2 DEF Request
<1>5. /\ n.user = q.user /\ n.group = q.group /\ n.role = q.role /\ n.row = q.row
      /\ n.stmt = "update" /\ n.ifMatch = q.ifMatch /\ n.obj = q.row /\ n.propIns = {p}
      /\ \A f \in Pendings \ {"propIns"} : n[f] = q[f]
  BY <1>2 DEF Request, Pendings
<1>6. PendBumped(r, n)
  BY <1>1
<1> HIDE DEF n
<1>12. Tidy(n)
  BY <1>2, <1>5 DEF Tidy, Only, Pendings
<1>7. /\ m.group = q.group /\ m.user = q.user /\ m.role = q.role /\ m.row = q.row
      /\ m.stmt = "update"
      /\ m.obj = [n.obj EXCEPT !.version = q.row.version + 1]
      /\ \A f \in Pendings : m[f] = n[f]
  BY <1>4, <1>5, PendedFields
<1> HIDE DEF m
<1>8. Only(m, {"propIns"})
  BY <1>2, <1>5, <1>7 DEF Only
<1>9. WillOffer(m)
  <2>1. m.obj = Renewed(m.row) /\ m.propIns = {p}
    BY <1>2, <1>5, <1>7 DEF Renewed, Pendings
  <2> QED
    BY <1>2, <1>g, <1>7, <1>8, <2>1 DEF WillOffer, Exists
<1> QED
  BY <1>1, <1>2, <1>4, <1>5, <1>6, <1>7, <1>9, <1>12, SoundDecision DEF Decided, m

\* delete_proposal: a live proposal of an open group.
LEMMA DecideRetract ==
    ASSUME OverlapInv, NEW r \in Requests, NEW p \in Proposals,
           DeleteProposal(r, p)
    PROVE  Sound(r)'
<1> DEFINE q == req[r]
           n == [q EXCEPT !.propDel = {p}]
           m == [Bumped(n) EXCEPT !.phase = "ready"]
<1>1. q.phase = "loaded" /\ PendBumped(r, n)
  BY DEF DeleteProposal, AsOwner, AsMember, Caller
<1>g. q.row.state # "confirmed" /\ p \in LiveProposals(q.group)
  BY DEF DeleteProposal, AsOwner, AsMember, Caller
<1>2. /\ q \in Request /\ q.group \in Groups /\ q.user \in Users /\ q.row \in GroupRow
      /\ q.obj = q.row /\ q.stmt = "update" /\ Exists(q.row) /\ Only(q, {})
      /\ q.ifMatch # 0 => q.ifMatch = q.row.version
  BY <1>1, LoadedSession
<1>4. n \in Request
  BY <1>2 DEF Request
<1>5. /\ n.user = q.user /\ n.group = q.group /\ n.role = q.role /\ n.row = q.row
      /\ n.stmt = "update" /\ n.ifMatch = q.ifMatch /\ n.obj = q.row /\ n.propDel = {p}
      /\ \A f \in Pendings \ {"propDel"} : n[f] = q[f]
  BY <1>2 DEF Request, Pendings
<1>6. PendBumped(r, n)
  BY <1>1
<1> HIDE DEF n
<1>12. Tidy(n)
  BY <1>2, <1>5 DEF Tidy, Only, Pendings
<1>7. /\ m.group = q.group /\ m.user = q.user /\ m.role = q.role /\ m.row = q.row
      /\ m.stmt = "update"
      /\ m.obj = [n.obj EXCEPT !.version = q.row.version + 1]
      /\ \A f \in Pendings : m[f] = n[f]
  BY <1>4, <1>5, PendedFields
<1> HIDE DEF m
<1>8. Only(m, {"propDel"})
  BY <1>2, <1>5, <1>7 DEF Only
<1>9. WillRetract(m)
  <2>1. m.obj = Renewed(m.row) /\ m.propDel = {p}
    BY <1>2, <1>5, <1>7 DEF Renewed, Pendings
  <2> QED
    BY <1>2, <1>g, <1>7, <1>8, <2>1 DEF WillRetract, Exists
<1> QED
  BY <1>1, <1>2, <1>4, <1>5, <1>6, <1>7, <1>9, <1>12, SoundDecision DEF Decided, m

\* delete_vote: the caller's vote on a live proposal goes.
LEMMA DecideUnvote ==
    ASSUME OverlapInv, NEW r \in Requests, NEW p \in Proposals,
           DeleteVote(r, p)
    PROVE  Sound(r)'
<1> DEFINE q == req[r]
           n == [q EXCEPT !.voteDel = {<<p, q.user>>}]
           m == [Bumped(n) EXCEPT !.phase = "ready"]
<1>1. q.phase = "loaded" /\ PendBumped(r, n)
  BY DEF DeleteVote, AsOwner, AsMember, Caller
<1>g. q.row.state # "confirmed" /\ p \in LiveProposals(q.group) /\ q.role # "none"
  BY DEF DeleteVote, AsOwner, AsMember, Caller
<1>2. /\ q \in Request /\ q.group \in Groups /\ q.user \in Users /\ q.row \in GroupRow
      /\ q.obj = q.row /\ q.stmt = "update" /\ Exists(q.row) /\ Only(q, {})
      /\ q.ifMatch # 0 => q.ifMatch = q.row.version
  BY <1>1, LoadedSession
<1>4. n \in Request
  BY <1>2 DEF Request, Key
<1>5. /\ n.user = q.user /\ n.group = q.group /\ n.role = q.role /\ n.row = q.row
      /\ n.stmt = "update" /\ n.ifMatch = q.ifMatch /\ n.obj = q.row
      /\ n.voteDel = {<<p, q.user>>} /\ n.voteIns = {} /\ n.voteUpd = {}
      /\ \A f \in Pendings \ {"voteIns", "voteUpd", "voteDel"} : n[f] = q[f]
  BY <1>2 DEF Request, Pendings, Only
<1>6. PendBumped(r, n)
  BY <1>1
<1> HIDE DEF n
<1>12. Tidy(n)
  BY <1>2, <1>5, <1>g DEF Tidy, Only, Pendings, LiveProposals
<1>7. /\ m.group = q.group /\ m.user = q.user /\ m.role = q.role /\ m.row = q.row
      /\ m.stmt = "update"
      /\ m.obj = [n.obj EXCEPT !.version = q.row.version + 1]
      /\ \A f \in Pendings : m[f] = n[f]
  BY <1>4, <1>5, PendedFields
<1> HIDE DEF m
<1>8. Only(m, {"voteIns", "voteUpd", "voteDel"})
  BY <1>2, <1>5, <1>7 DEF Only
<1>9. WillCast(m)
  <2>1. /\ m.obj = Renewed(m.row)
        /\ VotesLeft(m, GroupVotes(m.group)) = OtherVotes(GroupVotes(m.group), p, m.user)
    BY <1>2, <1>5, <1>7 DEF Renewed, Pendings, VotesLeft, OtherVotes, Keys
  <2> QED
    BY <1>2, <1>g, <1>7, <1>8, <2>1 DEF WillCast, Exists
<1> QED
  BY <1>1, <1>2, <1>4, <1>5, <1>6, <1>7, <1>9, <1>12, SoundDecision DEF Decided, m

\* put_vote: one vote of the caller on the proposal, and it has the value sent.
LEMMA DecideCast ==
    ASSUME OverlapInv, NEW r \in Requests, NEW p \in Proposals,
           NEW v \in VoteValues, PutVote(r, p, v)
    PROVE  Sound(r)'
<1> DEFINE q == req[r]
           mine == {w \in votes : w[1] = p /\ w[2] = q.user}
           ins == IF mine = {} THEN {<<p, q.user, v>>} ELSE {}
           upd == IF mine = {} THEN {} ELSE {<<p, q.user, v>>} \ mine
           S == GroupVotes(q.group)
           n == [q EXCEPT !.voteIns = ins, !.voteUpd = upd]
           m == [Bumped(n) EXCEPT !.phase = "ready"]
<1>1. q.phase = "loaded" /\ PendBumped(r, n)
  BY DEF PutVote, AsOwner, AsMember, Caller
<1>g. q.row.state # "confirmed" /\ p \in LiveProposals(q.group) /\ q.role # "none"
  BY DEF PutVote, AsOwner, AsMember, Caller
<1>2. /\ q \in Request /\ q.group \in Groups /\ q.user \in Users /\ q.row \in GroupRow
      /\ q.obj = q.row /\ q.stmt = "update" /\ Exists(q.row) /\ Only(q, {})
      /\ q.ifMatch # 0 => q.ifMatch = q.row.version
  BY <1>1, LoadedSession
<1>3. /\ ins \in SUBSET VoteRow /\ upd \in SUBSET VoteRow
      /\ \A x \in ins \cup upd : x = <<p, q.user, v>>
  BY <1>2 DEF VoteRow
<1>10. S \subseteq votes /\ mine = {w \in S : w[1] = p /\ w[2] = q.user}
  BY <1>g DEF GroupVotes, LiveProposals
<1> HIDE DEF mine, ins, upd, S
<1>4. n \in Request
  BY <1>2, <1>3 DEF Request
<1>5. /\ n.user = q.user /\ n.group = q.group /\ n.role = q.role /\ n.row = q.row
      /\ n.stmt = "update" /\ n.ifMatch = q.ifMatch /\ n.obj = q.row
      /\ n.voteDel = {} /\ n.voteIns = ins /\ n.voteUpd = upd
      /\ \A f \in Pendings \ {"voteIns", "voteUpd", "voteDel"} : n[f] = q[f]
  BY <1>2 DEF Request, Pendings, Only
<1>6. PendBumped(r, n)
  BY <1>1 DEF mine, ins, upd
<1> HIDE DEF n
<1>12. Tidy(n)
  BY <1>2, <1>3, <1>5, <1>g DEF Tidy, Only, Pendings, LiveProposals
<1>7. /\ m.group = q.group /\ m.user = q.user /\ m.role = q.role /\ m.row = q.row
      /\ m.stmt = "update"
      /\ m.obj = [n.obj EXCEPT !.version = q.row.version + 1]
      /\ \A f \in Pendings : m[f] = n[f]
  BY <1>4, <1>5, PendedFields
<1> HIDE DEF m
<1>8. Only(m, {"voteIns", "voteUpd", "voteDel"})
  BY <1>2, <1>5, <1>7 DEF Only
<1>9. WillCast(m)
  <2>1. m.obj = Renewed(m.row) /\ m.voteIns = ins /\ m.voteUpd = upd /\ m.voteDel = {}
    BY <1>2, <1>5, <1>7 DEF Renewed, Pendings
  <2>2. VotesLeft(m, S) = OtherVotes(S, p, q.user) \cup {<<p, q.user, v>>}
    <3>1. VotesLeft(m, S) = {w \in S : <<w[1], w[2]>> \notin Keys(upd)} \cup ins \cup upd
      BY <2>1 DEF VotesLeft
    <3>3. CASE mine = {}
      <4>1. ins = {<<p, q.user, v>>} /\ upd = {}
        BY <3>3 DEF ins, upd
      <4>2. OtherVotes(S, p, q.user) = S
        BY <1>10, <3>3 DEF OtherVotes
      <4> QED
        BY <3>1, <4>1, <4>2 DEF Keys
    <3>4. CASE mine # {} /\ <<p, q.user, v>> \notin mine
      <4>1. ins = {} /\ upd = {<<p, q.user, v>>}
        BY <3>4 DEF ins, upd
      <4>2. Keys(upd) = {<<p, q.user>>}
        BY <4>1 DEF Keys
      <4>3. \A w \in S : <<w[1], w[2]>> = <<p, q.user>> <=> w[1] = p /\ w[2] = q.user
        OBVIOUS
      <4> QED
        BY <3>1, <4>1, <4>2, <4>3 DEF OtherVotes
    <3>5. CASE <<p, q.user, v>> \in mine
      <4>1. ins = {} /\ upd = {}
        BY <3>5 DEF ins, upd
      <4>2. \A w \in mine : w = <<p, q.user, v>>
        BY <3>5 DEF mine, OverlapInv, OneVoteEach
      <4>3. VotesLeft(m, S) = S
        BY <3>1, <4>1 DEF Keys
      <4> QED
        BY <1>10, <3>5, <4>2, <4>3 DEF OtherVotes
    <3> QED
      BY <3>3, <3>4, <3>5
  <2> QED
    BY <1>2, <1>g, <1>7, <1>8, <2>1, <2>2 DEF Exists, WillCast, S
<1> QED
  BY <1>1, <1>2, <1>4, <1>5, <1>6, <1>7, <1>9, <1>12, SoundDecision DEF Decided, m

\* confirm_group: a live proposal of an open group.
LEMMA DecideSettle ==
    ASSUME OverlapInv, NEW r \in Requests, NEW p \in Proposals,
           NEW b \in BOOLEAN, ConfirmGroup(r, p, b)
    PROVE  Sound(r)'
<1> DEFINE q == req[r]
           jobs == IF b /\ RunAfter(p) > now
                   THEN {p} \X (Members(q.group) \cap Notified) ELSE {}
           n == [q EXCEPT !.obj.state = "confirmed", !.obj.pid = p, !.jobIns = jobs]
           m == [Bumped(n) EXCEPT !.phase = "ready"]
<1>1. q.phase = "loaded" /\ PendBumped(r, n)
  BY DEF ConfirmGroup, AsOwner, AsMember, Caller
<1>g. q.row.state # "confirmed" /\ p \in LiveProposals(q.group)
  BY DEF ConfirmGroup, AsOwner, AsMember, Caller
<1>2. /\ q \in Request /\ q.group \in Groups /\ q.user \in Users /\ q.row \in GroupRow
      /\ q.obj = q.row /\ q.stmt = "update" /\ Exists(q.row) /\ Only(q, {})
      /\ q.ifMatch # 0 => q.ifMatch = q.row.version
  BY <1>1, LoadedSession
<1>3. jobs \in SUBSET Key
  BY DEF Members, Key
<1> HIDE DEF jobs
<1>4. n \in Request
  BY <1>2, <1>3 DEF Request, GroupRow, States
<1>5. /\ n.user = q.user /\ n.group = q.group /\ n.role = q.role /\ n.row = q.row
      /\ n.stmt = "update" /\ n.ifMatch = q.ifMatch /\ n.obj = [q.row EXCEPT !.state = "confirmed", !.pid = p]
      /\ \A f \in Pendings : n[f] = q[f]
  BY <1>2 DEF Request, Pendings
<1>6. PendBumped(r, n)
  BY <1>1 DEF jobs
<1> HIDE DEF n
<1>12. Tidy(n)
  BY <1>2, <1>5 DEF Tidy, Only, Pendings
<1>7. /\ m.group = q.group /\ m.user = q.user /\ m.role = q.role /\ m.row = q.row
      /\ m.stmt = "update"
      /\ m.obj = [n.obj EXCEPT !.version = q.row.version + 1]
      /\ \A f \in Pendings : m[f] = n[f]
  BY <1>4, <1>5, PendedFields
<1> HIDE DEF m
<1>8. Only(m, {})
  BY <1>2, <1>5, <1>7 DEF Only
<1>o. m.obj = [Renewed(m.row) EXCEPT !.state = "confirmed", !.pid = p]
  <2>0. q.row \in GroupRow
    BY <1>2
  <2>1. m.obj = [[q.row EXCEPT !.state = "confirmed", !.pid = p] EXCEPT !.version = q.row.version + 1]
    BY <1>5, <1>7
  <2>2. [[q.row EXCEPT !.state = "confirmed", !.pid = p] EXCEPT !.version = q.row.version + 1]
           = [Renewed(q.row) EXCEPT !.state = "confirmed", !.pid = p]
    BY <2>0 DEF Renewed, GroupRow
  <2> QED
    BY <1>7, <2>1, <2>2
<1>9. WillSettle(m)
  <2>1. m.obj = [Renewed(m.row) EXCEPT !.state = "confirmed", !.pid = p]
    BY <1>o
  <2> QED
    BY <1>2, <1>g, <1>7, <1>8, <2>1 DEF WillSettle, Exists
<1> QED
  BY <1>1, <1>2, <1>4, <1>5, <1>6, <1>7, <1>9, <1>12, SoundDecision DEF Decided, m

\* unconfirm_group: a confirmed group.
LEMMA DecideReopen ==
    ASSUME OverlapInv, NEW r \in Requests, UnconfirmGroup(r)
    PROVE  Sound(r)'
<1> DEFINE q == req[r]
           del == {k \in Key : k[1] = q.row.pid /\ reminders[k] \in {"waiting", "locked"}}
           n == [q EXCEPT !.obj.state = "open", !.obj.pid = NoProposal, !.jobDel = del]
           m == [Bumped(n) EXCEPT !.phase = "ready"]
<1>1. q.phase = "loaded" /\ PendBumped(r, n)
  BY DEF UnconfirmGroup, AsOwner, AsMember, Caller
<1>g. q.row.state = "confirmed"
  BY DEF UnconfirmGroup, AsOwner, AsMember, Caller
<1>2. /\ q \in Request /\ q.group \in Groups /\ q.user \in Users /\ q.row \in GroupRow
      /\ q.obj = q.row /\ q.stmt = "update" /\ Exists(q.row) /\ Only(q, {})
      /\ q.ifMatch # 0 => q.ifMatch = q.row.version
  BY <1>1, LoadedSession
<1>3. del \in SUBSET Key
  BY <1>2
<1> HIDE DEF del
<1>4. n \in Request
  BY <1>2, <1>3 DEF Request, GroupRow, States
<1>5. /\ n.user = q.user /\ n.group = q.group /\ n.role = q.role /\ n.row = q.row
      /\ n.stmt = "update" /\ n.ifMatch = q.ifMatch /\ n.obj = [q.row EXCEPT !.state = "open", !.pid = NoProposal]
      /\ \A f \in Pendings : n[f] = q[f]
  BY <1>2 DEF Request, Pendings
<1>6. PendBumped(r, n)
  BY <1>1 DEF del
<1> HIDE DEF n
<1>12. Tidy(n)
  BY <1>2, <1>5 DEF Tidy, Only, Pendings
<1>7. /\ m.group = q.group /\ m.user = q.user /\ m.role = q.role /\ m.row = q.row
      /\ m.stmt = "update"
      /\ m.obj = [n.obj EXCEPT !.version = q.row.version + 1]
      /\ \A f \in Pendings : m[f] = n[f]
  BY <1>4, <1>5, PendedFields
<1> HIDE DEF m
<1>8. Only(m, {})
  BY <1>2, <1>5, <1>7 DEF Only
<1>o. m.obj = [Renewed(m.row) EXCEPT !.state = "open", !.pid = NoProposal]
  <2>0. q.row \in GroupRow
    BY <1>2
  <2>1. m.obj = [[q.row EXCEPT !.state = "open", !.pid = NoProposal] EXCEPT !.version = q.row.version + 1]
    BY <1>5, <1>7
  <2>2. [[q.row EXCEPT !.state = "open", !.pid = NoProposal] EXCEPT !.version = q.row.version + 1]
           = [Renewed(q.row) EXCEPT !.state = "open", !.pid = NoProposal]
    BY <2>0 DEF Renewed, GroupRow
  <2> QED
    BY <1>7, <2>1, <2>2
<1>9. WillReopen(m)
  <2>1. m.obj = [Renewed(m.row) EXCEPT !.state = "open", !.pid = NoProposal]
    BY <1>o
  <2> QED
    BY <1>2, <1>g, <1>7, <1>8, <2>1 DEF WillReopen
<1> QED
  BY <1>1, <1>2, <1>4, <1>5, <1>6, <1>7, <1>9, <1>12, SoundDecision DEF Decided, m

\* create_group: the row it inserts is new.
LEMMA DecideFound ==
    ASSUME OverlapInv, NEW r \in Requests, NEW u \in Users, NEW g \in Groups,
           CreateGroup(r, u, g)
    PROVE  Sound(r)'
<1> PICK w \in Windows :
       Pend(r, [Idle EXCEPT !.user = u, !.group = g, !.stmt = "insert",
                  !.obj = [BlankRow EXCEPT !.owner = u, !.state = "open",
                             !.window = w, !.version = 1],
                  !.memIns = {u}])
  BY DEF CreateGroup
<1> DEFINE o == [BlankRow EXCEPT !.owner = u, !.state = "open", !.window = w, !.version = 1]
           n == [Idle EXCEPT !.user = u, !.group = g, !.stmt = "insert", !.obj = o,
                  !.memIns = {u}]
           m == [n EXCEPT !.phase = "ready"]
<1>1. o = [owner |-> u, state |-> "open", pid |-> NoProposal, window |-> w,
           invite |-> 0, version |-> 1]
  <2>1. BlankRow \in GroupRow /\ BlankRow.pid = NoProposal /\ BlankRow.invite = 0
    BY BlankRowType DEF BlankRow
  <2>2. o \in GroupRow
    BY <2>1 DEF GroupRow, States
  <2>3. /\ o.owner = u /\ o.state = "open" /\ o.pid = NoProposal /\ o.window = w
        /\ o.invite = 0 /\ o.version = 1
    BY <2>1 DEF GroupRow
  <2> HIDE DEF o
  <2> QED
    BY <2>2, <2>3 DEF GroupRow
<1>2. groups[g].state = "absent"
  BY DEF CreateGroup
<1> HIDE DEF o
<1>3. /\ m.phase = "ready" /\ m.user = u /\ m.group = g /\ m.stmt = "insert" /\ m.obj = o
      /\ m.ifMatch = 0 /\ m.memIns = {u}
      /\ \A f \in Pendings \ {"memIns"} : m[f] = {}
  <2>1. /\ Idle \in Request /\ Idle.ifMatch = 0
        /\ \A f \in Pendings : Idle[f] = {}
    BY IdleType DEF Idle, Pendings
  <2> QED
    BY <2>1 DEF Request, Pendings
<1>4. /\ UNCHANGED tables /\ req' = [req EXCEPT ![r] = m] /\ req \in [Requests -> Request]
      /\ overtaken' = overtaken
  BY DEF Pend, OverlapInv, IInv, TypeOK, o
<1> HIDE DEF m
<1>5. WillFound(m)
  BY <1>1, <1>2, <1>3 DEF WillFound, Only
<1>6. FreshSession(m)
  BY <1>3, <1>5 DEF FreshSession, Decided
<1>7. Tidy(m)
  BY <1>1, <1>3 DEF Tidy, Only, Pendings
<1> QED
  BY <1>3, <1>4, <1>6, <1>7, SoundWritten

\* delete_group
LEMMA DecideDisband ==
    ASSUME OverlapInv, NEW r \in Requests, DeleteGroup(r)
    PROVE  Sound(r)'
<1> DEFINE q == req[r]
           m == [[q EXCEPT !.stmt = "delete"] EXCEPT !.phase = "ready"]
<1>1. q.phase = "loaded"
  BY DEF DeleteGroup, AsOwner, Caller
<1>2. /\ q \in Request /\ Only(q, {}) /\ (r \notin overtaken => Fresh(q))
      /\ q.ifMatch # 0 => q.ifMatch = q.row.version
  BY <1>1, LoadedSession
<1>3. /\ m.phase = "ready" /\ m.user = q.user /\ m.group = q.group /\ m.stmt = "delete"
      /\ m.row = q.row /\ m.role = q.role /\ m.ifMatch = q.ifMatch
      /\ \A f \in Pendings : m[f] = q[f]
  BY <1>2 DEF Request, Pendings
<1>4. /\ UNCHANGED tables /\ req' = [req EXCEPT ![r] = m] /\ req \in [Requests -> Request]
      /\ overtaken' = overtaken
  BY DEF DeleteGroup, Pend, OverlapInv, IInv, TypeOK
<1> HIDE DEF m
<1>5. WillDisband(m)
  BY <1>2, <1>3 DEF WillDisband, Only
<1>6. r \notin overtaken => FreshSession(m)
  BY <1>2, <1>3, <1>5 DEF FreshSession, Decided, Fresh
<1>7. Tidy(m)
  BY <1>2, <1>3 DEF Tidy, Only, Pendings
<1> QED
  BY <1>3, <1>4, <1>6, <1>7, SoundWritten

\* A session that loads reads the tables as they are.
LEMMA SoundLoad ==
    ASSUME OverlapInv, NEW r \in Requests, NEW u \in Users, NEW g \in Groups, Load(r, u, g)
    PROVE  Sound(r)'
<1> DEFINE m == [Idle EXCEPT !.phase = "loaded", !.user = u, !.group = g,
                   !.role = roles[g][u], !.row = groups[g], !.obj = groups[g]]
<1>1. /\ m.phase = "loaded" /\ m.user = u /\ m.group = g /\ m.role = roles[g][u]
      /\ m.row = groups[g] /\ m.obj = groups[g] /\ m.stmt = "update" /\ m.ifMatch = 0
      /\ \A f \in Pendings : m[f] = {}
  BY DEF Idle, Pendings
<1>2. /\ UNCHANGED tables /\ req' = [req EXCEPT ![r] = m] /\ req \in [Requests -> Request]
      /\ Exists(groups[g]) /\ overtaken' = overtaken
  BY DEF Load, OverlapInv, IInv, TypeOK
<1> HIDE DEF m
<1>3. FreshSession(m) /\ Only(m, {})
  BY <1>1, <1>2 DEF FreshSession, Fresh, Only
<1>4. Tidy(m)
  BY <1>1, <1>3 DEF Tidy, Only, Pendings
<1> QED
  BY <1>1, <1>2, <1>3, <1>4, SoundWritten

\* A closed session is as good as any, whatever the tables become.
LEMMA SoundClosed ==
    ASSUME NEW r \in Requests, req \in [Requests -> Request], Close(r)
    PROVE  Sound(r)'
<1>1. req'[r] = Idle /\ Idle.phase = "idle" /\ Idle.ifMatch = 0 /\ Idle.stmt = "update"
  BY DEF Close, Idle
<1>2. \A f \in Pendings : Idle[f] = {}
  BY DEF Idle, Pendings
<1>3. Tidy(Idle) /\ FreshSession(Idle)
  BY <1>1, <1>2 DEF Tidy, FreshSession, Pendings
<1>4. Tidy(req[r])' /\ FreshSession(req[r])'
  BY <1>1, <1>3 DEF Tidy, Only, FreshSession
<1> QED
  BY <1>1, <1>4 DEF Sound

\* A commit writes the rows of one group.
LEMMA CommitElsewhere ==
    ASSUME OverlapInv, NEW r \in Requests, Commit(r), NEW h \in Groups, h # req[r].group
    PROVE  GroupKept(h)
<1> DEFINE q == req[r]
           g == q.group
<1>1. TypeOK /\ g \in Groups /\ Tidy(q) /\ OwnRows(q)
  BY DEF OverlapInv, IInv, TypeOK, Request, Sound, SessionInv
<1>2. groups'[h] = groups[h] /\ roles'[h] = roles[h]
  BY <1>1 DEF Commit, TypeOK
<1>3. submitted'[h] = submitted[h] /\ avail'[h] = avail[h]
  BY <1>1 DEF Commit, TypeOK
<1>4. \A p \in Gone(q) \cup q.propIns : ProposalGroup[p] # h
  BY <1>1 DEF Gone, LiveProposals, OwnRows
<1>5. \A p \in Proposals : ProposalGroup[p] = h => proposals'[p] = proposals[p]
  BY <1>4 DEF Commit
<1>6. GroupVotes(h)' = GroupVotes(h)
  <2>1. votes' = {v \in votes :
                   /\ v[1] \notin Gone(q)
                   /\ <<v[1], v[2]>> \notin q.voteDel \cup Keys(q.voteUpd)}
                \cup q.voteIns \cup q.voteUpd
    BY DEF Commit
  <2>2. \A v \in q.voteIns \cup q.voteUpd : ProposalGroup[v[1]] # h
    BY <1>1 DEF Tidy
  <2>3. \A v : ProposalGroup[v[1]] = h => <<v[1], v[2]>> \notin q.voteDel \cup Keys(q.voteUpd)
    <3>1. \A v : <<v[1], v[2]>> \in q.voteDel => ProposalGroup[v[1]] = g
      BY <1>1 DEF Tidy
    <3>2. \A v : <<v[1], v[2]>> \in Keys(q.voteUpd) => ProposalGroup[v[1]] = g
      BY <1>1 DEF Tidy, Keys
    <3> QED
      BY <3>1, <3>2
  <2> HIDE DEF q, g
  <2> QED
    BY <1>4, <2>1, <2>2, <2>3 DEF GroupVotes
<1> QED
  BY <1>2, <1>3, <1>5, <1>6 DEF GroupKept

\* A step of one session leaves the others as they are: what they know stays true
\* unless a commit overtakes them.
LEMMA SoundOthers ==
    ASSUME OverlapInv, NEW r \in Requests, NEW s \in Requests, s # r,
           req'[s] = req[s],
           \/ UNCHANGED tables /\ overtaken' \in {overtaken, overtaken \ {r}}
           \/ Commit(r)
    PROVE  Sound(s)'
<1> DEFINE n == req[s]
<1>1. /\ TypeOK /\ n.group \in Groups /\ Tidy(n)
      /\ n.phase = "loaded" => n.stmt = "update" /\ n.obj = n.row /\ Only(n, {})
      /\ s \notin overtaken => FreshSession(n)
  BY DEF OverlapInv, IInv, TypeOK, Request, Sound
<1>2. ASSUME s \notin overtaken', n.phase # "idle" PROVE FreshSession(n) /\ GroupKept(n.group)
  <2>1. CASE UNCHANGED tables /\ overtaken' \in {overtaken, overtaken \ {r}}
    BY <1>1, <1>2, <2>1, TablesKept
  <2>2. CASE Commit(r)
    <3>1. s \notin overtaken /\ s \notin Others(r)
      BY <1>2, <2>2 DEF Commit
    <3>2. n.group # req[r].group
      BY <1>2, <3>1 DEF Others
    <3> QED
      BY <1>1, <2>2, <3>1, <3>2, CommitElsewhere
  <2> QED
    BY <2>1, <2>2
<1>3. ASSUME s \notin overtaken' PROVE FreshSession(req[s])'
  <2>1. CASE n.phase # "idle"
    <3>1. FreshSession(n) /\ GroupKept(n.group) /\ req'[s] = n
      BY <1>2, <1>3, <2>1
    <3> HIDE DEF n
    <3> QED
      BY <3>1, SessionFrame
  <2>2. CASE n.phase = "idle"
    BY <2>2 DEF FreshSession
  <2> QED
    BY <2>1, <2>2
<1>4. Tidy(req[s])'
  BY <1>1 DEF Tidy, Only
<1>5. (req[s].phase = "loaded" =>
         req[s].stmt = "update" /\ req[s].obj = req[s].row /\ Only(req[s], {}))'
  BY <1>1 DEF Only
<1> QED
  BY <1>3, <1>4, <1>5 DEF Sound

\* What a step does to the sessions: one case per action.
LEMMA SoundStep ==
    ASSUME OverlapInv, NEW r \in Requests, Step(r)
    PROVE  \A s \in Requests : Sound(s)'
<1>0. req \in [Requests -> Request]
  BY DEF OverlapInv, IInv, TypeOK
<1>1. /\ \A s \in Requests \ {r} : req'[s] = req[s]
      /\ \/ UNCHANGED tables /\ overtaken' \in {overtaken, overtaken \ {r}}
         \/ Commit(r)
  <2>1. CASE \E u \in Users, g \in Groups : Load(r, u, g) \/ CreateGroup(r, u, g)
    BY <1>0, <2>1 DEF Load, CreateGroup, Pend
  <2>2. CASE Finish(r) \/ Abort(r) \/ Commit(r)
    BY <1>0, <2>2 DEF Finish, Abort, Commit, Close
  <2>3. CASE \E w \in Windows, b, i \in BOOLEAN, m \in 0 .. MaxVersion : UpdateGroup(r, w, b, i, m)
    BY <1>0, <2>3 DEF UpdateGroup, PendBumped, Pend
  <2>4. CASE DeleteGroup(r) \/ UnconfirmGroup(r) \/ \E t \in 0 .. MaxRotations : JoinGroup(r, t)
    BY <1>0, <2>4 DEF DeleteGroup, UnconfirmGroup, JoinGroup, PendBumped, Pend
  <2>5. CASE \/ \E u \in Users : RemoveMember(r, u)
             \/ \E sel \in Selections : PutMyAvailability(r, sel)
    BY <1>0, <2>5 DEF RemoveMember, PutMyAvailability, PendBumped, Pend
  <2>6. CASE \E p \in Proposals :
             \/ CreateProposal(r, p) \/ DeleteProposal(r, p) \/ DeleteVote(r, p)
             \/ \E v \in VoteValues : PutVote(r, p, v)
             \/ \E b \in BOOLEAN : ConfirmGroup(r, p, b)
    BY <1>0, <2>6 DEF CreateProposal, DeleteProposal, DeleteVote, PutVote, ConfirmGroup,
       PendBumped, Pend
  <2> QED
    BY <2>1, <2>2, <2>3, <2>4, <2>5, <2>6 DEF Step
<1>2. Sound(r)'
  <2>2. CASE \E u \in Users, g \in Groups : Load(r, u, g) \/ CreateGroup(r, u, g)
    BY <2>2, SoundLoad, DecideFound
  <2>3. CASE Finish(r) \/ Abort(r) \/ Commit(r)
    BY <1>0, <2>3, SoundClosed DEF Finish, Abort, Commit
  <2>4. CASE \E w \in Windows, b, i \in BOOLEAN, m \in 0 .. MaxVersion : UpdateGroup(r, w, b, i, m)
    BY <2>4, DecideAmend
  <2>5. CASE DeleteGroup(r) \/ UnconfirmGroup(r)
    BY <2>5, DecideDisband, DecideReopen
  <2>6. CASE \E t \in 0 .. MaxRotations : JoinGroup(r, t)
    BY <2>6, DecideEnrol
  <2>7. CASE \E u \in Users : RemoveMember(r, u)
    BY <2>7, DecideExpel
  <2>8. CASE \E sel \in Selections : PutMyAvailability(r, sel)
    BY <2>8, DecideAnswer
  <2>9. CASE \E p \in Proposals :
             \/ CreateProposal(r, p) \/ DeleteProposal(r, p) \/ DeleteVote(r, p)
             \/ \E v \in VoteValues : PutVote(r, p, v)
             \/ \E b \in BOOLEAN : ConfirmGroup(r, p, b)
    BY <2>9, DecideOffer, DecideRetract, DecideUnvote, DecideCast, DecideSettle
  <2> QED
    BY <2>2, <2>3, <2>4, <2>5, <2>6, <2>7, <2>8, <2>9 DEF Step
<1> QED
  BY <1>1, <1>2, SoundOthers

-----------------------------------------------------------------------------
(* Commits: what the flush makes of the tables.                            *)

\* On the row it read, the flush writes the row the session holds.
LEMMA FlushedFresh ==
    ASSUME NEW a \in GroupRow, NEW b \in GroupRow, b.owner = a.owner
    PROVE  Flushed(a, a, b) = b
BY DEF Flushed, GroupRow

\* What a commit does to each table, when the row it loaded is the row stored.
LEMMA CommitTables ==
    ASSUME OverlapInv, NEW r \in Requests, r \notin overtaken, Commit(r),
           req[r].stmt # "delete"
    PROVE  LET q == req[r]
               g == q.group
           IN /\ q \in Request /\ g \in Groups /\ q.user \in Users
              /\ q.stmt = "insert" => WillFound(q)
              /\ q.stmt = "update" => Decided(q) /\ Fresh(q) /\ q.row \in GroupRow
              /\ q.stmt = "insert" \/ q.obj.owner = q.row.owner
                    => groups' = [groups EXCEPT ![g] = q.obj]
              /\ roles' = [roles EXCEPT ![g] = NewRoles(q)]
              /\ submitted' = [submitted EXCEPT ![g] = (@ \ q.memDel) \cup q.submit]
              /\ avail' = [avail EXCEPT ![g] =
                   {a \in @ : <<a[1], a[2]>> \notin q.avDel} \cup q.avIns]
              /\ proposals' = [p \in Proposals |->
                   IF p \in q.propDel THEN "deleted"
                   ELSE IF p \in q.propIns THEN "live" ELSE proposals[p]]
              /\ votes' = {v \in votes :
                   /\ v[1] \notin q.propDel
                   /\ <<v[1], v[2]>> \notin q.voteDel \cup Keys(q.voteUpd)}
                   \cup q.voteIns \cup q.voteUpd
<1> DEFINE q == req[r]
           g == q.group
<1>1. /\ q \in Request /\ g \in Groups /\ q.user \in Users /\ q.obj \in GroupRow
      /\ q.row \in GroupRow /\ q.stmt \in {"insert", "update", "delete"}
  BY DEF OverlapInv, IInv, TypeOK, Request
<1>2. q.phase = "ready" /\ Decided(q) /\ (q.stmt = "update" => Fresh(q))
  BY DEF Commit, OverlapInv, Sound, FreshSession
<1>3. q.stmt = "insert" => WillFound(q)
  BY <1>2 DEF Decided, WillDisband
<1>4. ASSUME q.stmt = "insert" \/ q.obj.owner = q.row.owner
      PROVE  groups' = [groups EXCEPT ![g] = q.obj]
  <2>1. CASE q.stmt = "insert"
    BY <2>1 DEF Commit
  <2>2. CASE q.stmt = "update" /\ q.obj.owner = q.row.owner
    <3>1. Flushed(groups[g], q.row, q.obj) = q.obj
      BY <1>1, <1>2, <2>2, FlushedFresh DEF Fresh
    <3>2. groups' = [groups EXCEPT ![g] = Flushed(groups[g], q.row, q.obj)]
      BY <2>2 DEF Commit
    <3> QED
      BY <3>1, <3>2
  <2> QED
    BY <1>1, <1>4, <2>1, <2>2
<1>5. roles' = [roles EXCEPT ![g] = NewRoles(q)]
  BY DEF Commit
<1>6. submitted' = [submitted EXCEPT ![g] = (@ \ q.memDel) \cup q.submit]
  BY DEF Commit
<1>7. avail' = [avail EXCEPT ![g] = {a \in @ : <<a[1], a[2]>> \notin q.avDel} \cup q.avIns]
  BY DEF Commit
<1>8. Gone(q) = q.propDel
  BY DEF Gone
<1>9. proposals' = [p \in Proposals |->
                   IF p \in q.propDel THEN "deleted"
                   ELSE IF p \in q.propIns THEN "live" ELSE proposals[p]]
  BY <1>8 DEF Commit
<1>10. votes' = {v \in votes :
                   /\ v[1] \notin q.propDel
                   /\ <<v[1], v[2]>> \notin q.voteDel \cup Keys(q.voteUpd)}
                   \cup q.voteIns \cup q.voteUpd
  BY <1>8 DEF Commit
<1> HIDE DEF q, g
<1> QED
  BY <1>1, <1>2, <1>3, <1>4, <1>5, <1>6, <1>7, <1>9, <1>10 DEF q, g

\* What a commit leaves alone when the session has nothing pending for it.
LEMMA CommitKeeps ==
    ASSUME OverlapInv, NEW r \in Requests, r \notin overtaken, Commit(r),
           req[r].stmt # "delete"
    PROVE  LET q == req[r]
           IN /\ q.memIns = {} /\ q.memDel = {} => roles' = roles
              /\ q.memDel = {} /\ q.submit = {} => submitted' = submitted
              /\ q.avDel = {} /\ q.avIns = {} => avail' = avail
              /\ q.propDel = {} /\ q.propIns = {} => proposals' = proposals
              /\ q.propDel = {} => votes' = VotesLeft(q, votes)
              /\ q.propDel = {} /\ q.voteDel = {} /\ q.voteUpd = {} /\ q.voteIns = {}
                    => votes' = votes
<1> DEFINE q == req[r]
           g == q.group
<1>1. /\ g \in Groups
      /\ roles' = [roles EXCEPT ![g] = NewRoles(q)]
      /\ submitted' = [submitted EXCEPT ![g] = (@ \ q.memDel) \cup q.submit]
      /\ avail' = [avail EXCEPT ![g] = {a \in @ : <<a[1], a[2]>> \notin q.avDel} \cup q.avIns]
      /\ proposals' = [p \in Proposals |->
                   IF p \in q.propDel THEN "deleted"
                   ELSE IF p \in q.propIns THEN "live" ELSE proposals[p]]
      /\ votes' = {v \in votes :
                   /\ v[1] \notin q.propDel
                   /\ <<v[1], v[2]>> \notin q.voteDel \cup Keys(q.voteUpd)}
                   \cup q.voteIns \cup q.voteUpd
  BY CommitTables
<1>2. TypeOK
  BY DEF OverlapInv, IInv
<1> HIDE DEF q, g
<1>3. ASSUME q.memIns = {}, q.memDel = {} PROVE roles' = roles
  <2>1. roles[g] \in [Users -> Roles]
    BY <1>1, <1>2 DEF TypeOK
  <2>2. NewRoles(q) = roles[g]
    BY <1>3, <2>1 DEF NewRoles, q, g
  <2> QED
    BY <1>1, <1>2, <2>2 DEF TypeOK
<1>4. ASSUME q.memDel = {}, q.submit = {} PROVE submitted' = submitted
  BY <1>1, <1>2, <1>4 DEF TypeOK
<1>5. ASSUME q.avDel = {}, q.avIns = {} PROVE avail' = avail
  BY <1>1, <1>2, <1>5 DEF TypeOK
<1>6. ASSUME q.propDel = {}, q.propIns = {} PROVE proposals' = proposals
  BY <1>1, <1>2, <1>6 DEF TypeOK
<1>7. ASSUME q.propDel = {} PROVE votes' = VotesLeft(q, votes)
  BY <1>1, <1>7 DEF VotesLeft
<1>8. ASSUME q.propDel = {}, q.voteDel = {}, q.voteUpd = {}, q.voteIns = {} PROVE votes' = votes
  BY <1>1, <1>8 DEF Keys
<1> QED
  BY <1>3, <1>4, <1>5, <1>6, <1>7, <1>8 DEF q

-----------------------------------------------------------------------------
(* Refinement: each commit is the step of the contract its session decided *)
(* on.                                                                     *)

\* The contract and the services speak of the same members, proposals and groups.
LEMMA SameWords ==
    ASSUME NEW g \in Groups
    PROVE  /\ Contract!Members(g) = Members(g) /\ Contract!Offered(g) = LiveProposals(g)
           /\ Contract!Known(g) <=> Exists(groups[g])
           /\ Contract!Open(g) <=> groups[g].state = "open"
           /\ Contract!Confirmed(g) <=> groups[g].state = "confirmed"
BY DEF Contract!Members, Members, Contract!Offered, LiveProposals, Contract!Known, Exists,
       Contract!Open, Contract!Confirmed

\* The contract counts with its own instance of FiniteSets.
LEMMA SameCount == ASSUME NEW S PROVE Contract!Cardinality(S) = Cardinality(S)
BY DEF Contract!Cardinality, Cardinality

\* The keys of rows are the first two columns.
LEMMA KeyOfRow ==
    ASSUME NEW S, NEW x, NEW y
    PROVE  <<x, y>> \in Keys(S) <=> \E a \in S : a[1] = x /\ a[2] = y
BY DEF Keys

\* The row of a session that only renews it is the contract's next row.
LEMMA CommitBumps ==
    ASSUME OverlapInv, NEW r \in Requests, r \notin overtaken, Commit(r),
           req[r].stmt = "update",
           req[r].obj = Renewed(req[r].row)
    PROVE  Contract!Bump(req[r].group, groups[req[r].group])
<1> DEFINE q == req[r]
           g == q.group
<1>1. q.row \in GroupRow /\ q.row = groups[g]
  BY CommitTables DEF Fresh
<1>2. q.obj.owner = q.row.owner
  BY <1>1 DEF Renewed, GroupRow
<1>3. groups' = [groups EXCEPT ![g] = q.obj]
  BY <1>2, CommitTables
<1> QED
  BY <1>1, <1>3 DEF Contract!Bump, Renewed

\* A commit that inserts a group founds it.
LEMMA FoundStep ==
    ASSUME OverlapInv, NEW r \in Requests, r \notin overtaken, Commit(r),
           req[r].stmt = "insert"
    PROVE  Contract!Found(req[r].group)
<1> DEFINE q == req[r]
           g == q.group
           u == q.user
<1>1. /\ g \in Groups /\ u \in Users /\ WillFound(q)
      /\ groups' = [groups EXCEPT ![g] = q.obj]
      /\ roles' = [roles EXCEPT ![g] = NewRoles(q)]
  BY CommitTables
<1>2. /\ q.memIns = {u} /\ q.memDel = {} /\ q.submit = {} /\ q.avIns = {} /\ q.avDel = {}
      /\ q.propIns = {} /\ q.propDel = {} /\ q.voteIns = {} /\ q.voteUpd = {}
      /\ q.voteDel = {} /\ groups[g].state = "absent"
  BY <1>1 DEF WillFound, Only, Pendings
<1>3. UNCHANGED <<submitted, avail, proposals, votes>>
  BY <1>2, CommitKeeps
<1>4. roles' = [roles EXCEPT ![g][u] = "owner"]
  <2>1. TypeOK
    BY DEF OverlapInv, IInv
  <2>2. roles[g] \in [Users -> Roles]
    BY <1>1, <2>1 DEF TypeOK
  <2>3. NewRoles(q) = [roles[g] EXCEPT ![u] = "owner"]
    BY <1>2, <2>2 DEF NewRoles
  <2> QED
    BY <1>1, <2>3
<1>5. PICK w \in Windows :
        q.obj = [owner |-> u, state |-> "open", pid |-> NoProposal,
                 window |-> w, invite |-> 0, version |-> 1]
  BY <1>1 DEF WillFound
<1> HIDE DEF q, u, g
<1>6. /\ groups' = [groups EXCEPT ![g] =
           [owner |-> u, state |-> "open", pid |-> NoProposal, window |-> w,
            invite |-> 0, version |-> 1]]
      /\ groups[g].state = "absent"
  BY <1>1, <1>2, <1>5
<1>7. Contract!Found(g)
  BY <1>1, <1>3, <1>4, <1>6, Zenon DEF Contract!Found
<1> QED
  BY <1>7 DEF q, g

\* A commit of update_group amends the group as the contract says.
LEMMA AmendStep ==
    ASSUME OverlapInv, NEW r \in Requests, r \notin overtaken, Commit(r),
           req[r].stmt = "update",
           WillAmend(req[r])
    PROVE  Contract!Amend(req[r].group)
<1> DEFINE q == req[r]
           g == q.group
<1>1. PICK w \in Windows, i \in {q.row.invite, q.row.invite + 1} :
        /\ q.obj = [Renewed(q.row) EXCEPT !.window = w, !.invite = i]
        /\ \/ q.avDel = Keys({a \in avail[g] : a[2] \notin w})
           \/ w = q.row.window /\ q.avDel = {}
        /\ Only(q, {"avDel"})
  BY DEF WillAmend
<1>2. /\ q.row \in GroupRow /\ q.row = groups[g] /\ g \in Groups /\ Exists(groups[g])
  BY CommitTables DEF Fresh
<1>3. groups' = [groups EXCEPT ![g] = q.obj]
  <2>1. q.obj.owner = q.row.owner
    BY <1>1, <1>2 DEF Renewed, GroupRow
  <2> QED
    BY <2>1, CommitTables
<1>4. Contract!Bump(g, [groups[g] EXCEPT !.window = w, !.invite = i])
  <2>1. [[q.row EXCEPT !.window = w, !.invite = i] EXCEPT !.version = q.row.version + 1]
          = [Renewed(q.row) EXCEPT !.window = w, !.invite = i]
    BY <1>2 DEF Renewed, GroupRow
  <2> QED
    BY <1>1, <1>2, <1>3, <2>1 DEF Contract!Bump
<1>5. /\ q.memIns = {} /\ q.memDel = {} /\ q.submit = {} /\ q.avIns = {}
      /\ q.propIns = {} /\ q.propDel = {} /\ q.voteIns = {} /\ q.voteUpd = {}
      /\ q.voteDel = {}
  BY <1>1 DEF Only, Pendings
<1>6. UNCHANGED <<roles, submitted, proposals, votes>>
  BY <1>5, CommitKeeps
<1>7. \/ avail' = [avail EXCEPT ![g] = {a \in @ : a[2] \in w}]
      \/ w = groups[g].window /\ UNCHANGED avail
  <2>1. CASE q.avDel = Keys({a \in avail[g] : a[2] \notin w})
    <3>1. {a \in avail[g] : <<a[1], a[2]>> \notin q.avDel} \cup q.avIns
            = {a \in avail[g] : a[2] \in w}
      BY <1>5, <2>1, KeyOfRow
    <3> QED
      BY <3>1, CommitTables
  <2>2. CASE w = q.row.window /\ q.avDel = {}
    BY <1>2, <1>5, <2>2, CommitKeeps
  <2> QED
    BY <1>1, <2>1, <2>2
<1>8. i \in {groups[g].invite, groups[g].invite + 1} /\ Contract!Known(g)
  BY <1>2, SameWords
<1> HIDE DEF q, g
<1>9. Contract!Amend(g)
  BY <1>4, <1>6, <1>7, <1>8, Zenon DEF Contract!Amend
<1> QED
  BY <1>9 DEF q, g

\* A commit that deletes the group takes all its rows along.
LEMMA DisbandStep ==
    ASSUME OverlapInv, NEW r \in Requests, r \notin overtaken, Commit(r),
           req[r].stmt = "delete"
    PROVE  Contract!Disband(req[r].group)
<1> DEFINE q == req[r]
           g == q.group
           dead == [BlankRow EXCEPT !.state = "deleted"]
<1>1. q \in Request /\ g \in Groups /\ q.phase = "ready" /\ Fresh(q) /\ Decided(q)
  BY DEF Commit, OverlapInv, Sound, FreshSession, IInv, TypeOK, Request
<1>2. Only(q, {})
  BY <1>1 DEF Decided, WillFound, WillDisband
<1>3. /\ q.propIns = {} /\ q.voteIns = {} /\ q.voteUpd = {} /\ q.voteDel = {}
  BY <1>2 DEF Only, Pendings
<1>4. TypeOK /\ VotesOnLive
  BY DEF OverlapInv, IInv
<1>5. Gone(q) = LiveProposals(g)
  BY DEF Gone
<1>6. groups' = [groups EXCEPT ![g] = dead] /\ dead.state = "deleted"
  BY DEF Commit, BlankRow
<1> HIDE DEF dead
<1>7. groups'[g].state = "deleted" /\ groups' = [groups EXCEPT ![g] = groups'[g]]
  BY <1>1, <1>4, <1>6 DEF TypeOK
<1>8. roles' = [roles EXCEPT ![g] = [u \in Users |-> "none"]]
  BY DEF Commit, NewRoles
<1>9. submitted' = [submitted EXCEPT ![g] = {}] /\ avail' = [avail EXCEPT ![g] = {}]
  BY DEF Commit
<1>10. proposals' = [p \in Proposals |->
          IF p \in Contract!Offered(g) THEN "deleted" ELSE proposals[p]]
  BY <1>1, <1>3, <1>5, SameWords DEF Commit
<1>11. votes' = {v \in votes : ProposalGroup[v[1]] # g}
  <2>1. votes' = {v \in votes : v[1] \notin LiveProposals(g)}
    BY <1>3, <1>5 DEF Commit, Keys
  <2>2. \A v \in votes : v[1] \in LiveProposals(g) <=> ProposalGroup[v[1]] = g
    BY <1>4 DEF TypeOK, VotesOnLive, LiveProposals, VoteRow
  <2> QED
    BY <2>1, <2>2
<1>12. Contract!Known(g)
  BY <1>1, SameWords DEF Fresh
<1> QED
  BY <1>7, <1>8, <1>9, <1>10, <1>11, <1>12 DEF Contract!Disband

\* A commit of join_group enrols its user, within the limit.
LEMMA EnrolStep ==
    ASSUME OverlapInv, NEW r \in Requests, r \notin overtaken, Commit(r),
           req[r].stmt = "update",
           WillEnrol(req[r])
    PROVE  Contract!Enrol(req[r].group)
<1> DEFINE q == req[r]
           g == q.group
           u == q.user
<1>1. /\ g \in Groups /\ u \in Users /\ Fresh(q)
      /\ roles' = [roles EXCEPT ![g] = NewRoles(q)]
  BY CommitTables
<1>2. /\ q.memIns = {u} /\ q.memDel = {} /\ q.submit = {} /\ q.avIns = {} /\ q.avDel = {}
      /\ q.propIns = {} /\ q.propDel = {} /\ q.voteIns = {} /\ q.voteUpd = {}
      /\ q.voteDel = {} /\ roles[g][u] = "none" /\ Cardinality(Members(g)) < MaxMembers
  BY DEF WillEnrol, Only, Pendings
<1>3. UNCHANGED <<submitted, avail, proposals, votes>>
  BY <1>2, CommitKeeps
<1>4. Contract!Bump(g, groups[g])
  BY CommitBumps DEF WillEnrol
<1>5. roles' = [roles EXCEPT ![g][u] = "member"]
  <2>1. roles[g] \in [Users -> Roles]
    BY <1>1 DEF OverlapInv, IInv, TypeOK
  <2>2. NewRoles(q) = [roles[g] EXCEPT ![u] = "member"]
    BY <1>2, <2>1 DEF NewRoles
  <2> QED
    BY <1>1, <2>2
<1>6. /\ Contract!Known(g) /\ u \in Users \ Contract!Members(g)
      /\ Contract!Cardinality(Contract!Members(g)) < MaxMembers
  BY <1>1, <1>2, SameWords, SameCount DEF Fresh, Members
<1> HIDE DEF q, g, u
<1>7. Contract!Enrol(g)
  BY <1>3, <1>4, <1>5, <1>6, Zenon DEF Contract!Enrol
<1> QED
  BY <1>7 DEF q, g

\* A commit of remove_member takes the member's rows along.
LEMMA ExpelStep ==
    ASSUME OverlapInv, NEW r \in Requests, r \notin overtaken, Commit(r),
           req[r].stmt = "update",
           WillExpel(req[r])
    PROVE  Contract!Expel(req[r].group)
<1> DEFINE q == req[r]
           g == q.group
<1>1. PICK u \in Users :
        /\ q.obj = Renewed(q.row)
        /\ roles[q.group][u] = "member"
        /\ q.memDel = {u}
        /\ q.avDel = Keys({a \in avail[q.group] : a[1] = u})
        /\ q.voteDel = Keys({v \in GroupVotes(q.group) : v[2] = u})
        /\ Only(q, {"memDel", "avDel", "voteDel"})
  BY DEF WillExpel
<1>2. /\ g \in Groups /\ Fresh(q)
      /\ roles' = [roles EXCEPT ![g] = NewRoles(q)]
      /\ submitted' = [submitted EXCEPT ![g] = (@ \ q.memDel) \cup q.submit]
      /\ avail' = [avail EXCEPT ![g] = {a \in @ : <<a[1], a[2]>> \notin q.avDel} \cup q.avIns]
  BY CommitTables
<1>3. /\ q.memIns = {} /\ q.submit = {} /\ q.avIns = {}
      /\ q.propIns = {} /\ q.propDel = {} /\ q.voteIns = {} /\ q.voteUpd = {}
  BY <1>1 DEF Only, Pendings
<1>4. UNCHANGED proposals /\ votes' = VotesLeft(q, votes)
  BY <1>3, CommitKeeps
<1>5. Contract!Bump(g, groups[g])
  BY <1>1, CommitBumps
<1>6. roles' = [roles EXCEPT ![g][u] = "none"]
  <2>1. roles[g] \in [Users -> Roles]
    BY <1>2 DEF OverlapInv, IInv, TypeOK
  <2>2. NewRoles(q) = [roles[g] EXCEPT ![u] = "none"]
    BY <1>1, <1>3, <2>1 DEF NewRoles
  <2> QED
    BY <1>2, <2>2
<1>7. submitted' = [submitted EXCEPT ![g] = @ \ {u}]
  BY <1>1, <1>2, <1>3
<1>8. avail' = [avail EXCEPT ![g] = {a \in @ : a[1] # u}]
  <2>1. {a \in avail[g] : <<a[1], a[2]>> \notin q.avDel} \cup q.avIns
          = {a \in avail[g] : a[1] # u}
    BY <1>1, <1>3, KeyOfRow
  <2> QED
    BY <1>2, <2>1
<1>9. votes' = {v \in votes : ~(v[2] = u /\ ProposalGroup[v[1]] = g)}
  <2>1. votes' = {v \in votes : <<v[1], v[2]>> \notin q.voteDel}
    BY <1>3, <1>4 DEF VotesLeft, Keys
  <2>2. \A v \in votes : <<v[1], v[2]>> \in q.voteDel <=> v[2] = u /\ ProposalGroup[v[1]] = g
    BY <1>1, KeyOfRow DEF GroupVotes
  <2> QED
    BY <2>1, <2>2
<1>10. /\ Contract!Known(g) /\ Contract!Members(g) = Members(g)
       /\ u \in Members(g) /\ u # groups[g].owner
  BY <1>1, <1>2, SameWords DEF Fresh, Members, OverlapInv, IInv, OneOwner
<1> HIDE DEF q, g
<1>11. Contract!Expel(g)
  BY <1>4, <1>5, <1>6, <1>7, <1>8, <1>9, <1>10 DEF Contract!Expel
<1> QED
  BY <1>11 DEF q, g

\* A commit of put_my_availability replaces the user's slots, inside the window.
LEMMA AnswerStep ==
    ASSUME OverlapInv, NEW r \in Requests, r \notin overtaken, Commit(r),
           req[r].stmt = "update",
           WillAnswer(req[r])
    PROVE  Contract!Answer(req[r].group)
<1> DEFINE q == req[r]
           g == q.group
           u == q.user
<1>1. /\ g \in Groups /\ u \in Users /\ Fresh(q)
      /\ submitted' = [submitted EXCEPT ![g] = (@ \ q.memDel) \cup q.submit]
      /\ avail' = [avail EXCEPT ![g] = {a \in @ : <<a[1], a[2]>> \notin q.avDel} \cup q.avIns]
  BY CommitTables
<1>2. /\ q.memIns = {} /\ q.memDel = {} /\ q.submit = {u}
      /\ q.propIns = {} /\ q.propDel = {} /\ q.voteIns = {} /\ q.voteUpd = {}
      /\ q.voteDel = {} /\ roles[g][u] # "none" /\ q.row.state = "open"
      /\ q.avDel = Keys({a \in avail[g] : a[1] = u})
  BY <1>1 DEF WillAnswer, Only, Pendings, Fresh
<1>3. UNCHANGED <<roles, proposals, votes>>
  BY <1>2, CommitKeeps
<1>4. Contract!Bump(g, groups[g])
  BY CommitBumps DEF WillAnswer
<1>5. TypeOK
  BY DEF OverlapInv, IInv
<1>6. submitted' = [submitted EXCEPT ![g] = @ \cup {u}]
  BY <1>1, <1>2
<1>7. avail'[g] = {a \in avail[g] : a[1] # u} \cup q.avIns
  <2>1. avail'[g] = {a \in avail[g] : <<a[1], a[2]>> \notin q.avDel} \cup q.avIns
    BY <1>1, <1>5 DEF TypeOK
  <2> QED
    BY <1>2, <2>1, KeyOfRow
<1>8. \A a \in q.avIns : /\ a[1] = u /\ a[2] \in groups[g].window
                         /\ \A b \in q.avIns : b[2] = a[2] => b = a
  BY <1>1 DEF WillAnswer, Fresh
<1>9. avail' = [avail EXCEPT ![g] = avail'[g]]
  BY <1>1, <1>5 DEF TypeOK
<1>10. Contract!Open(g) /\ u \in Contract!Members(g)
  BY <1>1, <1>2, SameWords DEF Fresh, Members
<1> HIDE DEF q, g, u
<1>11. /\ {a \in avail'[g] : a[1] # u} = {a \in avail[g] : a[1] # u}
       /\ \A a \in avail'[g] : a[1] = u =>
            /\ a[2] \in groups[g].window
            /\ \A b \in avail'[g] : b[1] = u /\ b[2] = a[2] => b = a
  BY <1>7, <1>8
<1>12. Contract!Answer(g)
  BY <1>3, <1>4, <1>6, <1>9, <1>10, <1>11, Zenon DEF Contract!Answer
<1> QED
  BY <1>12 DEF q, g

\* A commit of create_proposal adds one proposal, within the limit.
LEMMA OfferStep ==
    ASSUME OverlapInv, NEW r \in Requests, r \notin overtaken, Commit(r),
           req[r].stmt = "update",
           WillOffer(req[r])
    PROVE  Contract!Offer(req[r].group)
<1> DEFINE q == req[r]
           g == q.group
<1>1. PICK p \in Proposals :
        /\ q.row.state = "open" /\ q.obj = Renewed(q.row)
        /\ ProposalGroup[p] = g /\ proposals[p] = "unused"
        /\ Span[p] \subseteq q.row.window
        /\ Cardinality(LiveProposals(g)) < MaxProposals
        /\ q.propIns = {p} /\ Only(q, {"propIns"})
  BY DEF WillOffer
<1>2. /\ g \in Groups /\ Fresh(q)
      /\ proposals' = [x \in Proposals |->
           IF x \in q.propDel THEN "deleted"
           ELSE IF x \in q.propIns THEN "live" ELSE proposals[x]]
  BY CommitTables
<1>3. /\ q.memIns = {} /\ q.memDel = {} /\ q.submit = {} /\ q.avIns = {} /\ q.avDel = {}
      /\ q.propDel = {} /\ q.voteIns = {} /\ q.voteUpd = {} /\ q.voteDel = {}
  BY <1>1 DEF Only, Pendings
<1>4. UNCHANGED <<roles, submitted, avail, votes>>
  BY <1>3, CommitKeeps
<1>5. Contract!Bump(g, groups[g])
  BY <1>1, CommitBumps
<1>6. proposals' = [proposals EXCEPT ![p] = "live"]
  BY <1>1, <1>2, <1>3 DEF OverlapInv, IInv, TypeOK
<1>7. /\ Contract!Open(g) /\ Contract!Cardinality(Contract!Offered(g)) < MaxProposals
      /\ Span[p] \subseteq groups[g].window
  BY <1>1, <1>2, SameWords, SameCount DEF Fresh
<1> HIDE DEF q, g
<1>8. Contract!Offer(g)
  BY <1>1, <1>4, <1>5, <1>6, <1>7, Zenon DEF Contract!Offer
<1> QED
  BY <1>8 DEF q, g

\* A commit of delete_proposal withdraws it and its votes, from an open group.
LEMMA RetractStep ==
    ASSUME OverlapInv, NEW r \in Requests, r \notin overtaken, Commit(r),
           req[r].stmt = "update",
           WillRetract(req[r])
    PROVE  Contract!Retract(req[r].group)
<1> DEFINE q == req[r]
           g == q.group
<1>1. PICK p \in LiveProposals(g) :
        /\ q.row.state = "open" /\ q.obj = Renewed(q.row)
        /\ q.propDel = {p} /\ Only(q, {"propDel"})
  BY DEF WillRetract
<1>2. /\ g \in Groups /\ Fresh(q)
      /\ proposals' = [x \in Proposals |->
           IF x \in q.propDel THEN "deleted"
           ELSE IF x \in q.propIns THEN "live" ELSE proposals[x]]
      /\ votes' = {v \in votes :
           /\ v[1] \notin q.propDel
           /\ <<v[1], v[2]>> \notin q.voteDel \cup Keys(q.voteUpd)}
           \cup q.voteIns \cup q.voteUpd
  BY CommitTables
<1>3. /\ q.memIns = {} /\ q.memDel = {} /\ q.submit = {} /\ q.avIns = {} /\ q.avDel = {}
      /\ q.propIns = {} /\ q.voteIns = {} /\ q.voteUpd = {} /\ q.voteDel = {}
  BY <1>1 DEF Only, Pendings
<1>4. UNCHANGED <<roles, submitted, avail>>
  BY <1>3, CommitKeeps
<1>5. Contract!Bump(g, groups[g])
  BY <1>1, CommitBumps
<1>6. proposals' = [proposals EXCEPT ![p] = "deleted"]
  BY <1>1, <1>2, <1>3 DEF OverlapInv, IInv, TypeOK, LiveProposals
<1>7. votes' = {v \in votes : v[1] # p}
  BY <1>1, <1>2, <1>3 DEF Keys
<1>8. Contract!Open(g) /\ p \in Contract!Offered(g)
  BY <1>1, <1>2, SameWords DEF Fresh
<1> HIDE DEF q, g
<1>9. Contract!Retract(g)
  BY <1>4, <1>5, <1>6, <1>7, <1>8, Zenon DEF Contract!Retract
<1> QED
  BY <1>9 DEF q, g

\* A commit of put_vote or delete_vote changes the user's own vote.
LEMMA CastStep ==
    ASSUME OverlapInv, NEW r \in Requests, r \notin overtaken, Commit(r),
           req[r].stmt = "update",
           WillCast(req[r])
    PROVE  Contract!CastVote(req[r].group)
<1> DEFINE q == req[r]
           g == q.group
           u == q.user
<1>1. PICK p \in LiveProposals(g) :
        /\ q.row.state = "open" /\ q.obj = Renewed(q.row)
        /\ q.role # "none"
        /\ \/ VotesLeft(q, GroupVotes(g)) = OtherVotes(GroupVotes(g), p, u)
           \/ \E x \in VoteValues :
                VotesLeft(q, GroupVotes(g)) = OtherVotes(GroupVotes(g), p, u) \cup {<<p, u, x>>}
        /\ Only(q, {"voteIns", "voteUpd", "voteDel"})
  BY DEF WillCast
<1>2. g \in Groups /\ u \in Users /\ Fresh(q)
  BY CommitTables
<1>3. /\ q.memIns = {} /\ q.memDel = {} /\ q.submit = {} /\ q.avIns = {} /\ q.avDel = {}
      /\ q.propIns = {} /\ q.propDel = {}
  BY <1>1 DEF Only, Pendings
<1>4. UNCHANGED <<roles, submitted, avail, proposals>> /\ votes' = VotesLeft(q, votes)
  BY <1>3, CommitKeeps
<1>5. Contract!Bump(g, groups[g])
  BY <1>1, CommitBumps
<1>6. Contract!Open(g) /\ p \in Contract!Offered(g) /\ u \in Contract!Members(g)
  BY <1>1, <1>2, SameWords DEF Fresh, Members
<1>7. votes' = VotesLeft(q, GroupVotes(g)) \cup (votes \ GroupVotes(g))
  <2>1. Tidy(q)
    BY DEF OverlapInv, Sound
  <2>2. \A v \in votes \ GroupVotes(g) : <<v[1], v[2]>> \notin q.voteDel \cup Keys(q.voteUpd)
    <3>1. \A v : <<v[1], v[2]>> \in q.voteDel => ProposalGroup[v[1]] = g
      BY <2>1 DEF Tidy
    <3>2. \A v : <<v[1], v[2]>> \in Keys(q.voteUpd) => ProposalGroup[v[1]] = g
      BY <2>1 DEF Tidy, Keys
    <3> QED
      BY <3>1, <3>2 DEF GroupVotes
  <2> HIDE DEF q, g
  <2> QED
    BY <1>4, <2>2 DEF VotesLeft, GroupVotes
<1>8. OtherVotes(votes, p, u) = OtherVotes(GroupVotes(g), p, u) \cup (votes \ GroupVotes(g))
  BY DEF OtherVotes, GroupVotes, LiveProposals
<1> HIDE DEF q, g, u
<1>9. \/ votes' = OtherVotes(votes, p, u)
      \/ \E x \in VoteValues : votes' = OtherVotes(votes, p, u) \cup {<<p, u, x>>}
  BY <1>1, <1>7, <1>8
<1>10. votes' \in {OtherVotes(votes, p, u)}
                    \cup {OtherVotes(votes, p, u) \cup {<<p, u, x>>} : x \in VoteValues}
  BY <1>9
<1>11. Contract!CastVote(g)
  BY <1>4, <1>5, <1>6, <1>10 DEF Contract!CastVote, OtherVotes
<1> QED
  BY <1>11 DEF q, g

\* A commit of confirm_group confirms a live proposal.
LEMMA SettleStep ==
    ASSUME OverlapInv, NEW r \in Requests, r \notin overtaken, Commit(r),
           req[r].stmt = "update",
           WillSettle(req[r])
    PROVE  Contract!Settle(req[r].group)
<1> DEFINE q == req[r]
           g == q.group
<1>1. PICK p \in LiveProposals(g) :
        /\ q.row.state = "open"
        /\ q.obj = [Renewed(q.row) EXCEPT !.state = "confirmed", !.pid = p]
        /\ Only(q, {})
  BY DEF WillSettle
<1>2. g \in Groups /\ Fresh(q) /\ q.row \in GroupRow /\ q.row = groups[g]
  BY CommitTables DEF Fresh
<1>3. UNCHANGED <<roles, submitted, avail, proposals, votes>>
  <2>1. /\ q.memIns = {} /\ q.memDel = {} /\ q.submit = {} /\ q.avIns = {} /\ q.avDel = {}
        /\ q.propIns = {} /\ q.propDel = {} /\ q.voteIns = {} /\ q.voteUpd = {}
        /\ q.voteDel = {}
    BY <1>1 DEF Only, Pendings
  <2> QED
    BY <2>1, CommitKeeps
<1>4. groups' = [groups EXCEPT ![g] = q.obj]
  <2>1. q.obj.owner = q.row.owner
    BY <1>1, <1>2 DEF Renewed, GroupRow
  <2> QED
    BY <2>1, CommitTables
<1>5. Contract!Bump(g, [groups[g] EXCEPT !.state = "confirmed", !.pid = p])
  <2>1. [[q.row EXCEPT !.state = "confirmed", !.pid = p] EXCEPT !.version = q.row.version + 1]
          = [Renewed(q.row) EXCEPT !.state = "confirmed", !.pid = p]
    BY <1>2 DEF Renewed, GroupRow
  <2> QED
    BY <1>1, <1>2, <1>4, <2>1 DEF Contract!Bump
<1>6. Contract!Open(g) /\ p \in Contract!Offered(g)
  BY <1>1, <1>2, SameWords
<1> HIDE DEF q, g
<1>7. Contract!Settle(g)
  BY <1>3, <1>5, <1>6, Zenon DEF Contract!Settle
<1> QED
  BY <1>7 DEF q, g

\* A commit of unconfirm_group opens the group again.
LEMMA ReopenStep ==
    ASSUME OverlapInv, NEW r \in Requests, r \notin overtaken, Commit(r),
           req[r].stmt = "update",
           WillReopen(req[r])
    PROVE  Contract!Reopen(req[r].group)
<1> DEFINE q == req[r]
           g == q.group
<1>1. /\ q.row.state = "confirmed"
      /\ q.obj = [Renewed(q.row) EXCEPT !.state = "open", !.pid = NoProposal]
      /\ Only(q, {})
  BY DEF WillReopen
<1>2. g \in Groups /\ Fresh(q) /\ q.row \in GroupRow /\ q.row = groups[g]
  BY CommitTables DEF Fresh
<1>3. UNCHANGED <<roles, submitted, avail, proposals, votes>>
  <2>1. /\ q.memIns = {} /\ q.memDel = {} /\ q.submit = {} /\ q.avIns = {} /\ q.avDel = {}
        /\ q.propIns = {} /\ q.propDel = {} /\ q.voteIns = {} /\ q.voteUpd = {}
        /\ q.voteDel = {}
    BY <1>1 DEF Only, Pendings
  <2> QED
    BY <2>1, CommitKeeps
<1>4. groups' = [groups EXCEPT ![g] = q.obj]
  <2>1. q.obj.owner = q.row.owner
    BY <1>1, <1>2 DEF Renewed, GroupRow
  <2> QED
    BY <2>1, CommitTables
<1>5. Contract!Bump(g, [groups[g] EXCEPT !.state = "open", !.pid = NoProposal])
  <2>1. [[q.row EXCEPT !.state = "open", !.pid = NoProposal] EXCEPT !.version = q.row.version + 1]
          = [Renewed(q.row) EXCEPT !.state = "open", !.pid = NoProposal]
    BY <1>2 DEF Renewed, GroupRow
  <2> QED
    BY <1>1, <1>2, <1>4, <2>1 DEF Contract!Bump
<1>6. Contract!Confirmed(g)
  BY <1>1, <1>2, SameWords
<1> QED
  BY <1>3, <1>5, <1>6, Zenon DEF Contract!Reopen

\* One operation of the contract on g.
Operation(g) ==
    \/ Contract!Found(g) \/ Contract!Amend(g) \/ Contract!Disband(g)
    \/ Contract!Enrol(g) \/ Contract!Expel(g) \/ Contract!Answer(g)
    \/ Contract!Offer(g) \/ Contract!Retract(g) \/ Contract!CastVote(g)
    \/ Contract!Settle(g) \/ Contract!Reopen(g)

\* A commit that is not late is one operation of the contract on the group of its
\* request.
LEMMA CommitStep ==
    ASSUME OverlapInv, NEW r \in Requests, r \notin overtaken, Commit(r)
    PROVE  req[r].group \in Groups /\ Operation(req[r].group)
<1> DEFINE q == req[r]
           g == q.group
<1>1. /\ g \in Groups /\ q.stmt \in {"insert", "update", "delete"} /\ Decided(q)
  BY DEF Commit, OverlapInv, Sound, FreshSession, IInv, TypeOK, Request
<1>2. CASE q.stmt = "insert"
  BY <1>1, <1>2, FoundStep DEF Operation
<1>3. CASE q.stmt = "delete"
  BY <1>1, <1>3, DisbandStep DEF Operation
<1>4. CASE q.stmt = "update"
  <2>1. \/ WillAmend(q) \/ WillEnrol(q) \/ WillExpel(q)
        \/ WillAnswer(q) \/ WillOffer(q) \/ WillRetract(q)
        \/ WillCast(q) \/ WillSettle(q) \/ WillReopen(q)
    BY <1>1, <1>4 DEF Decided, WillFound, WillDisband
  <2>2. \/ Contract!Amend(g) \/ Contract!Enrol(g) \/ Contract!Expel(g)
        \/ Contract!Answer(g) \/ Contract!Offer(g) \/ Contract!Retract(g)
        \/ Contract!CastVote(g) \/ Contract!Settle(g) \/ Contract!Reopen(g)
    BY <1>4, <2>1, AmendStep, EnrolStep, ExpelStep, AnswerStep, OfferStep, RetractStep,
       CastStep, SettleStep, ReopenStep
  <2> QED
    BY <1>1, <2>2 DEF Operation
<1> QED
  BY <1>1, <1>2, <1>3, <1>4

\* Only commits change the tables.
LEMMA TablesStep ==
    ASSUME [Next]_vars
    PROVE  UNCHANGED tables \/ \E r \in Requests : Commit(r)
<1>1. CASE UNCHANGED vars
  BY <1>1 DEF vars, tables
<1>2. ASSUME NEW r \in Requests, Step(r), ~ UNCHANGED tables PROVE Commit(r)
  BY <1>2 DEF Step, Load, CreateGroup, Finish, Abort, UpdateGroup,
     DeleteGroup, UnconfirmGroup, JoinGroup, RemoveMember, PutMyAvailability, CreateProposal, DeleteProposal,
     DeleteVote, PutVote, ConfirmGroup, PendBumped, Pend
<1> QED
  BY <1>1, <1>2 DEF Next, Tick

\* The late commits are those of overtaken requests.
LEMMA CommitIsLate ==
    ASSUME OverlapInv, NEW r \in Requests, r \in overtaken, Commit(r)
    PROVE  req[r].group \in Groups /\ LateCommit(req[r].group)
<1>1. req \in [Requests -> Request]
  BY DEF OverlapInv, IInv, TypeOK
<1>2. req[r].phase = "ready" /\ req'[r] = Idle /\ Idle.phase = "idle"
  BY <1>1 DEF Commit, Close, Idle
<1>3. req[r].group \in Groups
  BY <1>1 DEF Request
<1> QED
  BY <1>2, <1>3 DEF LateCommit, Commits

\* What a step does to the tables: nothing, or an operation of the contract on one
\* group, or a late commit on one group; and all other groups are kept.
LEMMA StepOnGroup ==
    ASSUME OverlapInv, [Next]_vars, ~ UNCHANGED tables
    PROVE  \E g \in Groups : /\ Operation(g) \/ LateCommit(g)
                             /\ \A h \in Groups \ {g} : GroupKept(h)
<1>1. PICK r \in Requests : Commit(r)
  BY TablesStep
<1>2. req[r].group \in Groups /\ (Operation(req[r].group) \/ LateCommit(req[r].group))
  BY <1>1, CommitStep, CommitIsLate
<1> QED
  BY <1>1, <1>2, CommitElsewhere

-----------------------------------------------------------------------------
(* The tables, whatever is late.                                           *)

\* What any commit does to votes and proposals.
LEMMA CommitVotes ==
    ASSUME OverlapInv, NEW r \in Requests, Commit(r)
    PROVE  LET q == req[r]
           IN /\ votes' = {v \in votes :
                   /\ v[1] \notin Gone(q)
                   /\ <<v[1], v[2]>> \notin q.voteDel \cup Keys(q.voteUpd)}
                   \cup q.voteIns \cup q.voteUpd
              /\ \A p \in Proposals : p \notin Gone(q) /\ proposals[p] = "live"
                    => proposals'[p] = "live"
              /\ q.voteIns \cup q.voteUpd # {} => Gone(q) = {}
              /\ \A v, w \in q.voteIns \cup q.voteUpd : v = w
              /\ \A v \in q.voteIns : proposals[v[1]] = "live"
              /\ \A v \in q.voteUpd : \E w \in votes : w[1] = v[1] /\ w[2] = v[2]
              /\ \A v \in q.voteIns : \A w \in votes : ~(w[1] = v[1] /\ w[2] = v[2])
              /\ votes \subseteq VoteRow /\ q.voteIns \cup q.voteUpd \subseteq VoteRow
<1> DEFINE q == req[r]
<1>1. TypeOK /\ Tidy(q) /\ Flushable(q) /\ q \in Request
  BY DEF Commit, OverlapInv, IInv, TypeOK, Sound
<1>2. q.voteIns \cup q.voteUpd # {} => Gone(q) = {}
  BY <1>1 DEF Tidy, Gone, Only, Pendings
<1>8. /\ Keys(q.voteUpd) \subseteq Keys(votes) /\ Keys(q.voteIns) \cap Keys(votes) = {}
      /\ \A S : \A v \in S : <<v[1], v[2]>> \in Keys(S)
      /\ \A x, y : <<x, y>> \in Keys(votes) => \E w \in votes : w[1] = x /\ w[2] = y
  <2>1. \A S : \A v \in S : <<v[1], v[2]>> \in Keys(S)
    BY DEF Keys
  <2> QED
    BY <1>1, <2>1, KeyOfRow DEF Flushable
<1>3. \A v \in q.voteUpd : \E w \in votes : w[1] = v[1] /\ w[2] = v[2]
  <2> SUFFICES ASSUME NEW v \in q.voteUpd
               PROVE  \E w \in votes : w[1] = v[1] /\ w[2] = v[2]
    OBVIOUS
  <2>1. <<v[1], v[2]>> \in Keys(votes)
    BY <1>8
  <2> QED
    BY <1>8, <2>1
<1>4. \A v \in q.voteIns : \A w \in votes : ~(w[1] = v[1] /\ w[2] = v[2])
  <2> SUFFICES ASSUME NEW v \in q.voteIns, NEW w \in votes, w[1] = v[1], w[2] = v[2]
               PROVE  FALSE
    OBVIOUS
  <2>1. <<v[1], v[2]>> \in Keys(q.voteIns) /\ <<w[1], w[2]>> \in Keys(votes)
    BY <1>8
  <2> QED
    BY <1>8, <2>1
<1>5. \A p \in Proposals : p \notin Gone(q) /\ proposals[p] = "live" => proposals'[p] = "live"
  BY DEF Commit
<1>6. /\ \A v, w \in q.voteIns \cup q.voteUpd : v = w
      /\ \A v \in q.voteIns : proposals[v[1]] = "live"
      /\ votes \subseteq VoteRow /\ q.voteIns \cup q.voteUpd \subseteq VoteRow
  BY <1>1 DEF Tidy, Flushable, TypeOK, Request
<1>7. votes' = {v \in votes :
                   /\ v[1] \notin Gone(q)
                   /\ <<v[1], v[2]>> \notin q.voteDel \cup Keys(q.voteUpd)}
                   \cup q.voteIns \cup q.voteUpd
  BY DEF Commit
<1> HIDE DEF q
<1> QED
  BY <1>2, <1>3, <1>4, <1>5, <1>6, <1>7 DEF q

\* Votes are on live proposals, one for each user: the foreign key and the primary key
\* of the votes table.
LEMMA CommitKeepsVotes ==
    ASSUME OverlapInv, NEW r \in Requests, Commit(r)
    PROVE  VotesOnLive' /\ OneVoteEach'
<1> DEFINE q == req[r]
           gone == Gone(q)
           new == q.voteIns \cup q.voteUpd
<1>1. /\ \A v \in votes' : \/ v \in votes /\ v[1] \notin gone
                                /\ <<v[1], v[2]>> \notin Keys(q.voteUpd)
                           \/ v \in q.voteIns \/ v \in q.voteUpd
      /\ \A p \in Proposals : p \notin gone /\ proposals[p] = "live" => proposals'[p] = "live"
      /\ new # {} => gone = {}
      /\ \A v, w \in new : v = w
      /\ \A v \in q.voteIns : proposals[v[1]] = "live"
      /\ \A v \in q.voteUpd : \E w \in votes : w[1] = v[1] /\ w[2] = v[2]
      /\ \A v \in q.voteIns : \A w \in votes : ~(w[1] = v[1] /\ w[2] = v[2])
      /\ \A v \in votes \cup new : v[1] \in Proposals
  BY CommitVotes DEF VoteRow
<1>2. VotesOnLive /\ OneVoteEach
  BY DEF OverlapInv
<1>3. \A v \in q.voteUpd : <<v[1], v[2]>> \in Keys(q.voteUpd)
  BY DEF Keys
<1> HIDE DEF q, gone
<1>4. ASSUME NEW v \in votes' PROVE proposals'[v[1]] = "live"
  <2>1. CASE v \in votes /\ v[1] \notin gone
    BY <1>1, <1>2, <2>1 DEF VotesOnLive
  <2>2. CASE v \in new
    <3>1. proposals[v[1]] = "live"
      BY <1>1, <1>2, <2>2 DEF VotesOnLive
    <3> QED
      BY <1>1, <2>2, <3>1
  <2> QED
    BY <1>1, <2>1, <2>2
<1>5. ASSUME NEW v \in votes', NEW w \in votes', v[1] = w[1], v[2] = w[2] PROVE v = w
  <2>1. CASE v \in votes /\ w \in votes
    BY <1>2, <1>5, <2>1 DEF OneVoteEach
  <2>2. CASE v \in new /\ w \in new
    BY <1>1, <2>2
  <2>3. ASSUME NEW x \in votes, NEW y \in new, x[1] = y[1], x[2] = y[2],
               <<x[1], x[2]>> \notin Keys(q.voteUpd)
        PROVE  FALSE
    BY <1>1, <1>3, <2>3
  <2>4. CASE v \in votes /\ w \in new /\ v \notin new
    BY <1>1, <1>5, <2>3, <2>4
  <2>5. CASE w \in votes /\ v \in new /\ w \notin new
    BY <1>1, <1>5, <2>3, <2>5
  <2> QED
    BY <1>1, <2>1, <2>2, <2>4, <2>5
<1> QED
  BY <1>4, <1>5 DEF VotesOnLive, OneVoteEach

\* Availability is written to groups that exist.
LEMMA CommitKeepsNothingYet ==
    ASSUME OverlapInv, NEW r \in Requests, Commit(r)
    PROVE  NothingYet'
<1> DEFINE q == req[r]
           g == q.group
<1>1. /\ TypeOK /\ NothingYet /\ g \in Groups
      /\ q.stmt \in {"insert", "update", "delete"} /\ SessionInv(q)
  BY DEF OverlapInv, IInv, TypeOK, Request
<1> SUFFICES ASSUME NEW h \in Groups, groups'[h].state = "absent"
             PROVE  avail'[h] = {}
  BY DEF NothingYet
<1>2. CASE h # g
  <2>1. GroupKept(h)
    BY <1>2, CommitElsewhere
  <2> QED
    BY <1>1, <2>1 DEF GroupKept, NothingYet
<1>3. CASE h = g
  <2>1. CASE q.stmt = "delete"
    BY <1>1, <1>3, <2>1 DEF Commit, TypeOK
  <2>2. CASE q.stmt = "insert"
    <3>1. groups'[g] = q.obj /\ q.phase = "ready"
      BY <1>1, <2>2 DEF Commit, TypeOK
    <3>2. q.obj.state = "open"
      BY <1>1, <2>2, <3>1 DEF SessionInv, SessionOnNewRow
    <3> QED
      BY <1>3, <3>1, <3>2
  <2>3. CASE q.stmt = "update"
    <3>1. /\ Exists(groups[g]) /\ q.phase = "ready"
          /\ groups'[g] = Flushed(groups[g], q.row, q.obj)
      BY <1>1, <2>3 DEF Commit, Flushable, TypeOK
    <3>2. Exists(q.obj)
      BY <1>1, <2>3, <3>1 DEF SessionInv, SessionOnRow
    <3>3. groups'[g].state \in {q.obj.state, groups[g].state}
      BY <3>1 DEF Flushed
    <3> QED
      BY <1>3, <3>1, <3>2, <3>3 DEF Exists
  <2> QED
    BY <1>1, <2>1, <2>2, <2>3
<1> QED
  BY <1>2, <1>3

\* What a commit adds to the members, the proposals and the groups of a user.
LEMMA CommitAdds ==
    ASSUME OverlapInv, NEW r \in Requests, Commit(r)
    PROVE  LET q == req[r]
           IN /\ q.group \in Groups
              /\ \A h \in Groups : Members(h)' \subseteq Members(h)
                                     \cup IF h = q.group THEN q.memIns ELSE {}
              /\ \A h \in Groups : LiveProposals(h)' \subseteq LiveProposals(h)
                                     \cup IF h = q.group THEN q.propIns ELSE {}
              /\ q.memIns \subseteq {q.user} /\ \A p, x \in q.propIns : p = x
              /\ \A u \in Users : Groupships(u)' \subseteq Groupships(u) \cup {q.group}
<1> DEFINE q == req[r]
<1>1. TypeOK /\ q.group \in Groups /\ Tidy(q) /\ OwnRows(q)
  BY DEF OverlapInv, IInv, TypeOK, Request, Sound, SessionInv
<1>2. \A h \in Groups : Members(h)' \subseteq Members(h)
                          \cup IF h = q.group THEN q.memIns ELSE {}
  BY <1>1 DEF Commit, NewRoles, Members, TypeOK
<1>3. \A p \in Proposals : proposals'[p] = "live" => proposals[p] = "live" \/ p \in q.propIns
  BY DEF Commit
<1>4. \A h \in Groups : LiveProposals(h)' \subseteq LiveProposals(h)
                          \cup IF h = q.group THEN q.propIns ELSE {}
  BY <1>1, <1>3 DEF LiveProposals, OwnRows
<1>5. \A u \in Users : Groupships(u)' \subseteq Groupships(u) \cup {q.group}
  BY <1>1 DEF Commit, Groupships, TypeOK
<1>6. q.memIns \subseteq {q.user} /\ \A p, x \in q.propIns : p = x
  BY <1>1 DEF Tidy
<1> HIDE DEF q
<1> QED
  BY <1>1, <1>2, <1>4, <1>5, <1>6 DEF q

\* A set that gains at most one element stays finite.
LEMMA StaysFinite ==
    ASSUME NEW S, IsFiniteSet(S), NEW I, \A x, y \in I : x = y, NEW T, T \subseteq S \cup I
    PROVE  IsFiniteSet(T)
<1>1. IsFiniteSet(S \cup I)
  <2>1. CASE I = {}
    BY <2>1
  <2>2. CASE I # {}
    <3>1. PICK x \in I : S \cup I = S \cup {x}
      BY <2>2
    <3> QED
      BY <3>1, FS_AddElement
  <2> QED
    BY <2>1, <2>2
<1> QED
  BY <1>1, FS_Subset

\* Rows are added one by one.
LEMMA CommitKeepsFinite ==
    ASSUME OverlapInv, NEW r \in Requests, Commit(r)
    PROVE  RowsFinite'
<1> DEFINE q == req[r]
<1>1. /\ \A h \in Groups : Members(h)' \subseteq Members(h)
                             \cup IF h = q.group THEN q.memIns ELSE {}
      /\ \A h \in Groups : LiveProposals(h)' \subseteq LiveProposals(h)
                             \cup IF h = q.group THEN q.propIns ELSE {}
      /\ \A x, y \in q.memIns : x = y
      /\ \A x, y \in q.propIns : x = y
      /\ \A u \in Users : Groupships(u)' \subseteq Groupships(u) \cup {q.group}
  BY CommitAdds
<1>2. RowsFinite
  BY DEF OverlapInv
<1> HIDE DEF q
<1>3. ASSUME NEW h \in Groups PROVE IsFiniteSet(Members(h)')
  <2>1. \A x, y \in IF h = q.group THEN q.memIns ELSE {} : x = y
    BY <1>1
  <2> QED
    BY <1>1, <1>2, <2>1, StaysFinite DEF RowsFinite
<1>4. ASSUME NEW h \in Groups PROVE IsFiniteSet(LiveProposals(h)')
  <2>1. \A x, y \in IF h = q.group THEN q.propIns ELSE {} : x = y
    BY <1>1
  <2> QED
    BY <1>1, <1>2, <2>1, StaysFinite DEF RowsFinite
<1>5. ASSUME NEW u \in Users PROVE IsFiniteSet(Groupships(u)')
  BY <1>1, <1>2, StaysFinite DEF RowsFinite
<1> QED
  BY <1>3, <1>4, <1>5 DEF RowsFinite

\* A step that writes no table keeps what is said of the tables.
LEMMA TablesFrame ==
    ASSUME OverlapInv, UNCHANGED tables
    PROVE  VotesOnLive' /\ OneVoteEach' /\ NothingYet' /\ RowsFinite'
BY DEF OverlapInv, tables, VotesOnLive, OneVoteEach, NothingYet, RowsFinite,
   Members, LiveProposals, Groupships

\* Every step keeps the invariant.
LEMMA OverlapStep ==
    ASSUME OverlapInv, [Next]_vars
    PROVE  OverlapInv'
<1>1. IInv'
  BY InvStep DEF OverlapInv
<1>2. VotesOnLive' /\ OneVoteEach' /\ NothingYet' /\ RowsFinite'
  BY TablesStep, TablesFrame, CommitKeepsVotes, CommitKeepsNothingYet, CommitKeepsFinite
<1>3. \A s \in Requests : Sound(s)'
  <2>1. ASSUME NEW s \in Requests, UNCHANGED <<tables, req, overtaken>> PROVE Sound(s)'
    <3>1. /\ req \in [Requests -> Request] /\ Sound(s) /\ UNCHANGED tables
          /\ req' = [req EXCEPT ![s] = req[s]] /\ overtaken' = overtaken
      BY <2>1 DEF OverlapInv, IInv, TypeOK
    <3> QED
      BY <3>1, SoundWritten DEF Sound
  <2> QED
    BY <2>1, SoundStep DEF Next, Tick, vars, tables
<1> QED
  BY <1>1, <1>2, <1>3 DEF OverlapInv

\* It holds at the start.
LEMMA OverlapInit ==
    ASSUME Init
    PROVE  OverlapInv
<1>1. IInv
  BY InvInit
<1>2. /\ \A h \in Groups : avail[h] = {} /\ Members(h) = {} /\ LiveProposals(h) = {}
      /\ \A u \in Users : Groupships(u) = {}
      /\ votes = {}
  BY DEF Init, Members, LiveProposals, Groupships
<1>3. VotesOnLive /\ OneVoteEach /\ NothingYet /\ RowsFinite
  BY <1>2, FS_EmptySet DEF VotesOnLive, OneVoteEach, NothingYet, RowsFinite
<1>4. Tidy(Idle) /\ FreshSession(Idle) /\ Idle.phase = "idle"
  <2>1. /\ Idle.phase = "idle" /\ Idle.ifMatch = 0 /\ Idle.stmt = "update"
        /\ \A f \in Pendings : Idle[f] = {}
    BY DEF Idle, Pendings
  <2> QED
    BY <2>1 DEF Tidy, FreshSession, Pendings
<1>5. \A r \in Requests : Sound(r)
  BY <1>4 DEF Sound, Init
<1> QED
  BY <1>1, <1>3, <1>5 DEF OverlapInv

-----------------------------------------------------------------------------
(* The rows of a group: what an operation of the contract keeps.           *)

\* Every row keeps its columns, the version apart.
RowsKept ==
    \A h \in Groups :
        /\ groups'[h].owner = groups[h].owner /\ groups'[h].state = groups[h].state
        /\ groups'[h].pid = groups[h].pid /\ groups'[h].window = groups[h].window

\* What a new version of a row is.
LEMMA BumpFields ==
    ASSUME TypeOK, NEW g \in Groups, NEW row \in GroupRow, Contract!Bump(g, row)
    PROVE  /\ groups'[g].owner = row.owner /\ groups'[g].state = row.state
           /\ groups'[g].pid = row.pid /\ groups'[g].window = row.window
           /\ groups'[g].invite = row.invite
           /\ groups'[g].version = groups[g].version + 1
           /\ \A h \in Groups \ {g} : groups'[h] = groups[h]
<1>1. groups'[g] = [row EXCEPT !.version = groups[g].version + 1]
  BY DEF Contract!Bump, TypeOK
<1>2. \A h \in Groups \ {g} : groups'[h] = groups[h]
  BY DEF Contract!Bump, TypeOK
<1> QED
  BY <1>1, <1>2 DEF GroupRow

\* A bump alone keeps owner, state, confirmed proposal and window of every group.
LEMMA BumpKeeps ==
    ASSUME TypeOK, NEW g \in Groups, Contract!Bump(g, groups[g])
    PROVE  RowsKept
<1>1. groups[g] \in GroupRow
  BY DEF TypeOK
<1> QED
  BY <1>1, BumpFields DEF RowsKept

\* What each step of the contract does to the rows of the groups.
LEMMA ContractRows ==
    ASSUME TypeOK, NEW g \in Groups
    PROVE  /\ Contract!Found(g) =>
                /\ groups[g].state = "absent" /\ groups'[g].state = "open"
                /\ groups'[g].version = 1
                /\ \A h \in Groups \ {g} : groups'[h] = groups[h]
           /\ Contract!Disband(g) =>
                /\ groups'[g].state = "deleted"
                /\ \A h \in Groups \ {g} : groups'[h] = groups[h]
           /\ Contract!Amend(g) =>
                /\ groups'[g].owner = groups[g].owner /\ groups'[g].state = groups[g].state
                /\ groups'[g].pid = groups[g].pid
                /\ \A h \in Groups \ {g} : groups'[h] = groups[h]
           /\ \/ Contract!Enrol(g) \/ Contract!Expel(g) \/ Contract!Answer(g)
              \/ Contract!Offer(g) \/ Contract!Retract(g) \/ Contract!CastVote(g)
              => RowsKept
           /\ Contract!Settle(g) =>
                \E p \in LiveProposals(g) :
                   /\ groups'[g].owner = groups[g].owner /\ groups'[g].state = "confirmed"
                   /\ groups'[g].pid = p /\ groups'[g].window = groups[g].window
                   /\ \A h \in Groups \ {g} : groups'[h] = groups[h]
           /\ Contract!Reopen(g) =>
                /\ groups'[g].owner = groups[g].owner /\ groups'[g].state = "open"
                /\ groups'[g].window = groups[g].window
                /\ \A h \in Groups \ {g} : groups'[h] = groups[h]
<1>0. groups[g] \in GroupRow
  BY DEF TypeOK
<1>1. ASSUME Contract!Found(g)
      PROVE  /\ groups[g].state = "absent" /\ groups'[g].state = "open"
             /\ groups'[g].version = 1
             /\ \A h \in Groups \ {g} : groups'[h] = groups[h]
  BY <1>1 DEF Contract!Found, TypeOK
<1>2. ASSUME Contract!Disband(g)
      PROVE  /\ groups'[g].state = "deleted"
             /\ \A h \in Groups \ {g} : groups'[h] = groups[h]
  BY <1>2 DEF Contract!Disband, TypeOK
<1>3. ASSUME Contract!Amend(g)
      PROVE  /\ groups'[g].owner = groups[g].owner /\ groups'[g].state = groups[g].state
             /\ groups'[g].pid = groups[g].pid
             /\ \A h \in Groups \ {g} : groups'[h] = groups[h]
  <2>1. PICK w \in Windows, i \in {groups[g].invite, groups[g].invite + 1} :
          Contract!Bump(g, [groups[g] EXCEPT !.window = w, !.invite = i])
    BY <1>3, Zenon DEF Contract!Amend
  <2>2. i \in Nat
    BY <1>0 DEF GroupRow
  <2>3. [groups[g] EXCEPT !.window = w, !.invite = i] \in GroupRow
    BY <1>0, <2>2 DEF GroupRow
  <2> QED
    BY <1>0, <2>1, <2>3, BumpFields DEF GroupRow
<1>4. ASSUME \/ Contract!Enrol(g) \/ Contract!Expel(g) \/ Contract!Answer(g)
             \/ Contract!Offer(g) \/ Contract!Retract(g) \/ Contract!CastVote(g)
      PROVE  RowsKept
  <2>1. Contract!Bump(g, groups[g])
    BY <1>4 DEF Contract!Enrol, Contract!Expel, Contract!Answer, Contract!Offer,
       Contract!Retract, Contract!CastVote
  <2> QED
    BY <2>1, BumpKeeps
<1>5. ASSUME Contract!Settle(g)
      PROVE  \E p \in LiveProposals(g) :
                /\ groups'[g].owner = groups[g].owner /\ groups'[g].state = "confirmed"
                /\ groups'[g].pid = p /\ groups'[g].window = groups[g].window
                /\ \A h \in Groups \ {g} : groups'[h] = groups[h]
  <2>1. PICK p \in LiveProposals(g) :
          Contract!Bump(g, [groups[g] EXCEPT !.state = "confirmed", !.pid = p])
    BY <1>5, SameWords, Zenon DEF Contract!Settle
  <2>2. [groups[g] EXCEPT !.state = "confirmed", !.pid = p] \in GroupRow
    BY <1>0 DEF GroupRow, States, LiveProposals
  <2> QED
    BY <1>0, <2>1, <2>2, BumpFields DEF GroupRow
<1>6. ASSUME Contract!Reopen(g)
      PROVE  /\ groups'[g].owner = groups[g].owner /\ groups'[g].state = "open"
             /\ groups'[g].window = groups[g].window
             /\ \A h \in Groups \ {g} : groups'[h] = groups[h]
  <2>1. Contract!Bump(g, [groups[g] EXCEPT !.state = "open", !.pid = NoProposal])
    BY <1>6, Zenon DEF Contract!Reopen
  <2>2. [groups[g] EXCEPT !.state = "open", !.pid = NoProposal] \in GroupRow
    BY <1>0 DEF GroupRow, States
  <2> QED
    BY <1>0, <2>1, <2>2, BumpFields DEF GroupRow
<1> QED
  BY <1>1, <1>2, <1>3, <1>4, <1>5, <1>6

\* Every operation of the contract keeps the confirmed proposal live.
LEMMA KeepsConfirmedProposal ==
    ASSUME TypeOK, ConfirmedIffProposal, NEW g \in Groups, Operation(g), ConfirmedLive(g)
    PROVE  ConfirmedLive(g)'
<1> SUFFICES ASSUME groups'[g].state = "confirmed"
             PROVE  proposals'[groups'[g].pid] = "live"
  BY DEF ConfirmedLive
<1>1. CASE \/ Contract!Enrol(g) \/ Contract!Expel(g) \/ Contract!Answer(g)
           \/ Contract!CastVote(g) \/ Contract!Amend(g)
  <2>1. proposals' = proposals
    BY <1>1 DEF Contract!Enrol, Contract!Expel, Contract!Answer, Contract!CastVote,
       Contract!Amend
  <2>2. groups'[g].state = groups[g].state /\ groups'[g].pid = groups[g].pid
    BY <1>1, ContractRows DEF RowsKept
  <2> QED
    BY <2>1, <2>2 DEF ConfirmedLive
<1>2. CASE Contract!Settle(g)
  <2>1. proposals' = proposals
    BY <1>2 DEF Contract!Settle
  <2>2. groups'[g].pid \in LiveProposals(g)
    BY <1>2, ContractRows
  <2> QED
    BY <2>1, <2>2 DEF LiveProposals
<1>3. CASE Contract!Offer(g)
  <2>1. PICK p \in Proposals : proposals' = [proposals EXCEPT ![p] = "live"]
    BY <1>3 DEF Contract!Offer
  <2>2. groups'[g].state = groups[g].state /\ groups'[g].pid = groups[g].pid
    BY <1>3, ContractRows DEF RowsKept
  <2>3. groups[g].pid \in Proposals
    BY <2>2 DEF ConfirmedIffProposal, TypeOK, GroupRow
  <2> QED
    BY <2>1, <2>2, <2>3 DEF ConfirmedLive, TypeOK
<1>4. ~ Contract!Retract(g)
  <2>1. Contract!Retract(g) => groups[g].state = "open" /\ RowsKept
    BY ContractRows, SameWords DEF Contract!Retract
  <2> QED
    BY <2>1 DEF RowsKept
<1>5. ~ Contract!Found(g) /\ ~ Contract!Disband(g) /\ ~ Contract!Reopen(g)
  BY ContractRows
<1> QED
  BY <1>1, <1>2, <1>3, <1>4, <1>5 DEF Operation

\* The steps that add no row of availability or votes and no member.
LEMMA ContractShrinks ==
    ASSUME TypeOK, NEW g \in Groups,
           \/ Contract!Amend(g) \/ Contract!Offer(g) \/ Contract!Retract(g)
           \/ Contract!Settle(g) \/ Contract!Reopen(g)
    PROVE  roles' = roles /\ votes' \subseteq votes /\ avail'[g] \subseteq avail[g]
<1>1. CASE Contract!Amend(g)
  <2>1. PICK w \in Windows : avail' = [avail EXCEPT ![g] = {a \in @ : a[2] \in w}]
                             \/ avail' = avail
    BY <1>1 DEF Contract!Amend
  <2>2. avail'[g] \subseteq avail[g]
    BY <2>1 DEF TypeOK
  <2> QED
    BY <1>1, <2>2 DEF Contract!Amend
<1>2. CASE Contract!Retract(g)
  BY <1>2 DEF Contract!Retract
<1>3. CASE Contract!Offer(g) \/ Contract!Settle(g) \/ Contract!Reopen(g)
  BY <1>3 DEF Contract!Offer, Contract!Settle, Contract!Reopen
<1> QED
  BY <1>1, <1>2, <1>3

\* Every operation of the contract leaves rows to members only.
LEMMA KeepsRowsOfMembers ==
    ASSUME TypeOK, NEW g \in Groups, Operation(g), RowsOfMembers(g)
    PROVE  RowsOfMembers(g)'
<1>t. /\ \A a \in avail[g] : a[1] \in Users /\ roles[g][a[1]] # "none"
      /\ \A v \in votes : v[1] \in Proposals /\ v[2] \in Users
      /\ \A v \in votes : ProposalGroup[v[1]] = g => roles[g][v[2]] # "none"
  BY DEF TypeOK, AvailRow, VoteRow, RowsOfMembers
<1> SUFFICES /\ \A a \in avail'[g] : roles'[g][a[1]] # "none"
             /\ \A v \in votes' : ProposalGroup[v[1]] = g => roles'[g][v[2]] # "none"
  BY DEF RowsOfMembers
<1>1. CASE \/ Contract!Amend(g) \/ Contract!Offer(g) \/ Contract!Retract(g)
           \/ Contract!Settle(g) \/ Contract!Reopen(g)
  BY <1>1, <1>t, ContractShrinks
<1>2. CASE Contract!Found(g) \/ Contract!Enrol(g)
  <2>1. UNCHANGED <<avail, votes>>
    BY <1>2 DEF Contract!Found, Contract!Enrol
  <2>2. PICK u \in Users, x \in {"owner", "member"} : roles' = [roles EXCEPT ![g][u] = x]
    BY <1>2 DEF Contract!Found, Contract!Enrol
  <2>3. \A w \in Users : roles[g][w] # "none" => roles'[g][w] # "none"
    BY <2>2 DEF TypeOK
  <2> QED
    BY <1>t, <2>1, <2>3
<1>3. CASE Contract!Disband(g)
  <2>1. /\ avail' = [avail EXCEPT ![g] = {}]
        /\ votes' = {v \in votes : ProposalGroup[v[1]] # g}
    BY <1>3 DEF Contract!Disband
  <2> QED
    BY <2>1 DEF TypeOK
<1>4. CASE Contract!Expel(g)
  <2>1. PICK u \in Users :
          /\ roles' = [roles EXCEPT ![g][u] = "none"]
          /\ avail' = [avail EXCEPT ![g] = {a \in @ : a[1] # u}]
          /\ votes' = {v \in votes : ~(v[2] = u /\ ProposalGroup[v[1]] = g)}
    BY <1>4 DEF Contract!Expel, Contract!Members
  <2>2. \A w \in Users : w # u => roles'[g][w] = roles[g][w]
    BY <2>1 DEF TypeOK
  <2>3. \A a \in avail'[g] : a \in avail[g] /\ a[1] # u
    BY <2>1 DEF TypeOK
  <2> QED
    BY <1>t, <2>1, <2>2, <2>3
<1>5. CASE Contract!Answer(g)
  <2>1. PICK u \in Members(g) :
          /\ {a \in avail'[g] : a[1] # u} = {a \in avail[g] : a[1] # u}
          /\ avail' = [avail EXCEPT ![g] = avail'[g]]
    BY <1>5, SameWords, Zenon DEF Contract!Answer
  <2>2. UNCHANGED <<roles, votes>>
    BY <1>5 DEF Contract!Answer
  <2>3. \A a \in avail'[g] : a[1] = u \/ a \in avail[g]
    BY <2>1
  <2> QED
    BY <1>t, <2>1, <2>2, <2>3 DEF Members
<1>6. CASE Contract!CastVote(g)
  <2>1. UNCHANGED <<roles, avail>>
    BY <1>6 DEF Contract!CastVote
  <2>2. PICK p \in LiveProposals(g), u \in Members(g) :
          \A v \in votes' : v \in votes \/ (v[1] = p /\ v[2] = u)
    BY <1>6, SameWords DEF Contract!CastVote
  <2> QED
    BY <1>t, <2>1, <2>2 DEF Members, LiveProposals
<1> QED
  BY <1>1, <1>2, <1>3, <1>4, <1>5, <1>6 DEF Operation

\* Every operation of the contract keeps the slots inside the window.
LEMMA KeepsAvailabilityInWindow ==
    ASSUME TypeOK, NothingYet, NEW g \in Groups, Operation(g), WithinWindow(g)
    PROVE  WithinWindow(g)'
<1> SUFFICES \A a \in avail'[g] : a[2] \in groups'[g].window
  BY DEF WithinWindow
<1>1. CASE Contract!Found(g)
  BY <1>1 DEF Contract!Found, NothingYet
<1>2. CASE Contract!Disband(g)
  <2>1. avail' = [avail EXCEPT ![g] = {}]
    BY <1>2 DEF Contract!Disband
  <2> QED
    BY <2>1 DEF TypeOK
<1>3. CASE Contract!Amend(g)
  <2>1. PICK w \in Windows, i \in {groups[g].invite, groups[g].invite + 1} :
          /\ Contract!Bump(g, [groups[g] EXCEPT !.window = w, !.invite = i])
          /\ \/ avail' = [avail EXCEPT ![g] = {a \in @ : a[2] \in w}]
             \/ w = groups[g].window /\ UNCHANGED avail
    BY <1>3, Zenon DEF Contract!Amend
  <2>2. groups[g] \in GroupRow /\ i \in Nat
    BY DEF TypeOK, GroupRow
  <2>3. /\ [groups[g] EXCEPT !.window = w, !.invite = i] \in GroupRow
        /\ [groups[g] EXCEPT !.window = w, !.invite = i].window = w
    BY <2>2 DEF GroupRow
  <2>4. groups'[g].window = w
    BY <2>1, <2>3, BumpFields
  <2> QED
    BY <2>1, <2>4 DEF WithinWindow, TypeOK
<1>4. CASE \/ Contract!Enrol(g) \/ Contract!Expel(g) \/ Contract!Offer(g)
           \/ Contract!Retract(g) \/ Contract!CastVote(g)
           \/ Contract!Settle(g) \/ Contract!Reopen(g)
  <2>1. groups'[g].window = groups[g].window
    BY <1>4, ContractRows DEF RowsKept
  <2>2. avail'[g] \subseteq avail[g]
    <3>1. CASE Contract!Expel(g)
      <4>1. \E u \in Users : avail' = [avail EXCEPT ![g] = {a \in @ : a[1] # u}]
        BY <3>1 DEF Contract!Expel, Contract!Members
      <4> QED
        BY <4>1 DEF TypeOK
    <3>2. CASE Contract!Enrol(g) \/ Contract!CastVote(g)
      BY <3>2 DEF Contract!Enrol, Contract!CastVote
    <3> QED
      BY <1>4, <3>1, <3>2, ContractShrinks
  <2> QED
    BY <2>1, <2>2 DEF WithinWindow
<1>5. CASE Contract!Answer(g)
  <2>1. groups'[g].window = groups[g].window
    BY <1>5, ContractRows DEF RowsKept
  <2>2. PICK u \in Members(g) :
          /\ {a \in avail'[g] : a[1] # u} = {a \in avail[g] : a[1] # u}
          /\ \A a \in avail'[g] : a[1] = u => a[2] \in groups[g].window
    BY <1>5, SameWords, Zenon DEF Contract!Answer
  <2> QED
    BY <2>1, <2>2 DEF WithinWindow
<1> QED
  BY <1>1, <1>2, <1>3, <1>4, <1>5 DEF Operation

\* A group that exists before and after a step on it has a new version.
LEMMA ContractVersion ==
    ASSUME TypeOK, NEW g \in Groups, Exists(groups[g]), Exists(groups'[g]),
           Operation(g)
    PROVE  groups'[g].version = groups[g].version + 1
<1>1. groups[g] \in GroupRow
  BY DEF TypeOK
<1>2. ~ Contract!Found(g) /\ ~ Contract!Disband(g)
  BY ContractRows DEF Exists
<1>3. CASE \/ Contract!Enrol(g) \/ Contract!Expel(g) \/ Contract!Answer(g)
           \/ Contract!Offer(g) \/ Contract!Retract(g) \/ Contract!CastVote(g)
  <2>1. Contract!Bump(g, groups[g])
    BY <1>3 DEF Contract!Enrol, Contract!Expel, Contract!Answer, Contract!Offer,
       Contract!Retract, Contract!CastVote
  <2> QED
    BY <1>1, <2>1, BumpFields
<1>4. CASE Contract!Amend(g)
  <2>1. PICK w \in Windows, i \in {groups[g].invite, groups[g].invite + 1} :
          Contract!Bump(g, [groups[g] EXCEPT !.window = w, !.invite = i])
    BY <1>4, Zenon DEF Contract!Amend
  <2>2. i \in Nat
    BY <1>1 DEF GroupRow
  <2>3. [groups[g] EXCEPT !.window = w, !.invite = i] \in GroupRow
    BY <1>1, <2>2 DEF GroupRow
  <2> QED
    BY <2>1, <2>3, BumpFields
<1>5. CASE Contract!Settle(g)
  <2>1. PICK p \in LiveProposals(g) :
          Contract!Bump(g, [groups[g] EXCEPT !.state = "confirmed", !.pid = p])
    BY <1>5, SameWords, Zenon DEF Contract!Settle
  <2>2. [groups[g] EXCEPT !.state = "confirmed", !.pid = p] \in GroupRow
    BY <1>1 DEF GroupRow, States, LiveProposals
  <2> QED
    BY <2>1, <2>2, BumpFields
<1>6. CASE Contract!Reopen(g)
  <2>1. Contract!Bump(g, [groups[g] EXCEPT !.state = "open", !.pid = NoProposal])
    BY <1>6, Zenon DEF Contract!Reopen
  <2>2. [groups[g] EXCEPT !.state = "open", !.pid = NoProposal] \in GroupRow
    BY <1>1 DEF GroupRow, States
  <2> QED
    BY <2>1, <2>2, BumpFields
<1> QED
  BY <1>2, <1>3, <1>4, <1>5, <1>6 DEF Operation

\* A step on a confirmed group adds no row to it and takes no proposal from it.
LEMMA ContractFreezes ==
    ASSUME TypeOK, NEW g \in Groups, groups[g].state = "confirmed", Exists(groups'[g]),
           Operation(g)
    PROVE  avail'[g] \subseteq avail[g] /\ proposals' = proposals /\ votes' \subseteq votes
<1>1. Contract!Amend(g) \/ Contract!Enrol(g) \/ Contract!Expel(g) \/ Contract!Reopen(g)
  <2>1. ~ Contract!Found(g) /\ ~ Contract!Disband(g)
    BY ContractRows DEF Exists
  <2>2. ~ Contract!Open(g)
    BY SameWords
  <2> QED
    BY <2>1, <2>2 DEF Operation, Contract!Answer, Contract!Offer, Contract!Retract, Contract!CastVote,
       Contract!Settle
<1>2. proposals' = proposals
  BY <1>1 DEF Contract!Amend, Contract!Enrol, Contract!Expel, Contract!Reopen
<1>3. CASE Contract!Amend(g) \/ Contract!Reopen(g)
  BY <1>2, <1>3, ContractShrinks
<1>4. CASE Contract!Enrol(g)
  BY <1>2, <1>4 DEF Contract!Enrol
<1>5. CASE Contract!Expel(g)
  <2>1. PICK u \in Users : /\ avail' = [avail EXCEPT ![g] = {a \in @ : a[1] # u}]
                           /\ votes' = {v \in votes : ~(v[2] = u /\ ProposalGroup[v[1]] = g)}
    BY <1>5 DEF Contract!Expel, Contract!Members
  <2> QED
    BY <1>2, <2>1 DEF TypeOK
<1> QED
  BY <1>1, <1>3, <1>4, <1>5

-----------------------------------------------------------------------------
(* The limits: what has been counted and what is about to be added.        *)

\* A set and the requests about to add to it: whoever counts finds room, and whoever
\* adds was among them.
LEMMA Room ==
    ASSUME NEW S, IsFiniteSet(S), NEW T, NEW J, J \subseteq Requests, NEW K,
           NEW n \in Nat,
           Cardinality(S) + Cardinality(J) <= n + (Cardinality(Requests) - 1),
           \/ T \subseteq S /\ K \subseteq J
           \/ T \subseteq S /\ K \subseteq Requests /\ Cardinality(S) < n
           \/ \E x, r : T \subseteq S \cup {x} /\ r \in J /\ K \subseteq J \ {r}
    PROVE  Cardinality(T) + Cardinality(K) <= n + (Cardinality(Requests) - 1)
<1>1. IsFiniteSet(Requests) /\ Cardinality(Requests) \in Nat
  BY SchedulingAssumption, FS_CardinalityType
<1>2. IsFiniteSet(J) /\ Cardinality(J) \in Nat /\ Cardinality(S) \in Nat
  BY <1>1, FS_Subset, FS_CardinalityType
<1>3. CASE T \subseteq S /\ K \subseteq J
  <2>1. /\ Cardinality(T) <= Cardinality(S) /\ Cardinality(K) <= Cardinality(J)
        /\ Cardinality(T) \in Nat /\ Cardinality(K) \in Nat
    BY <1>2, <1>3, FS_Subset, FS_CardinalityType
  <2> QED
    BY <1>1, <1>2, <2>1
<1>4. CASE T \subseteq S /\ K \subseteq Requests /\ Cardinality(S) < n
  <2>1. /\ Cardinality(T) <= Cardinality(S) /\ Cardinality(K) <= Cardinality(Requests)
        /\ Cardinality(T) \in Nat /\ Cardinality(K) \in Nat
    BY <1>1, <1>4, FS_Subset, FS_CardinalityType
  <2> QED
    BY <1>1, <1>2, <1>4, <2>1
<1>5. ASSUME NEW x, NEW r \in J, T \subseteq S \cup {x}, K \subseteq J \ {r}
      PROVE  Cardinality(T) + Cardinality(K) <= n + (Cardinality(Requests) - 1)
  <2>1. /\ IsFiniteSet(S \cup {x})
        /\ Cardinality(S \cup {x}) = Cardinality(S) \/ Cardinality(S \cup {x}) = Cardinality(S) + 1
    BY FS_AddElement
  <2>2. /\ IsFiniteSet(T) /\ Cardinality(T) <= Cardinality(S \cup {x})
        /\ Cardinality(T) \in Nat
    BY <1>5, <2>1, FS_Subset, FS_CardinalityType
  <2>3. IsFiniteSet(J \ {r}) /\ Cardinality(J \ {r}) = Cardinality(J) - 1
    BY <1>2, FS_RemoveElement
  <2>4. Cardinality(K) <= Cardinality(J \ {r}) /\ Cardinality(K) \in Nat
    BY <1>5, <2>3, FS_Subset, FS_CardinalityType
  <2> QED
    BY <1>1, <1>2, <2>1, <2>2, <2>3, <2>4
<1> QED
  BY <1>3, <1>4, <1>5

MembersFit(g) ==
    Cardinality(Members(g)) + Cardinality(Joining(g)) <= MaxMembers + (Cardinality(Requests) - 1)
ProposalsFit(g) ==
    Cardinality(LiveProposals(g)) + Cardinality(Offering(g))
       <= MaxProposals + (Cardinality(Requests) - 1)
OwnedFit(u) ==
    Cardinality(Owned(u)) + Cardinality(Founding(u))
       <= MaxGroupsPerUser + (Cardinality(Requests) - 1)

AllFit == (\A g \in Groups : MembersFit(g) /\ ProposalsFit(g)) /\ \A u \in Users : OwnedFit(u)

\* The limits, with their common allowance written out.
LEMMA LimitsAreFits == LimitsHold <=> AllFit
<1>1. Cardinality(Requests) \in Nat
  BY SchedulingAssumption, FS_CardinalityType
<1> QED
  BY <1>1, SchedulingAssumption DEF LimitsHold, AllFit, MembersFit, ProposalsFit, OwnedFit

\* The owner of a group is one of its members.
LEMMA OwnedAreJoined ==
    ASSUME OverlapInv, NEW u \in Users
    PROVE  Owned(u) \subseteq Groupships(u) /\ IsFiniteSet(Owned(u))
<1>1. Owned(u) \subseteq Groupships(u)
  BY DEF OverlapInv, IInv, OneOwner, Owned, Groupships
<1> QED
  BY <1>1, FS_Subset DEF OverlapInv, RowsFinite

\* What a step that adds nothing does: the tables stay, and the session of r is about
\* to add what it was about to add, or nothing.
AddsNothing(r) ==
    /\ UNCHANGED tables
    /\ \A s \in Requests \ {r} : req'[s] = req[s]
    /\ req'[r].memIns = {} /\ req'[r].propIns = {} /\ req'[r].stmt # "insert"

\* All decisions but three, and the ends of a session without a commit.
LEMMA StepAddsNothing ==
    ASSUME OverlapInv, NEW r \in Requests, Step(r)
    PROVE  \/ AddsNothing(r) \/ Commit(r)
           \/ \E u \in Users, g \in Groups : CreateGroup(r, u, g)
           \/ \E t \in 0 .. MaxRotations : JoinGroup(r, t)
           \/ \E p \in Proposals : CreateProposal(r, p)
<1>0. req \in [Requests -> Request]
  BY DEF OverlapInv, IInv, TypeOK
<1>1. Idle.memIns = {} /\ Idle.propIns = {} /\ Idle.stmt = "update"
  BY DEF Idle
<1>2. \A s \in Requests : req[s].phase = "loaded" =>
         req[s].memIns = {} /\ req[s].propIns = {} /\ req[s].stmt = "update"
  BY LoadedSession DEF Only, Pendings
<1>3. ASSUME NEW m, UNCHANGED tables, req' = [req EXCEPT ![r] = m],
             m.memIns = {}, m.propIns = {}, m.stmt # "insert"
      PROVE  AddsNothing(r)
  BY <1>0, <1>3 DEF AddsNothing
<1>4. ASSUME NEW n \in Request, PendBumped(r, n), n.memIns = {}, n.propIns = {},
             n.stmt = "update"
      PROVE  AddsNothing(r)
  <2>1. /\ UNCHANGED tables
        /\ req' = [req EXCEPT ![r] = [Bumped(n) EXCEPT !.phase = "ready"]]
    BY <1>4 DEF PendBumped, Pend
  <2>2. LET m == [Bumped(n) EXCEPT !.phase = "ready"]
        IN  m.memIns = {} /\ m.propIns = {} /\ m.stmt # "insert"
    BY <1>4, PendedFields DEF Pendings
  <2> QED
    BY <1>3, <2>1, <2>2
<1>5. CASE Finish(r) \/ Abort(r)
  BY <1>1, <1>3, <1>5 DEF Finish, Abort, Close
<1>6. ASSUME NEW u \in Users, NEW g \in Groups, Load(r, u, g) PROVE AddsNothing(r)
  <2>1. LET m == [Idle EXCEPT !.phase = "loaded", !.user = u, !.group = g,
                    !.role = roles[g][u], !.row = groups[g], !.obj = groups[g]]
        IN  m.memIns = {} /\ m.propIns = {} /\ m.stmt # "insert"
    BY DEF Idle
  <2> QED
    BY <1>3, <1>6, <2>1 DEF Load
<1>7. CASE DeleteGroup(r)
  <2>1. req[r].phase = "loaded" /\ req[r] \in Request
    BY <1>0, <1>7 DEF DeleteGroup, AsOwner, Caller
  <2>2. LET m == [[req[r] EXCEPT !.stmt = "delete"] EXCEPT !.phase = "ready"]
        IN  m.memIns = {} /\ m.propIns = {} /\ m.stmt # "insert"
    BY <1>2, <2>1 DEF Request
  <2> QED
    BY <1>3, <1>7, <2>2 DEF DeleteGroup, Pend
<1>8. ASSUME NEW n \in Request, PendBumped(r, n), req[r].phase = "loaded",
             n.memIns = req[r].memIns, n.propIns = req[r].propIns, n.stmt = req[r].stmt
      PROVE  AddsNothing(r)
  BY <1>2, <1>4, <1>8
<1>9. ASSUME NEW w \in Windows, NEW b \in BOOLEAN, NEW i \in BOOLEAN, NEW k \in 0 .. MaxVersion,
             UpdateGroup(r, w, b, i, k)
      PROVE  AddsNothing(r)
  <2> DEFINE q == req[r]
             del == {<<a[1], a[2]>> : a \in {x \in avail[q.group] : b /\ x[2] \notin w}}
             invite == IF i THEN q.obj.invite + 1 ELSE q.obj.invite
             n == [q EXCEPT !.ifMatch = k, !.obj.window = w, !.obj.invite = invite,
                            !.avDel = del]
  <2>1. q.phase = "loaded" /\ PendBumped(r, n) /\ q \in Request /\ q.group \in Groups
    BY <1>0, <1>9 DEF UpdateGroup, AsOwner, Caller, Request
  <2>2. invite \in Nat /\ k \in Nat
    BY <2>1, SchedulingAssumption DEF Request, GroupRow
  <2>3. del \in SUBSET (Users \X Slots)
    BY <2>1 DEF OverlapInv, IInv, TypeOK, AvailRow
  <2> HIDE DEF del, invite
  <2>4. n \in Request /\ n.memIns = q.memIns /\ n.propIns = q.propIns /\ n.stmt = q.stmt
    BY <2>1, <2>2, <2>3 DEF Request, GroupRow
  <2> QED
    BY <1>8, <2>1, <2>4
<1>10. CASE UnconfirmGroup(r)
  <2> DEFINE q == req[r]
             del == {k \in Key : k[1] = q.row.pid /\ reminders[k] \in {"waiting", "locked"}}
             n == [q EXCEPT !.obj.state = "open", !.obj.pid = NoProposal, !.jobDel = del]
  <2>1. q.phase = "loaded" /\ PendBumped(r, n) /\ q \in Request
    BY <1>0, <1>10 DEF UnconfirmGroup, AsOwner, Caller
  <2>2. del \in SUBSET Key
    OBVIOUS
  <2> HIDE DEF del
  <2>3. n \in Request /\ n.memIns = q.memIns /\ n.propIns = q.propIns /\ n.stmt = q.stmt
    BY <2>1, <2>2 DEF Request, GroupRow, States
  <2> QED
    BY <1>8, <2>1, <2>3
<1>11. ASSUME NEW u \in Users, RemoveMember(r, u) PROVE AddsNothing(r)
  <2> DEFINE q == req[r]
             del == {<<a[1], a[2]>> : a \in {b \in avail[q.group] : b[1] = u}}
             vdel == {<<v[1], v[2]>> : v \in {w \in votes :
                         w[2] = u /\ ProposalGroup[w[1]] = q.group}}
             n == [q EXCEPT !.avDel = del, !.voteDel = vdel, !.memDel = {u}]
  <2>1. q.phase = "loaded" /\ PendBumped(r, n) /\ q \in Request /\ q.group \in Groups
    BY <1>0, <1>11 DEF RemoveMember, AsMember, Caller, Request
  <2>2. del \in SUBSET (Users \X Slots) /\ vdel \in SUBSET Key
    BY <2>1 DEF OverlapInv, IInv, TypeOK, AvailRow, VoteRow, Key
  <2> HIDE DEF del, vdel
  <2>3. n \in Request /\ n.memIns = q.memIns /\ n.propIns = q.propIns /\ n.stmt = q.stmt
    BY <2>1, <2>2 DEF Request
  <2> QED
    BY <1>8, <2>1, <2>3
<1>12. ASSUME NEW sel \in Selections, PutMyAvailability(r, sel) PROVE AddsNothing(r)
  <2> DEFINE q == req[r]
             del == {<<a[1], a[2]>> : a \in {b \in avail[q.group] : b[1] = q.user}}
             ins == Preferring(q.user, sel)
             n == [q EXCEPT !.avDel = del, !.avIns = ins, !.submit = {q.user}]
  <2>1. q.phase = "loaded" /\ PendBumped(r, n) /\ q \in Request /\ q.group \in Groups
        /\ q.user \in Users
    BY <1>0, <1>12 DEF PutMyAvailability, AsMember, Caller, Request
  <2>2. del \in SUBSET (Users \X Slots) /\ ins \in SUBSET AvailRow
    BY <2>1, SchedulingAssumption DEF OverlapInv, IInv, TypeOK, AvailRow, Preferring, Marks
  <2> HIDE DEF del, ins
  <2>3. n \in Request /\ n.memIns = q.memIns /\ n.propIns = q.propIns /\ n.stmt = q.stmt
    BY <2>1, <2>2 DEF Request
  <2> QED
    BY <1>8, <2>1, <2>3
<1>13. ASSUME NEW p \in Proposals, DeleteProposal(r, p) \/ DeleteVote(r, p) PROVE AddsNothing(r)
  <2> DEFINE q == req[r]
  <2>1. q.phase = "loaded" /\ q \in Request /\ q.user \in Users
    BY <1>0, <1>13 DEF DeleteProposal, DeleteVote, AsOwner, AsMember, Caller, Request
  <2>2. CASE DeleteProposal(r, p)
    <3>1. LET n == [q EXCEPT !.propDel = {p}]
          IN  /\ n \in Request /\ PendBumped(r, n)
              /\ n.memIns = q.memIns /\ n.propIns = q.propIns /\ n.stmt = q.stmt
      BY <2>1, <2>2 DEF Request, DeleteProposal
    <3> QED
      BY <1>8, <2>1, <3>1
  <2>3. CASE DeleteVote(r, p)
    <3>1. LET n == [q EXCEPT !.voteDel = {<<p, q.user>>}]
          IN  /\ n \in Request /\ PendBumped(r, n)
              /\ n.memIns = q.memIns /\ n.propIns = q.propIns /\ n.stmt = q.stmt
      BY <2>1, <2>3 DEF Request, DeleteVote, Key
    <3> QED
      BY <1>8, <2>1, <3>1
  <2> QED
    BY <1>13, <2>2, <2>3
<1>14. ASSUME NEW p \in Proposals, NEW v \in VoteValues, PutVote(r, p, v) PROVE AddsNothing(r)
  <2> DEFINE q == req[r]
             mine == {w \in votes : w[1] = p /\ w[2] = q.user}
             ins == IF mine = {} THEN {<<p, q.user, v>>} ELSE {}
             upd == IF mine = {} THEN {} ELSE {<<p, q.user, v>>} \ mine
             n == [q EXCEPT !.voteIns = ins, !.voteUpd = upd]
  <2>1. q.phase = "loaded" /\ PendBumped(r, n) /\ q \in Request /\ q.user \in Users
    BY <1>0, <1>14 DEF PutVote, AsMember, Caller, Request
  <2>2. ins \in SUBSET VoteRow /\ upd \in SUBSET VoteRow
    BY <2>1 DEF VoteRow
  <2> HIDE DEF mine, ins, upd
  <2>3. n \in Request /\ n.memIns = q.memIns /\ n.propIns = q.propIns /\ n.stmt = q.stmt
    BY <2>1, <2>2 DEF Request
  <2> QED
    BY <1>8, <2>1, <2>3
<1>15. ASSUME NEW p \in Proposals, NEW b \in BOOLEAN, ConfirmGroup(r, p, b) PROVE AddsNothing(r)
  <2> DEFINE q == req[r]
             jobs == IF b /\ RunAfter(p) > now
                     THEN {p} \X (Members(q.group) \cap Notified) ELSE {}
             n == [q EXCEPT !.obj.state = "confirmed", !.obj.pid = p, !.jobIns = jobs]
  <2>1. q.phase = "loaded" /\ PendBumped(r, n) /\ q \in Request
    BY <1>0, <1>15 DEF ConfirmGroup, AsOwner, Caller
  <2>2. jobs \in SUBSET Key
    BY DEF Members, Key
  <2> HIDE DEF jobs
  <2>3. n \in Request /\ n.memIns = q.memIns /\ n.propIns = q.propIns /\ n.stmt = q.stmt
    BY <2>1, <2>2 DEF Request, GroupRow, States
  <2> QED
    BY <1>8, <2>1, <2>3
<1> QED
  BY <1>5, <1>6, <1>7, <1>9, <1>10, <1>11, <1>12, <1>13, <1>14, <1>15 DEF Step


\* A step that writes no table, and what r is about to add after it has been counted.
Counts(r) ==
    LET q == req'[r] IN
    /\ UNCHANGED tables
    /\ \A s \in Requests \ {r} : req'[s] = req[s]
    /\ q.memIns # {} => Cardinality(Members(q.group)) < MaxMembers
    /\ q.propIns # {} => Cardinality(LiveProposals(q.group)) < MaxProposals
    /\ q.stmt = "insert" => Cardinality(Owned(q.user)) < MaxGroupsPerUser

\* Whoever has counted finds room.
LEMMA CountsFits ==
    ASSUME OverlapInv, AllFit, NEW r \in Requests, Counts(r)
    PROVE  AllFit'
<1> DEFINE q == req'[r]
<1>1. /\ \A g \in Groups : IsFiniteSet(Members(g)) /\ IsFiniteSet(LiveProposals(g))
      /\ \A u \in Users : IsFiniteSet(Owned(u))
      /\ MaxMembers \in Nat /\ MaxProposals \in Nat /\ MaxGroupsPerUser \in Nat
  BY OwnedAreJoined, SchedulingAssumption DEF OverlapInv, RowsFinite
<1>2. /\ \A g \in Groups : /\ Members(g)' = Members(g) /\ LiveProposals(g)' = LiveProposals(g)
                           /\ Joining(g) \subseteq Requests /\ Joining(g)' \subseteq Requests
                           /\ Offering(g) \subseteq Requests /\ Offering(g)' \subseteq Requests
      /\ \A u \in Users : /\ Owned(u)' = Owned(u)
                          /\ Founding(u) \subseteq Requests /\ Founding(u)' \subseteq Requests
  BY DEF Counts, tables, Members, LiveProposals, Owned, Joining, Offering, Founding, Exists
<1>3. ASSUME NEW g \in Groups PROVE MembersFit(g)' /\ ProposalsFit(g)'
  <2>1. Joining(g)' \subseteq Joining(g) \/ Cardinality(Members(g)) < MaxMembers
    BY DEF Counts, Joining
  <2>2. Offering(g)' \subseteq Offering(g) \/ Cardinality(LiveProposals(g)) < MaxProposals
    BY DEF Counts, Offering
  <2>3. Cardinality(Members(g)) + Cardinality(Joining(g)) <= MaxMembers + (Cardinality(Requests) - 1)
    BY <1>3 DEF AllFit, MembersFit
  <2>4. Cardinality(LiveProposals(g)) + Cardinality(Offering(g))
          <= MaxProposals + (Cardinality(Requests) - 1)
    BY <1>3 DEF AllFit, ProposalsFit
  <2>5. Cardinality(Members(g)) + Cardinality(Joining(g)') <= MaxMembers + (Cardinality(Requests) - 1)
    BY <1>1, <1>2, <2>1, <2>3, Room
  <2>6. Cardinality(LiveProposals(g)) + Cardinality(Offering(g)')
          <= MaxProposals + (Cardinality(Requests) - 1)
    BY <1>1, <1>2, <2>2, <2>4, Room
  <2> QED
    BY <1>2, <2>5, <2>6 DEF MembersFit, ProposalsFit
<1>4. ASSUME NEW u \in Users PROVE OwnedFit(u)'
  <2>1. Founding(u)' \subseteq Founding(u) \/ Cardinality(Owned(u)) < MaxGroupsPerUser
    BY DEF Counts, Founding
  <2>2. Cardinality(Owned(u)) + Cardinality(Founding(u))
          <= MaxGroupsPerUser + (Cardinality(Requests) - 1)
    BY <1>4 DEF AllFit, OwnedFit
  <2>3. Cardinality(Owned(u)) + Cardinality(Founding(u)')
          <= MaxGroupsPerUser + (Cardinality(Requests) - 1)
    BY <1>1, <1>2, <2>1, <2>2, Room
  <2> QED
    BY <1>2, <2>3 DEF OwnedFit
<1> QED
  BY <1>3, <1>4 DEF AllFit

\* A commit adds what was announced: at most one member, one proposal, one group.
LEMMA CommitFits ==
    ASSUME OverlapInv, AllFit, NEW r \in Requests, Commit(r)
    PROVE  AllFit'
<1> DEFINE q == req[r]
<1>0. q \in Request /\ q.user \in Users /\ q.group \in Groups /\ Tidy(q)
  BY DEF OverlapInv, IInv, TypeOK, Request, Sound
<1>1. /\ \A g \in Groups : IsFiniteSet(Members(g)) /\ IsFiniteSet(LiveProposals(g))
      /\ \A u \in Users : IsFiniteSet(Owned(u))
      /\ MaxMembers \in Nat /\ MaxProposals \in Nat /\ MaxGroupsPerUser \in Nat
  BY OwnedAreJoined, SchedulingAssumption DEF OverlapInv, RowsFinite
<1>2. /\ req'[r].memIns = {} /\ req'[r].propIns = {} /\ req'[r].stmt = "update"
      /\ \A s \in Requests \ {r} : req'[s] = req[s]
  BY DEF Commit, Close, Idle, OverlapInv, IInv, TypeOK
<1>3. /\ \A g \in Groups : /\ Joining(g)' \subseteq Joining(g) \ {r}
                           /\ Offering(g)' \subseteq Offering(g) \ {r}
                           /\ Joining(g) \subseteq Requests /\ Offering(g) \subseteq Requests
      /\ \A u \in Users : Founding(u)' \subseteq Founding(u) \ {r} /\ Founding(u) \subseteq Requests
  BY <1>2 DEF Joining, Offering, Founding
<1>4. /\ \A h \in Groups : Members(h)' \subseteq Members(h)
                             \cup IF h = q.group THEN q.memIns ELSE {}
      /\ \A h \in Groups : LiveProposals(h)' \subseteq LiveProposals(h)
                             \cup IF h = q.group THEN q.propIns ELSE {}
      /\ q.memIns \subseteq {q.user} /\ \A p, x \in q.propIns : p = x
  BY CommitAdds
<1>5. ASSUME NEW g \in Groups PROVE MembersFit(g)'
  <2>1. \/ Members(g)' \subseteq Members(g)
        \/ Members(g)' \subseteq Members(g) \cup {q.user} /\ r \in Joining(g)
    BY <1>4 DEF Joining
  <2>2. Cardinality(Members(g)) + Cardinality(Joining(g)) <= MaxMembers + (Cardinality(Requests) - 1)
    BY <1>5 DEF AllFit, MembersFit
  <2>3. Cardinality(Members(g)') + Cardinality(Joining(g)') <= MaxMembers + (Cardinality(Requests) - 1)
    <3> HIDE DEF q
    <3>1. CASE Members(g)' \subseteq Members(g)
      BY <1>1, <1>3, <2>2, <3>1, Room
    <3>2. CASE Members(g)' \subseteq Members(g) \cup {q.user} /\ r \in Joining(g)
      BY <1>1, <1>3, <2>2, <3>2, Room
    <3> QED
      BY <2>1, <3>1, <3>2
  <2> QED
    BY <2>3 DEF MembersFit
<1>6. ASSUME NEW g \in Groups PROVE ProposalsFit(g)'
  <2>1. \/ LiveProposals(g)' \subseteq LiveProposals(g)
        \/ \E p : LiveProposals(g)' \subseteq LiveProposals(g) \cup {p} /\ r \in Offering(g)
    <3>1. CASE g = q.group /\ q.propIns # {}
      <4>1. PICK p \in q.propIns : q.propIns = {p}
        BY <1>4, <3>1
      <4> QED
        BY <1>4, <3>1, <4>1 DEF Offering
    <3>2. CASE ~(g = q.group /\ q.propIns # {})
      BY <1>4, <3>2
    <3> QED
      BY <3>1, <3>2
  <2>2. Cardinality(LiveProposals(g)) + Cardinality(Offering(g))
          <= MaxProposals + (Cardinality(Requests) - 1)
    BY <1>6 DEF AllFit, ProposalsFit
  <2>3. Cardinality(LiveProposals(g)') + Cardinality(Offering(g)')
          <= MaxProposals + (Cardinality(Requests) - 1)
    <3>1. CASE LiveProposals(g)' \subseteq LiveProposals(g)
      BY <1>1, <1>3, <2>2, <3>1, Room
    <3>2. ASSUME NEW p, LiveProposals(g)' \subseteq LiveProposals(g) \cup {p}, r \in Offering(g)
          PROVE  Cardinality(LiveProposals(g)') + Cardinality(Offering(g)')
                   <= MaxProposals + (Cardinality(Requests) - 1)
      BY <1>1, <1>3, <2>2, <3>2, Room
    <3> QED
      BY <2>1, <3>1, <3>2
  <2> QED
    BY <2>3 DEF ProposalsFit
<1>7. ASSUME NEW u \in Users PROVE OwnedFit(u)'
  <2>1. /\ \A h \in Groups \ {q.group} : groups'[h] = groups[h]
        /\ Exists(groups'[q.group]) /\ q.stmt # "insert" =>
             Exists(groups[q.group]) /\ groups'[q.group].owner = groups[q.group].owner
        /\ q.stmt = "insert" => groups'[q.group].owner = q.user
    BY <1>0, CommitRow DEF OverlapInv, Tidy
  <2>2. \/ Owned(u)' \subseteq Owned(u)
        \/ Owned(u)' \subseteq Owned(u) \cup {q.group} /\ r \in Founding(u)
    <3>1. CASE q.stmt = "insert"
      BY <2>1, <3>1 DEF Owned, Founding, Exists
    <3>2. CASE q.stmt # "insert"
      BY <2>1, <3>2 DEF Owned, Exists
    <3> QED
      BY <3>1, <3>2
  <2>3. Cardinality(Owned(u)) + Cardinality(Founding(u))
          <= MaxGroupsPerUser + (Cardinality(Requests) - 1)
    BY <1>7 DEF AllFit, OwnedFit
  <2>4. Cardinality(Owned(u)') + Cardinality(Founding(u)')
          <= MaxGroupsPerUser + (Cardinality(Requests) - 1)
    <3> HIDE DEF q
    <3>1. CASE Owned(u)' \subseteq Owned(u)
      BY <1>1, <1>3, <2>3, <3>1, Room
    <3>2. CASE Owned(u)' \subseteq Owned(u) \cup {q.group} /\ r \in Founding(u)
      BY <1>1, <1>3, <2>3, <3>2, Room
    <3> QED
      BY <2>2, <3>1, <3>2
  <2> QED
    BY <2>4 DEF OwnedFit
<1> QED
  BY <1>5, <1>6, <1>7 DEF AllFit

\* The three operations that add something count first.
LEMMA AdditionsCount ==
    ASSUME OverlapInv, NEW r \in Requests,
           \/ \E u \in Users, g \in Groups : CreateGroup(r, u, g)
           \/ \E t \in 0 .. MaxRotations : JoinGroup(r, t)
           \/ \E p \in Proposals : CreateProposal(r, p)
    PROVE  Counts(r)
<1>0. req \in [Requests -> Request]
  BY DEF OverlapInv, IInv, TypeOK
<1>1. ASSUME NEW u \in Users, NEW g \in Groups, CreateGroup(r, u, g) PROVE Counts(r)
  <2>1. PICK w \in Windows :
          Pend(r, [Idle EXCEPT !.user = u, !.group = g, !.stmt = "insert",
                     !.obj = [BlankRow EXCEPT !.owner = u, !.state = "open",
                                !.window = w, !.version = 1],
                     !.memIns = {u}])
    BY <1>1 DEF CreateGroup
  <2>2. /\ req'[r].user = u /\ req'[r].group = g /\ req'[r].propIns = {}
        /\ \A s \in Requests \ {r} : req'[s] = req[s]
        /\ UNCHANGED tables
    BY <1>0, <2>1 DEF Pend, Idle
  <2>3. Cardinality(Members(g)) < MaxMembers
    <3>1. Members(g) = {}
      BY <1>1 DEF CreateGroup, OverlapInv, IInv, NoRolesBefore, Members
    <3> QED
      BY <3>1, FS_EmptySet, SchedulingAssumption
  <2>4. Cardinality(Owned(u)) < MaxGroupsPerUser
    <3>1. Cardinality(Groupships(u)) < MaxGroupsPerUser
      BY <1>1 DEF CreateGroup, Groupships
    <3>2. /\ Owned(u) \subseteq Groupships(u) /\ IsFiniteSet(Groupships(u))
      BY OwnedAreJoined DEF OverlapInv, RowsFinite
    <3>3. /\ Cardinality(Owned(u)) <= Cardinality(Groupships(u))
          /\ Cardinality(Owned(u)) \in Nat /\ Cardinality(Groupships(u)) \in Nat
      BY <3>2, FS_Subset, FS_CardinalityType
    <3> QED
      BY <3>1, <3>3, SchedulingAssumption
  <2> QED
    BY <2>2, <2>3, <2>4 DEF Counts
<1>2. ASSUME NEW t \in 0 .. MaxRotations, JoinGroup(r, t) PROVE Counts(r)
  <2> DEFINE q == req[r]
             n == [q EXCEPT !.token = t, !.memIns = {q.user}]
  <2>1. /\ q.phase = "loaded" /\ Cardinality(Members(q.group)) < MaxMembers
        /\ PendBumped(r, n) /\ q \in Request
    BY <1>0, <1>2 DEF JoinGroup, Caller
  <2>2. q.propIns = {} /\ q.stmt = "update"
    BY <2>1, LoadedSession DEF Only, Pendings
  <2>3. n \in Request /\ n.propIns = {} /\ n.stmt = "update" /\ n.group = q.group
    <3>1. t \in Nat
      BY SchedulingAssumption
    <3> QED
      BY <2>1, <2>2, <3>1 DEF Request
  <2>4. LET m == [Bumped(n) EXCEPT !.phase = "ready"]
        IN  m.propIns = {} /\ m.stmt = "update" /\ m.group = q.group
    BY <2>3, PendedFields DEF Pendings
  <2>5. /\ req'[r] = [Bumped(n) EXCEPT !.phase = "ready"]
        /\ \A s \in Requests \ {r} : req'[s] = req[s]
        /\ UNCHANGED tables
    BY <1>0, <2>1 DEF PendBumped, Pend
  <2> QED
    BY <2>1, <2>4, <2>5 DEF Counts
<1>3. ASSUME NEW p \in Proposals, CreateProposal(r, p) PROVE Counts(r)
  <2> DEFINE q == req[r]
             n == [q EXCEPT !.propIns = {p}]
  <2>1. /\ q.phase = "loaded" /\ Cardinality(LiveProposals(q.group)) < MaxProposals
        /\ PendBumped(r, n) /\ q \in Request
    BY <1>0, <1>3 DEF CreateProposal, AsOwner, Caller
  <2>2. q.memIns = {} /\ q.stmt = "update"
    BY <2>1, LoadedSession DEF Only, Pendings
  <2>3. n \in Request /\ n.memIns = {} /\ n.stmt = "update" /\ n.group = q.group
    BY <2>1, <2>2 DEF Request
  <2>4. LET m == [Bumped(n) EXCEPT !.phase = "ready"]
        IN  m.memIns = {} /\ m.stmt = "update" /\ m.group = q.group
    BY <2>3, PendedFields DEF Pendings
  <2>5. /\ req'[r] = [Bumped(n) EXCEPT !.phase = "ready"]
        /\ \A s \in Requests \ {r} : req'[s] = req[s]
        /\ UNCHANGED tables
    BY <1>0, <2>1 DEF PendBumped, Pend
  <2> QED
    BY <2>1, <2>4, <2>5 DEF Counts
<1> QED
  BY <1>1, <1>2, <1>3

\* Every step keeps the limits.
LEMMA LimitsStep ==
    ASSUME OverlapInv, AllFit, [Next]_vars
    PROVE  AllFit'
<1>1. CASE UNCHANGED <<tables, req>>
  BY <1>1 DEF AllFit, MembersFit, ProposalsFit, OwnedFit, tables, Members, LiveProposals,
     Owned, Joining, Offering, Founding, Exists
<1>2. ASSUME NEW r \in Requests, AddsNothing(r) PROVE Counts(r)
  BY <1>2 DEF AddsNothing, Counts
<1>3. ASSUME NEW r \in Requests, Step(r) PROVE AllFit'
  BY <1>2, <1>3, StepAddsNothing, AdditionsCount, CountsFits, CommitFits
<1> QED
  BY <1>1, <1>3 DEF Next, Tick, vars, tables

\* At the start nothing is there and nobody adds anything.
LEMMA LimitsInit ==
    ASSUME Init
    PROVE  AllFit
<1>1. /\ \A g \in Groups : /\ Members(g) = {} /\ LiveProposals(g) = {}
                           /\ Joining(g) = {} /\ Offering(g) = {}
      /\ \A u \in Users : Owned(u) = {} /\ Founding(u) = {}
  BY DEF Init, Members, LiveProposals, Joining, Offering, Owned, Founding, Exists, Idle, BlankRow
<1>2. Cardinality(Requests) \in Nat /\ Cardinality(Requests) # 0
  BY SchedulingAssumption, FS_CardinalityType, FS_EmptySet
<1>3. /\ 0 + 0 <= MaxMembers + (Cardinality(Requests) - 1)
      /\ 0 + 0 <= MaxProposals + (Cardinality(Requests) - 1)
      /\ 0 + 0 <= MaxGroupsPerUser + (Cardinality(Requests) - 1)
  BY <1>2, SchedulingAssumption
<1> QED
  BY <1>1, <1>3, FS_EmptySet DEF AllFit, MembersFit, ProposalsFit, OwnedFit

-----------------------------------------------------------------------------
(* What only a late commit can break, for any number of requests.          *)

\* In every reachable state a session that no commit has overtaken still holds what the
\* tables hold, and its pending changes are one operation on them; overtaken or not,
\* each session changes the rows of one group, votes are on live proposals, and nobody
\* has two votes on one.
THEOREM OverlapInvariant == Spec => []OverlapInv
<1>1. Init => OverlapInv
  BY OverlapInit
<1>2. OverlapInv /\ [Next]_vars => OverlapInv'
  BY OverlapStep
<1> QED
  BY <1>1, <1>2, PTL DEF Spec

\* A step of the tables is a step of the contract or a late commit.
LEMMA StepKeepsContract ==
    ASSUME OverlapInv, [Next]_vars
    PROVE  [Contract!Next \/ \E g \in Groups : LateCommit(g)]_(Contract!vars)
<1>1. CASE UNCHANGED tables
  BY <1>1 DEF tables, Contract!vars
<1>2. CASE ~ UNCHANGED tables
  <2>1. PICK g \in Groups : Operation(g) \/ LateCommit(g)
    BY <1>2, StepOnGroup
  <2>2. Operation(g) => Contract!Next
    BY DEF Operation, Contract!Next
  <2> QED
    BY <2>1, <2>2
<1> QED
  BY <1>1, <1>2

\* Every request that commits without being overtaken takes effect as one operation on
\* the group as it is at that instant, however many requests are in flight: the service
\* layer implements the contract, but for the late commits.
THEOREM KeepsContractHolds == Spec => KeepsContract
<1>1. Init => Contract!Init
  BY DEF Init, Contract!Init, BlankRow
<1>2. OverlapInv /\ [Next]_vars
        => [Contract!Next \/ \E g \in Groups : LateCommit(g)]_(Contract!vars)
  BY StepKeepsContract
<1> QED
  BY <1>1, <1>2, OverlapInvariant, PTL DEF Spec, KeepsContract

\* A step that writes no table, or another group, keeps what is said of a group.
LEMMA KeptSays ==
    ASSUME OverlapInv, NEW g \in Groups, GroupKept(g)
    PROVE  /\ ConfirmedLive(g) => ConfirmedLive(g)'
           /\ RowsOfMembers(g) => RowsOfMembers(g)'
           /\ WithinWindow(g) => WithinWindow(g)'
           /\ Content(g)' = Content(g) /\ Frozen(g)
<1>1. /\ Members(g)' = Members(g) /\ LiveProposals(g)' = LiveProposals(g)
      /\ groups'[g] = groups[g] /\ roles'[g] = roles[g] /\ avail'[g] = avail[g]
      /\ submitted'[g] = submitted[g] /\ GroupVotes(g)' = GroupVotes(g)
      /\ \A p \in Proposals : ProposalGroup[p] = g => proposals'[p] = proposals[p]
  BY KeptCounts DEF GroupKept
<1>2. ConfirmedLive(g) => ConfirmedLive(g)'
  <2>1. groups[g].state = "confirmed" =>
          groups[g].pid \in Proposals /\ ProposalGroup[groups[g].pid] = g
    BY DEF OverlapInv, IInv, TypeOK, ConfirmedIffProposal, GroupRow
  <2> QED
    BY <1>1, <2>1 DEF ConfirmedLive
<1>3. RowsOfMembers(g) => RowsOfMembers(g)'
  BY <1>1 DEF RowsOfMembers, GroupVotes
<1>4. WithinWindow(g) => WithinWindow(g)'
  BY <1>1 DEF WithinWindow
<1>5. Content(g)' = Content(g)
  <2>1. Content(g) = <<[groups[g] EXCEPT !.version = 0], roles[g], submitted[g], avail[g],
                       LiveProposals(g), GroupVotes(g)>>
    BY DEF Content, GroupVotes
  <2>2. Content(g)' = <<[groups'[g] EXCEPT !.version = 0], roles'[g], submitted'[g], avail'[g],
                        LiveProposals(g)', GroupVotes(g)'>>
    BY DEF Content, GroupVotes
  <2> QED
    BY <1>1, <2>1, <2>2
<1>6. Frozen(g)
  BY <1>1 DEF Frozen, GroupVotes
<1> QED
  BY <1>2, <1>3, <1>4, <1>5, <1>6

\* What a step does to one group: it keeps it, or is an operation or a late commit on it.
LEMMA StepOfGroup ==
    ASSUME OverlapInv, [Next]_vars, NEW g \in Groups
    PROVE  GroupKept(g) \/ Operation(g) \/ LateCommit(g)
<1>1. CASE UNCHANGED tables
  BY <1>1, TablesKept
<1>2. CASE ~ UNCHANGED tables
  BY <1>2, StepOnGroup
<1> QED
  BY <1>1, <1>2

\* A confirmed group keeps a live confirmed proposal, whatever requests overlap, until
\* a late commit: no operation that is decided on current rows takes it away.
THEOREM ConfirmedProposalLiveHolds == Spec => ConfirmedProposalLive
<1>1. OverlapInv /\ [Next]_vars
        => [\A g \in Groups : ConfirmedLive(g) => ConfirmedLive(g)' \/ LateCommit(g)]_vars
  <2> SUFFICES ASSUME OverlapInv, [Next]_vars, NEW g \in Groups, ConfirmedLive(g)
               PROVE  ConfirmedLive(g)' \/ LateCommit(g)
    OBVIOUS
  <2>1. TypeOK /\ ConfirmedIffProposal
    BY DEF OverlapInv, IInv
  <2> QED
    BY <2>1, StepOfGroup, KeptSays, KeepsConfirmedProposal
<1> QED
  BY <1>1, OverlapInvariant, PTL DEF Spec, ConfirmedProposalLive

\* Availability and votes stay rows of members, whatever requests overlap, until a late
\* commit: removing a member removes all its rows.
THEOREM RowsOfMembersOnlyHolds == Spec => RowsOfMembersOnly
<1>1. OverlapInv /\ [Next]_vars
        => [\A g \in Groups : RowsOfMembers(g) => RowsOfMembers(g)' \/ LateCommit(g)]_vars
  <2> SUFFICES ASSUME OverlapInv, [Next]_vars, NEW g \in Groups, RowsOfMembers(g)
               PROVE  RowsOfMembers(g)' \/ LateCommit(g)
    OBVIOUS
  <2>1. TypeOK
    BY DEF OverlapInv, IInv
  <2> QED
    BY <2>1, StepOfGroup, KeptSays, KeepsRowsOfMembers
<1> QED
  BY <1>1, OverlapInvariant, PTL DEF Spec, RowsOfMembersOnly

\* Stored availability stays inside the bounds of its group, also when they change,
\* whatever requests overlap, until a late commit.
THEOREM AvailabilityInWindowHolds == Spec => AvailabilityInWindow
<1>1. OverlapInv /\ [Next]_vars
        => [\A g \in Groups : WithinWindow(g) => WithinWindow(g)' \/ LateCommit(g)]_vars
  <2> SUFFICES ASSUME OverlapInv, [Next]_vars, NEW g \in Groups, WithinWindow(g)
               PROVE  WithinWindow(g)' \/ LateCommit(g)
    OBVIOUS
  <2>1. TypeOK /\ NothingYet
    BY DEF OverlapInv, IInv
  <2> QED
    BY <2>1, StepOfGroup, KeptSays, KeepsAvailabilityInWindow
<1> QED
  BY <1>1, OverlapInvariant, PTL DEF Spec, AvailabilityInWindow

\* With n requests in flight the limits of members, proposals and groups are exceeded by
\* at most n - 1, counting what the requests in flight are about to add: with one
\* request they hold.
THEOREM LimitsHoldAlways == Spec => []LimitsHold
<1>1. Init => AllFit
  BY LimitsInit
<1>2. OverlapInv /\ AllFit /\ [Next]_vars => AllFit'
  BY LimitsStep
<1>3. AllFit => LimitsHold
  BY LimitsAreFits
<1> QED
  BY <1>1, <1>2, <1>3, OverlapInvariant, PTL DEF Spec

\* Whatever requests overlap, a commit that is not late raises the version of its group
\* by one when it changes what the group shows: two contents under one ETag come from
\* late commits alone.
THEOREM VersionCountsChangesHolds == Spec => VersionCountsChanges
<1>1. OverlapInv /\ [Next]_vars => [\A g \in Groups : Counted(g) \/ LateCommit(g)]_vars
  <2> SUFFICES ASSUME OverlapInv, [Next]_vars, NEW g \in Groups
               PROVE  Counted(g) \/ LateCommit(g)
    OBVIOUS
  <2>1. TypeOK
    BY DEF OverlapInv, IInv
  <2>2. GroupKept(g) => Counted(g)
    BY KeptSays DEF Counted
  <2>3. Operation(g) => Counted(g)
    BY <2>1, ContractVersion DEF Counted, Exists
  <2> QED
    BY <2>2, <2>3, StepOfGroup
<1> QED
  BY <1>1, OverlapInvariant, PTL DEF Spec, VersionCountsChanges

\* While a group is confirmed nothing is added to it and its proposals stay, whatever
\* requests overlap, unless a late commit does it.
THEOREM FrozenWhileConfirmedHolds == Spec => FrozenWhileConfirmed
<1>1. OverlapInv /\ [Next]_vars => [\A g \in Groups : Frozen(g) \/ LateCommit(g)]_vars
  <2> SUFFICES ASSUME OverlapInv, [Next]_vars, NEW g \in Groups
               PROVE  Frozen(g) \/ LateCommit(g)
    OBVIOUS
  <2>1. TypeOK
    BY DEF OverlapInv, IInv
  <2>2. Operation(g) => Frozen(g)
    <3> SUFFICES ASSUME Operation(g), groups[g].state = "confirmed", Exists(groups[g])'
                 PROVE  /\ avail'[g] \subseteq avail[g]
                        /\ LiveProposals(g)' = LiveProposals(g)
                        /\ \A v \in votes' : ProposalGroup[v[1]] = g => v \in votes
      BY DEF Frozen
    <3>1. avail'[g] \subseteq avail[g] /\ proposals' = proposals /\ votes' \subseteq votes
      BY <2>1, ContractFreezes DEF Exists
    <3> QED
      BY <3>1 DEF LiveProposals
  <2> QED
    BY <2>2, StepOfGroup, KeptSays
<1> QED
  BY <1>1, OverlapInvariant, PTL DEF Spec, FrozenWhileConfirmed

\* A PATCH that carries If-Match and is not overtaken changes exactly the version it
\* names, whatever other requests are in flight.
THEOREM IfMatchHonouredHolds == Spec => IfMatchHonoured
<1>1. OverlapInv /\ [Next]_vars => [IfMatchStep]_vars
  <2> SUFFICES ASSUME OverlapInv, NEW r \in Requests \ overtaken,
                      Commits(r), req[r].ifMatch # 0
               PROVE  groups[req[r].group].version = req[r].ifMatch
    BY DEF IfMatchStep
  <2>1. Sound(r) /\ req[r].phase = "ready"
    BY DEF OverlapInv, Commits
  <2> QED
    BY <2>1 DEF Sound, Tidy, FreshSession, Fresh
<1> QED
  BY <1>1, OverlapInvariant, PTL DEF Spec, IfMatchHonoured
=============================================================================
