---------------------------- MODULE GroupContract ----------------------------
(***************************************************************************)
(* What the service layer promises the clients of a group: every request   *)
(* takes effect at one instant, on the group as it is at that instant, or  *)
(* not at all.  Sessions, stale rows and the flush do not appear here, and *)
(* neither do the reminders or the clock.                                  *)
(***************************************************************************)
EXTENDS Integers, FiniteSets

CONSTANTS Users, Groups, Proposals, ProposalGroup, Span, NoProposal, Windows,
          VoteValues, MaxMembers, MaxProposals

VARIABLES groups, roles, submitted, avail, proposals, votes

vars == <<groups, roles, submitted, avail, proposals, votes>>

Open(g) == groups[g].state = "open"
Confirmed(g) == groups[g].state = "confirmed"
Known(g) == Open(g) \/ Confirmed(g)
Members(g) == {u \in Users : roles[g][u] # "none"}
Offered(g) == {p \in Proposals : ProposalGroup[p] = g /\ proposals[p] = "live"}

Init ==
    /\ \A g \in Groups : groups[g].state = "absent"
    /\ roles = [g \in Groups |-> [u \in Users |-> "none"]]
    /\ submitted = [g \in Groups |-> {}]
    /\ avail = [g \in Groups |-> {}]
    /\ proposals = [p \in Proposals |-> "unused"]
    /\ votes = {}

\* The group becomes row, under the next version.
Bump(g, row) == groups' = [groups EXCEPT ![g] = [row EXCEPT !.version = groups[g].version + 1]]

Found(g) ==
    /\ groups[g].state = "absent"
    /\ \E u \in Users, w \in Windows :
         /\ groups' = [groups EXCEPT ![g] =
              [owner |-> u, state |-> "open", pid |-> NoProposal, window |-> w,
               invite |-> 0, version |-> 1]]
         /\ roles' = [roles EXCEPT ![g][u] = "owner"]
    /\ UNCHANGED <<submitted, avail, proposals, votes>>

\* A change of the bounds keeps exactly the availability that fits them.
Amend(g) ==
    /\ Known(g)
    /\ \E w \in Windows, i \in {groups[g].invite, groups[g].invite + 1} :
         /\ Bump(g, [groups[g] EXCEPT !.window = w, !.invite = i])
         /\ \/ avail' = [avail EXCEPT ![g] = {a \in @ : a[2] \in w}]
            \/ w = groups[g].window /\ UNCHANGED avail
    /\ UNCHANGED <<roles, submitted, proposals, votes>>

Disband(g) ==
    /\ Known(g)
    /\ groups'[g].state = "deleted"
    /\ groups' = [groups EXCEPT ![g] = groups'[g]]
    /\ roles' = [roles EXCEPT ![g] = [u \in Users |-> "none"]]
    /\ submitted' = [submitted EXCEPT ![g] = {}]
    /\ avail' = [avail EXCEPT ![g] = {}]
    /\ proposals' = [p \in Proposals |-> IF p \in Offered(g) THEN "deleted" ELSE proposals[p]]
    /\ votes' = {v \in votes : ProposalGroup[v[1]] # g}

Enrol(g) ==
    /\ Known(g)
    /\ Cardinality(Members(g)) < MaxMembers
    /\ \E u \in Users \ Members(g) : roles' = [roles EXCEPT ![g][u] = "member"]
    /\ Bump(g, groups[g])
    /\ UNCHANGED <<submitted, avail, proposals, votes>>

\* A member leaves with all its rows; the owner never does.
Expel(g) ==
    /\ Known(g)
    /\ \E u \in Members(g) \ {groups[g].owner} :
         /\ roles' = [roles EXCEPT ![g][u] = "none"]
         /\ submitted' = [submitted EXCEPT ![g] = @ \ {u}]
         /\ avail' = [avail EXCEPT ![g] = {a \in @ : a[1] # u}]
         /\ votes' = {v \in votes : ~(v[2] = u /\ ProposalGroup[v[1]] = g)}
    /\ Bump(g, groups[g])
    /\ UNCHANGED proposals

\* A member's new selection takes the place of the old one.
Answer(g) ==
    /\ Open(g)
    /\ \E u \in Members(g) :
         /\ {a \in avail'[g] : a[1] # u} = {a \in avail[g] : a[1] # u}
         /\ \A a \in avail'[g] : a[1] = u =>
              /\ a[2] \in groups[g].window
              /\ \A b \in avail'[g] : b[1] = u /\ b[2] = a[2] => b = a
         /\ avail' = [avail EXCEPT ![g] = avail'[g]]
         /\ submitted' = [submitted EXCEPT ![g] = @ \cup {u}]
    /\ Bump(g, groups[g])
    /\ UNCHANGED <<roles, proposals, votes>>

Offer(g) ==
    /\ Open(g)
    /\ Cardinality(Offered(g)) < MaxProposals
    /\ \E p \in Proposals :
         /\ ProposalGroup[p] = g /\ proposals[p] = "unused"
         /\ Span[p] \subseteq groups[g].window
         /\ proposals' = [proposals EXCEPT ![p] = "live"]
    /\ Bump(g, groups[g])
    /\ UNCHANGED <<roles, submitted, avail, votes>>

Retract(g) ==
    /\ Open(g)
    /\ \E p \in Offered(g) :
         /\ proposals' = [proposals EXCEPT ![p] = "deleted"]
         /\ votes' = {v \in votes : v[1] # p}
    /\ Bump(g, groups[g])
    /\ UNCHANGED <<roles, submitted, avail>>

\* A member has at most one vote on a proposal: it may cast, change or take it back.
CastVote(g) ==
    /\ Open(g)
    /\ \E p \in Offered(g), u \in Members(g) :
         LET others == {v \in votes : ~(v[1] = p /\ v[2] = u)} IN
         votes' \in {others} \cup {others \cup {<<p, u, x>>} : x \in VoteValues}
    /\ Bump(g, groups[g])
    /\ UNCHANGED <<roles, submitted, avail, proposals>>

Settle(g) ==
    /\ Open(g)
    /\ \E p \in Offered(g) :
         Bump(g, [groups[g] EXCEPT !.state = "confirmed", !.pid = p])
    /\ UNCHANGED <<roles, submitted, avail, proposals, votes>>

Reopen(g) ==
    /\ Confirmed(g)
    /\ Bump(g, [groups[g] EXCEPT !.state = "open", !.pid = NoProposal])
    /\ UNCHANGED <<roles, submitted, avail, proposals, votes>>

Next ==
    \E g \in Groups :
        \/ Found(g) \/ Amend(g) \/ Disband(g)
        \/ Enrol(g) \/ Expel(g) \/ Answer(g)
        \/ Offer(g) \/ Retract(g) \/ CastVote(g)
        \/ Settle(g) \/ Reopen(g)

Spec == Init /\ [][Next]_vars
=============================================================================
