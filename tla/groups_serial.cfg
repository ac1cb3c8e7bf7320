SPECIFICATION Spec
CONSTANTS
    g1 = g1
    p1 = p1
    p2 = p2
    Users = {owner, ann, bob}
    Groups = {g1}
    Requests = {r1}
    Proposals = {p1, p2}
    ProposalGroup <- InGroup1
    Span <- MCSpan
    NoProposal = NoProposal
    Slots <- MCSlots
    Windows <- MCWindows
    Selections <- MCSelections
    VoteValues = {"yes", "no"}
    Notified = {ann}
    ReminderLead = 1
    MaxMembers = 2
    MaxProposals = 1
    MaxGroupsPerUser = 1
    Enabled = {"create", "patch", "drop", "join", "remove", "availability", "propose", "withdraw", "vote", "unvote", "confirm", "unconfirm"}
    MaxVersion = 7
    MaxRotations = 1
    MaxTime = 1
INVARIANTS
    TypeOK
    LimitsHold
PROPERTY KeepsContract
CHECK_DEADLOCK FALSE
