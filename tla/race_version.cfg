SPECIFICATION Spec
CONSTANTS
    g1 = g1
    p1 = p1
    p2 = p2
    Users = {owner, ann}
    Groups = {g1}
    Requests = {r1, r2}
    Proposals = {p1, p2}
    ProposalGroup <- InGroup1
    Span <- MCSpan
    NoProposal = NoProposal
    Slots <- MCSlots
    Windows <- MCWindows
    Selections <- OneSelection
    VoteValues = {"yes", "no"}
    Notified = {}
    ReminderLead = 1
    MaxMembers = 2
    MaxProposals = 1
    MaxGroupsPerUser = 1
    Enabled = {"create", "patch", "join", "remove", "availability", "propose", "withdraw", "vote", "confirm", "unconfirm"}
    MaxVersion = 4
    MaxRotations = 0
    MaxTime = 0
PROPERTY EveryChangeCounts
CHECK_DEADLOCK FALSE
SYMMETRY RequestSymmetry
