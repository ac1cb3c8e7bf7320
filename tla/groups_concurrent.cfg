SPECIFICATION Spec
CONSTANTS
    g1 = g1
    p1 = p1
    p2 = p2
    Users = {owner, ann}
    Groups = {g1}
    Requests = {r1, r2}
    Proposals = {p1, p2}
    ProposalGroup <- InGroup1
    Span <- SameSpan
    NoProposal = NoProposal
    Slots <- MCSlots
    Windows <- MCWindows
    Selections <- OneSelection
    VoteValues = {"yes"}
    Notified = {}
    ReminderLead = 1
    MaxMembers = 2
    MaxProposals = 1
    MaxGroupsPerUser = 1
    Enabled = {"create", "patch", "drop", "join", "remove", "availability", "propose", "withdraw", "vote", "unvote", "confirm", "unconfirm"}
    MaxVersion = 4
    MaxRotations = 0
    MaxTime = 0
INVARIANTS
    ConfirmedIffProposal
    IInv
PROPERTIES
    ChangesAreAuthorised
    ConfirmedProposalLive
    RowsOfMembersOnly
    AvailabilityInWindow
    VersionCountsChanges
    FrozenWhileConfirmed
    IfMatchHonoured
    KeepsContract
CHECK_DEADLOCK FALSE
SYMMETRY ConcurrentSymmetry
