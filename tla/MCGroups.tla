------------------------------ MODULE MCGroups ------------------------------
(***************************************************************************)
(* Small instances of GroupScheduling for TLC: two slots, proposals of one *)
(* or two slots, and the bounds that let each interesting case happen.     *)
(***************************************************************************)
EXTENDS GroupScheduling, TLC

CONSTANTS g1, p1, p2

\* Slot instants 2 and 3, so that a reminder with a lead of 1 can be in the
\* future (now = 0), due or in the past.
MCSlots == {2, 3}

\* The whole range, and the bounds that lose the second slot.
MCWindows == {{2, 3}, {2}}

\* One proposal per slot.
MCSpan == [p \in Proposals |-> IF p = p1 THEN {2} ELSE {3}]
SameSpan == [p \in Proposals |-> {2}]
InGroup1 == [p \in Proposals |-> g1]

\* Selections that overlap, with a slot in both lists of one of them.
MCSelections == {<<{2, 3}, {3}>>, <<{2}, {}>>, <<{}, {3}>>}
OneSelection == {<<{2, 3}, {3}>>}

\* The requests are interchangeable, and so are proposals of the same span.
RequestSymmetry == Permutations(Requests)
ConcurrentSymmetry == RequestSymmetry \cup Permutations(Proposals)
=============================================================================
