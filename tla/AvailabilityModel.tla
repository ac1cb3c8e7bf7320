--------------------------- MODULE AvailabilityModel ---------------------------
(***************************************************************************)
(* The pure part of the availability grid: availabilityModel.ts, and the   *)
(* matrix the server builds for it (get_availability_matrix).              *)
(*                                                                         *)
(* A selection maps every slot to one state.  On the wire it is a body of  *)
(* two sets of slots, and the matrix gives each member who answered two    *)
(* sets of slots out of the vector the server offers.                      *)
(***************************************************************************)
EXTENDS Integers, FiniteSets, FiniteSetsExt

CellStates == {"unselected", "available", "preferred"}

\* A click walks a cell round its three states.
NextState(state) ==
    CASE state = "unselected" -> "available"
      [] state = "available" -> "preferred"
      [] state = "preferred" -> "unselected"

ApplyState(selection, cells, state) ==
    [c \in DOMAIN selection |-> IF c \in cells THEN state ELSE selection[c]]

Marked(selection, state) == {c \in DOMAIN selection : selection[c] = state}
Selected(selection) == {c \in DOMAIN selection : selection[c] # "unselected"}

ToSelectionBody(selection) ==
    [available |-> Marked(selection, "available"),
     preferred |-> Marked(selection, "preferred")]

\* A slot in both lists is preferred.
SelectionFromPayload(cells, payload) ==
    [c \in cells |-> IF c \in payload.preferred THEN "preferred"
                     ELSE IF c \in payload.available THEN "available"
                     ELSE "unselected"]

\* Marked slots that the server's vector no longer offers.
OrphanedSlots(selection, slots) == Selected(selection) \ slots

-----------------------------------------------------------------------------
(* The matrix: what each member who answered marked, slot by slot.         *)

\* get_availability_matrix: rows outside the vector are skipped, and only
\* members who answered are counted.
MatrixOf(slots, marks, responded) ==
    [slots |-> slots,
     participants |-> [m \in responded |->
        [available |-> Marked(marks[m], "available") \cap slots,
         preferred |-> Marked(marks[m], "preferred") \cap slots]],
     aggregate |-> [c \in slots |->
        [available |-> Cardinality({m \in responded : marks[m][c] = "available"}),
         preferred |-> Cardinality({m \in responded : marks[m][c] = "preferred"})]]]

\* indexMatrix: the names come from the participants, the counts from the
\* aggregate, and who answered and marked nothing is missing.
IndexMatrix(matrix) ==
    LET people == DOMAIN matrix.participants
        prefers(c) == {m \in people : c \in matrix.participants[m].preferred}
        can(c) == {m \in people : c \in matrix.participants[m].available}
    IN [c \in matrix.slots |->
          [preferredNames |-> prefers(c),
           availableNames |-> can(c) \ prefers(c),
           missingNames |-> people \ (can(c) \cup prefers(c)),
           availableCount |-> matrix.aggregate[c].available,
           preferredCount |-> matrix.aggregate[c].preferred,
           respondedCount |-> Cardinality(people)]]

HeatLevels == 5

\* Math.ceil of four times (available + 2 preferred) / (2 responded), from 1 to 4.
HeatLevel(available, preferred, responded) ==
    IF responded <= 0 \/ available + preferred <= 0 THEN 0
    ELSE LET quarters == 4 * (available + 2 * preferred)
             ceiling == (quarters + 2 * responded - 1) \div (2 * responded)
         IN Min({HeatLevels - 1, Max({1, ceiling})})

\* A slot of length len is busy when it overlaps a block of <<start, end>>;
\* one that only touches it is not.
BusySlots(slots, blocks, len) ==
    {s \in slots : \E b \in blocks : b[1] < s + len /\ b[2] > s}
=============================================================================
