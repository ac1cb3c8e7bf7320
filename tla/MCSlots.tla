------------------------------- MODULE MCSlots -------------------------------
(***************************************************************************)
(* Small instances of Slots for TLC: three days around a change.           *)
(***************************************************************************)
EXTENDS Slots, TLC

\* Day 11 of a zone that skips or repeats two slots in the night, as Europe/Stockholm
\* does, of one that skips them at midnight, of one that repeats them before midnight,
\* of one that skips midnight itself, and of one west of UTC that changes by one slot.
\* A day has 12 slots.
Stockholm == {[from |-> 1, at |-> 132 + 1, to |-> 3], [from |-> 3, at |-> 132 + 1, to |-> 1]}
AtMidnight == {[from |-> 2, at |-> 132 - 2, to |-> 4], [from |-> 4, at |-> 144 - 4, to |-> 2]}
ByOneSlot == {[from |-> -3, at |-> 132 + 5, to |-> -2]}
OverMidnight == {[from |-> -1, at |-> 132, to |-> 3]}
Changing == Stockholm \cup AtMidnight \cup ByOneSlot \cup OverMidnight

\* Windows with an edge at, inside and beside the change, and across a whole day.
Offered == {<<1, 6>>, <<2, 4>>, <<3, 6>>, <<1, 3>>, <<0, 2>>, <<10, 12>>, <<0, 12>>, <<6, 4>>,
            <<4, 4>>}
Later == {<<1, 6>>, <<10, 12>>}
=============================================================================
