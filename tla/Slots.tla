--------------------------------- MODULE Slots ---------------------------------
(***************************************************************************)
(* The slots of a group, which the browser (lib/slots.ts) and the server   *)
(* (domain/slots.py) work out independently, across a change of the clocks *)
(* in the group's zone, and what is built from them: the form that creates *)
(* a group, the form that proposes a window by hand, the grid, and the     *)
(* suggestions.                                                            *)
(*                                                                         *)
(* Time is counted in slots; slot_minutes is 30 wherever it is set.        *)
(* An instant is a number of slots of UTC; a wall-clock time is the number *)
(* of slots that UTC would show it at, as in the source.                   *)
(*                                                                         *)
(* An array of slots is the set of its entries <<day, instant>>: both      *)
(* programs push the days one after another and the instants of a day in   *)
(* ascending order, so that the entries say where in the array they are.   *)
(***************************************************************************)
EXTENDS AvailabilityModel

CONSTANTS
    DAY,            \* the slots of a day without a change: 48, and fewer in an instance
    Zones,          \* the zones: an offset, the instant of a change, the next offset
    Dates,          \* the dates that a form may name
    Windows,        \* the edges of the daily window that it may choose
    Moves,          \* those that the window is moved to later, a bound
    MaxRangeDays,   \* max_range_days of GET /config
    MinDuration, MaxDuration,   \* the durations of GET /config, in slots
    Members,        \* the members whose availability the suggestions read
    Habits          \* how a member may have marked the slots

\* A zone is less than a day from UTC, and no change of its clocks skips more than a
\* day.  A group has the member who created it.
ASSUME SlotAssumption ==
    /\ DAY \in Nat \ {0} /\ Dates \subseteq Nat \ {0}
    /\ Windows \cup Moves \subseteq (0..DAY) \X (0..DAY)
    /\ Zones \subseteq [from : 1 - DAY..DAY - 1, at : Nat, to : 1 - DAY..DAY - 1]
    /\ \A z \in Zones : z.to - z.from \in -DAY..DAY
    /\ MaxRangeDays \in Nat /\ MinDuration \in Nat \ {0} /\ MaxDuration \in Nat
    /\ MinDuration <= MaxDuration
    /\ IsFiniteSet(Members) /\ Members # {}
    /\ Habits \subseteq {"silent", "never", "always", "early", "even_days"}

VARIABLES
    group,      \* the group on the server, or NoGroup
    shown,      \* the group that the page has read
    slots,      \* the arrays of slots: the server's of group, the browser's of shown
    form,       \* the form that proposes a window by hand
    outcome     \* what became of the last press

vars == <<group, shown, slots, form, outcome>>

-----------------------------------------------------------------------------
(* The zone: what Intl and zoneinfo know of it.                            *)

Offset(z, i) == IF i < z.at THEN z.from ELSE z.to
WallIn(z, i) == i + Offset(z, i)

SlotDate(z, i) == WallIn(z, i) \div DAY
SlotLabel(z, i) == WallIn(z, i) % DAY

\* The instants of an array, the order of its entries, and their places from 1.
SlotSet(vector) == {e[2] : e \in vector}
Before(e, f) == e[1] < f[1] \/ (e[1] = f[1] /\ e[2] <= f[2])
Place(vector) == [e \in vector |-> Cardinality({f \in vector : Before(f, e)})]

-----------------------------------------------------------------------------
(* The slots in the browser: lib/slots.ts.                                 *)

\* The instant of a wall-clock time: of two the one asked for, and of none the later
\* of the two guesses.
Candidates(z, w) == {w - Offset(z, w - DAY), w - Offset(z, w + DAY)}
Real(z, w) == {c \in Candidates(z, w) : WallIn(z, c) = w}

\* Mutant of WallToInstant: a time that the change deletes takes the earlier guess.
WallToInstantEarly(z, w, ambiguous) ==
    IF Real(z, w) = {} THEN Min(Candidates(z, w))
    ELSE IF ambiguous = "earlier" THEN Min(Real(z, w)) ELSE Max(Real(z, w))

WallToInstant(z, w, ambiguous) ==
    IF Real(z, w) = {} THEN Max(Candidates(z, w))
    ELSE IF ambiguous = "earlier" THEN Min(Real(z, w)) ELSE Max(Real(z, w))

Day(g, d) ==
    WallToInstant(g.zone, d * DAY + g.open, "earlier")
      .. WallToInstant(g.zone, d * DAY + g.close, "later") - 1

\* The days one after another: a slot that two days make is made twice.
GenerateSlots(g) ==
    IF g.close <= g.open THEN {} ELSE UNION {{d} \X Day(g, d) : d \in g.first..g.last}

\* Columns of one height, that of the longest day; 0 pads the others.
BuildSlotGrid(vector, z) ==
    LET of(d) == {e \in vector : SlotDate(z, e[2]) = d}
        dates == {SlotDate(z, e[2]) : e \in vector}
        rows == Max({0} \cup {Cardinality(of(d)) : d \in dates})
        longest == Min({d \in dates : Cardinality(of(d)) = rows})
        cell(d, r) == LET at == Place(of(d)) IN (CHOOSE e \in of(d) : at[e] = r)[2]
    IN  [columns |-> [d \in dates |-> [r \in 1..rows |->
                        IF r <= Cardinality(of(d)) THEN cell(d, r) ELSE 0]],
         labels |-> IF dates = {} THEN <<>>
                    ELSE [r \in 1..rows |-> SlotLabel(z, cell(longest, r))]]

-----------------------------------------------------------------------------
(* The slots on the server: domain/slots.py.                               *)

DaysInclusive(first, last) == last - first + 1

ValidateGroupWindow(g) ==
    /\ g.first <= g.last /\ DaysInclusive(g.first, g.last) <= MaxRangeDays
    /\ g.open \in 0..DAY - 1 /\ g.close \in 1..DAY
    /\ g.open < g.close

\* Local midnight; zoneinfo reads a time that exists twice, or not, with the offset
\* from before the change.
Midnight(z, d) ==
    LET w == d * DAY IN IF w < z.at + Max({z.from, z.to}) THEN w - z.from ELSE w - z.to

LocalDay(z, d) == Midnight(z, d)..Midnight(z, d + 1) - 1

\* Every slot of the local day whose local time lies in the daily window.
ServerDay(g, d) ==
    {i \in LocalDay(g.zone, d) : /\ SlotDate(g.zone, i) = d
                                 /\ SlotLabel(g.zone, i) \in g.open..g.close - 1}

ServerSlots(g) == UNION {{d} \X ServerDay(g, d) : d \in g.first..g.last}

\* _validate_proposal_window: every slot of the window is a slot of the group.
ValidateProposal(valid, start, end) == start < end /\ start..end - 1 \subseteq SlotSet(valid)

-----------------------------------------------------------------------------
(* The suggestions: domain/suggestions.py.                                 *)

Attending(marks, cell) == {m \in Members : marks[m][cell] # "unselected"}
Preferring(marks, cell) == {m \in Members : marks[m][cell] = "preferred"}

SuggestionFor(marks, cells) ==
    LET preferred == {m \in Members : \A c \in cells : m \in Preferring(marks, c)}
        attending == {m \in Members : \A c \in cells : m \in Attending(marks, c)}
    IN  [start |-> Min(cells), end |-> Max(cells) + 1, preferred |-> preferred,
         available |-> attending \ preferred, missing |-> Members \ attending]

\* Mutant of WindowsOf: the gap between two days is not noticed.
WindowsAcrossGaps(vector, duration) ==
    LET at == Place(vector)
        run(e) == {f \in vector : at[f] \in at[e]..at[e] + duration - 1}
    IN  {SlotSet(run(e)) : e \in {e \in vector : at[e] + duration - 1 <= Cardinality(vector)}}

\* Every run of the array, of that length, whose slots are consecutive.
WindowsOf(vector, duration) ==
    LET at == Place(vector)
        run(e) == {f \in vector : at[f] \in at[e]..at[e] + duration - 1}
    IN  {SlotSet(run(e)) : e \in {e \in vector :
                                    /\ at[e] + duration - 1 <= Cardinality(vector)
                                    /\ \A f \in run(e) : f[2] - e[2] = at[f] - at[e]}}

\* A suggestion for each window that the same members can attend throughout.  A member
\* who has not answered has no marks, and is missing like any other.  (The windows may
\* run over midnight: only the gap that the daily window leaves keeps days apart.)
Suggestions(windows, marks) ==
    {SuggestionFor(marks, w) :
       w \in {w \in windows : \A c, d \in w : Attending(marks, c) = Attending(marks, d)}}

-----------------------------------------------------------------------------
(* The forms.                                                              *)

\* The edges offered: a start up to one slot before midnight, an end from one slot in.
WindowOptions == [start |-> 0..DAY - 1, end |-> 1..DAY]

\* Mutant of ValidateGroupForm: equal edges pass.
ValidateGroupFormLoose(g) ==
    (IF DaysInclusive(g.first, g.last) \in 1..MaxRangeDays THEN {} ELSE {"date_end"})
    \cup (IF g.open <= g.close THEN {} ELSE {"window_end_minute"})

\* What the form finds wrong, by field.  Its name and description play no part here.
ValidateGroupForm(g) ==
    (IF DaysInclusive(g.first, g.last) \in 1..MaxRangeDays THEN {} ELSE {"date_end"})
    \cup (IF g.open < g.close THEN {} ELSE {"window_end_minute"})

DurationOptions == MinDuration..MaxDuration

NoGroup == [zone |-> [from |-> 0, at |-> 0, to |-> 0], first |-> 0, last |-> 0,
            open |-> 0, close |-> 0]

\* The dates of the form, the starts it lists for the one chosen, and the one it takes.
DatesListed == {SlotDate(shown.zone, s) : s \in SlotSet(slots.page)}
Listed == {s \in SlotSet(slots.page) : SlotDate(shown.zone, s) = form.date}

SelectedStart ==
    IF form.start \in Listed THEN form.start ELSE IF Listed = {} THEN -1 ELSE Min(Listed)

\* Mutant of Fits: a window may end one slot after the day's last.
FitsLoosely == SelectedStart + form.duration <= Max(Listed) + 2

Fits == SelectedStart + form.duration <= Max(Listed) + 1

\* The form when it is mounted: the first date, and an hour if that may be chosen.
NewForm(z, vector) ==
    [date |-> IF vector = {} THEN 0
              ELSE SlotDate(z, (CHOOSE e \in vector : \A f \in vector : Before(e, f))[2]),
     start |-> -1, duration |-> IF 2 \in DurationOptions THEN 2 ELSE MinDuration]

Init ==
    /\ group = NoGroup /\ shown = NoGroup /\ outcome = "none"
    /\ slots = [server |-> {}, page |-> {}]
    /\ form = [date |-> 0, start |-> -1, duration |-> MinDuration]

\* The groups that are entered in the form.
Entered == {g \in [zone : Zones, first : Dates, last : Dates, open : 0..DAY, close : 0..DAY] :
              <<g.open, g.close>> \in Windows}

\* The form of a new group: what it lets through is sent.
SubmitGroup(g) ==
    /\ group = NoGroup
    /\ g.open \in WindowOptions.start /\ g.close \in WindowOptions.end
    /\ IF ValidateGroupForm(g) # {}
       THEN UNCHANGED <<group, shown, slots, form>> /\ outcome' = "fields"
       ELSE IF ValidateGroupWindow(g)
       THEN /\ group' = g /\ shown' = g /\ outcome' = "none"
            /\ slots' = [server |-> ServerSlots(g), page |-> GenerateSlots(g)]
            /\ form' = NewForm(g.zone, slots'.page)
       ELSE UNCHANGED <<group, shown, slots, form>> /\ outcome' = "refused"

\* Somebody moves the daily window elsewhere; this page reads it later.
MoveWindow(open, close) ==
    LET moved == [group EXCEPT !.open = open, !.close = close] IN
    /\ group # NoGroup /\ group = shown
    /\ open < close /\ moved # group
    /\ group' = moved
    /\ slots' = [slots EXCEPT !.server = ServerSlots(moved)]
    /\ UNCHANGED <<shown, form, outcome>>

ReadGroup ==
    /\ shown # group
    /\ shown' = group
    /\ slots' = [slots EXCEPT !.page = GenerateSlots(group)]
    /\ UNCHANGED <<group, form, outcome>>

Set(field, value) ==
    /\ form' = [form EXCEPT ![field] = value]
    /\ outcome' = "none" /\ UNCHANGED <<group, shown, slots>>

SetDate(date) == date \in DatesListed /\ Set("date", date)
SetStart(start) == start \in Listed /\ Set("start", start)
SetDuration(duration) == shown # NoGroup /\ duration \in DurationOptions /\ Set("duration", duration)

Submit ==
    /\ shown # NoGroup /\ outcome = "none"
    /\ SelectedStart # -1
    /\ outcome' = IF ~Fits THEN "blocked"
                  ELSE IF ValidateProposal(slots.server, SelectedStart,
                                           SelectedStart + form.duration) THEN "proposed"
                  ELSE "outside"
    /\ UNCHANGED <<group, shown, slots, form>>

Next ==
    \/ \E g \in Entered : SubmitGroup(g)
    \/ \E window \in Moves : MoveWindow(window[1], window[2])
    \/ ReadGroup
    \/ \E date \in Dates : SetDate(date)
    \/ \E start \in SlotSet(slots.page) : SetStart(start)
    \/ \E duration \in DurationOptions : SetDuration(duration)
    \/ Submit

Spec == Init /\ [][Next]_vars

-----------------------------------------------------------------------------
(* Properties.                                                             *)

\* An edge of the daily window falls in an hour that the change of the clocks skips or
\* repeats, so that it has no instant, or two and not the ones the window needs; or
\* midnight falls in an hour that is skipped.
EdgeInChange(g) ==
    \E d \in g.first..g.last :
        LET low == g.zone.at + Min({g.zone.from, g.zone.to})
            high == g.zone.at + Max({g.zone.from, g.zone.to})
        IN  \/ d * DAY + g.open \in low + 1..high - 1
            \/ d * DAY + g.close \in low + 1..high - 1
            \/ g.zone.to < g.zone.from /\ d * DAY + g.close = low
            \/ g.zone.from < g.zone.to /\ d * DAY \in low + 1..high - 1

\* Type correctness, and the form of a group lets nothing through that the server
\* refuses: validateGroupForm against validate_group_window.
TypeOK ==
    /\ outcome \in {"none", "fields", "blocked", "proposed", "outside"}
    /\ group # NoGroup => ValidateGroupWindow(group)
    /\ form.duration \in DurationOptions
    /\ SelectedStart # -1 => SlotDate(shown.zone, SelectedStart) = form.date

GridStep ==
    LET page == slots'.page
    IN  (shown' # shown /\ ~EdgeInChange(shown')) =>
          /\ page = ServerSlots(shown')
          /\ \A grid \in {BuildSlotGrid(page, shown'.zone)}, e \in page :
               \E d \in DOMAIN grid.columns :
                 /\ d = SlotDate(shown'.zone, e[2])
                 /\ \E r \in DOMAIN grid.labels : grid.columns[d][r] = e[2]
          /\ \A e, f \in page : e[1] < f[1] => e[2] < f[2]

\* But for an edge inside a change, the browser works out the slots of the server, in
\* its order, for days of any length; they ascend, also from day to day; and its grid
\* has each of them in one cell, in the column of its date.
GridMatchesServer == [][GridStep]_vars

FormStep ==
    (outcome' # outcome /\ group = shown /\ group # NoGroup /\ ~EdgeInChange(group)) =>
        /\ outcome' # "outside"
        /\ outcome' = "blocked" =>
             \/ ~ValidateProposal(slots.server, SelectedStart, SelectedStart + form.duration)
             \/ SlotDate(group.zone, SelectedStart + form.duration - 1) # form.date

\* The form that proposes a window by hand agrees with the server about what fits: as
\* long as the page has read the group as it is, what it sends is accepted, and what it
\* holds back would be refused or runs into the next date.
FormAgreesWithServer == [][FormStep]_vars

\* How a member with a habit has marked a slot; one who is silent has not answered, and
\* one who never can has answered without a mark.
MarkOf(habit, z, c) ==
    CASE habit \in {"silent", "never"} -> "unselected"
      [] habit = "always" -> "available"
      [] habit = "early" -> IF SlotLabel(z, c) < 5 THEN "preferred" ELSE "available"
      [] habit = "even_days" -> IF SlotDate(z, c) % 2 = 0 THEN "preferred" ELSE "unselected"

\* Where a suggestion may run over midnight: the daily window is the whole day, or the
\* clocks change within the suggestion and skip the hours between two windows.
DaysMeet(g, s) == (g.open = 0 /\ g.close = DAY) \/ g.zone.at \in s.start + 1..s.end - 1

SuggestionStep ==
    LET vector == slots'.server
        cells == SlotSet(vector)
    IN  (group = NoGroup /\ group' # group) =>
          \A duration \in DurationOptions :
            LET windows == WindowsOf(vector, duration) IN
            \A habits \in [Members -> Habits] :
              LET marks == [m \in Members |-> [c \in cells |-> MarkOf(habits[m], group'.zone, c)]]
                  responded == {m \in Members : habits[m] # "silent"}
              IN  \A details \in {IndexMatrix(MatrixOf(cells, marks, responded))},
                     s \in Suggestions(windows, marks) :
                    /\ ValidateProposal(vector, s.start, s.end)
                    /\ \/ SlotDate(group'.zone, s.start) = SlotDate(group'.zone, s.end - 1)
                       \/ DaysMeet(group', s)
                    /\ \A c \in s.start..s.end - 1 :
                         LET cell == details[c] IN
                         /\ s.preferred \subseteq cell.preferredNames
                         /\ s.available \subseteq cell.availableNames \cup cell.preferredNames
                         /\ s.missing = cell.missingNames \cup (Members \ responded)
                         /\ cell.availableCount = Cardinality(cell.availableNames)
                         /\ s.missing = Members \ responded /\ responded # {} =>
                              HeatLevel(cell.availableCount, cell.preferredCount,
                                        cell.respondedCount) >= 2

\* Every suggestion is a window that the server accepts as a proposal, and lies within
\* one date unless nothing of the night keeps two days apart.  Of each member
\* who has answered it says what the grid says of every cell in it; those who have not
\* are missing for the suggestion, while the grid does not name them; and the cells of a
\* window that all who answered can make are shaded at least half.
SuggestionsHold == [][SuggestionStep]_vars
=============================================================================
