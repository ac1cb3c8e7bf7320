------------------------------ MODULE Slots_proofs ------------------------------
(***************************************************************************)
(* The slots of a group, which two programs work out, and what is built of *)
(* them, for any zone that changes its clocks once, any length of the day, *)
(* any dates, daily windows, durations and members.                        *)
(*                                                                         *)
(* 1. Away from the change, every edge of a daily window is the one        *)
(*    instant that the offset of its side gives (EdgeInstant), and so are  *)
(*    the server's midnights (MidnightIs).  Hence the two programs make    *)
(*    the same slots of each day (SameDay), and the same array.            *)
(* 2. The places of an array are 1 up to its size, each taken once, in the *)
(*    order of its entries (Places).  Hence the grid has a cell for every  *)
(*    slot, and a run of consecutive slots is an interval of instants.     *)
(*    Both rest on the least number of a set, never on induction.          *)
(* 3. The inductive invariant: a group is one that the server accepts, and *)
(*    each array is that of its group.  The properties then speak of the   *)
(*    arrays alone.                                                        *)
(***************************************************************************)
EXTENDS Slots, FiniteSetTheorems, WellFoundedInduction, TLAPS

-----------------------------------------------------------------------------
(* Numbers: the quotient and the remainder of a time, and extrema.         *)

\* Multiples of a number lie that number apart.
LEMMA ProductMonotone ==
    ASSUME NEW n \in Nat \ {0}, NEW a \in Int, NEW b \in Int, a < b
    PROVE  n * a + n <= n * b
<1>1. n * (b - a - 1) >= 0
  OBVIOUS
<1> QED
  BY <1>1

\* A wall-clock time is of day d when it lies in the n slots from d * n on, and its
\* label is how far.
LEMMA DateAndLabel ==
    ASSUME NEW w \in Int, NEW n \in Nat \ {0}, NEW d \in Int
    PROVE  /\ w \div n = d <=> w - d * n \in 0..n - 1
           /\ w \div n = d => w % n = w - d * n
<1> DEFINE q == w \div n
<1>1. q \in Int /\ n * q <= w /\ w < n * q + n
  OBVIOUS
<1>2. w % n = w - n * (w \div n)
  OBVIOUS
<1>3. q < d => n * q + n <= n * d
  BY <1>1, ProductMonotone
<1>4. d < q => n * d + n <= n * q
  BY <1>1, ProductMonotone
<1>5. n * d = d * n /\ n * d \in Int /\ n * q \in Int
  BY <1>1
<1> HIDE DEF q
<1>6. q = d => w - d * n \in 0..n - 1
  BY <1>1, <1>5
<1>7. w - d * n \in 0..n - 1 => q = d
  BY <1>1, <1>3, <1>4, <1>5
<1>8. q = d => w % n = w - d * n
  BY <1>2, <1>5 DEF q
<1> QED
  BY <1>6, <1>7, <1>8 DEF q

\* A set of numbers has a least element.
LEMMA LeastExists ==
    ASSUME NEW T, T \subseteq Nat, T # {}
    PROVE  \E m \in T : \A k \in T : m <= k
<1> DEFINE R == OpToRel(<, Nat)
<1>1. IsWellFoundedOn(R, Nat)
  BY NatLessThanWellFounded
<1>2. \A x, y \in Nat : y < x => <<y, x>> \in R
  BY DEF OpToRel
<1> HIDE DEF R
<1>3. PICK m \in T : \A k \in T : ~ (<<k, m>> \in R)
  BY <1>1, WFMin
<1>4. \A k \in T : m <= k
  <2> SUFFICES ASSUME NEW k \in T PROVE ~ (k < m)
    OBVIOUS
  <2>1. k \in Nat /\ m \in Nat
    OBVIOUS
  <2> QED
    BY <1>2, <1>3, <2>1
<1> QED
  BY <1>4

\* Min and Max of a set of integers that a bound stops.
LEMMA MinOfBounded ==
    ASSUME NEW T, T \subseteq Int, T # {}, NEW b \in Int, \A t \in T : b <= t
    PROVE  Min(T) \in T /\ \A t \in T : Min(T) <= t
<1> DEFINE S == {k \in Nat : k + b \in T}
<1>1. \A t \in T : t - b \in S
  OBVIOUS
<1>2. PICK m \in S : \A k \in S : m <= k
  BY <1>1, LeastExists
<1>3. m + b \in T /\ \A t \in T : m + b <= t
  BY <1>1, <1>2
<1> QED
  BY <1>3 DEF Min

\* So has a bounded set of numbers a greatest.
LEMMA MaxOfBounded ==
    ASSUME NEW T, T \subseteq Int, T # {}, NEW b \in Int, \A t \in T : t <= b
    PROVE  Max(T) \in T /\ \A t \in T : t <= Max(T)
<1> DEFINE S == {k \in Nat : b - k \in T}
<1>1. \A t \in T : b - t \in S
  OBVIOUS
<1>2. PICK m \in S : \A k \in S : m <= k
  BY <1>1, LeastExists
<1>3. b - m \in T /\ \A t \in T : t <= b - m
  BY <1>1, <1>2
<1> QED
  BY <1>3 DEF Max

\* Of two numbers.
LEMMA MinMaxOfTwo ==
    ASSUME NEW a \in Int, NEW b \in Int
    PROVE  /\ Min({a, b}) = IF a <= b THEN a ELSE b
           /\ Max({a, b}) = IF a <= b THEN b ELSE a
BY DEF Min, Max

-----------------------------------------------------------------------------
(* The clocks.                                                             *)

\* A zone, as assumed of Zones, and the wall-clock times between which they change.
Clock(z) ==
    /\ z \in [from : 1 - DAY..DAY - 1, at : Nat, to : 1 - DAY..DAY - 1]
    /\ z.to - z.from \in -DAY..DAY

Low(z) == z.at + Min({z.from, z.to})
High(z) == z.at + Max({z.from, z.to})

\* Of the two times, the one with the smaller offset is the earlier.
LEMMA LowHigh ==
    ASSUME NEW z, Clock(z)
    PROVE  /\ z.from \in Int /\ z.to \in Int /\ z.at \in Nat
           /\ Low(z) = IF z.from <= z.to THEN z.at + z.from ELSE z.at + z.to
           /\ High(z) = IF z.from <= z.to THEN z.at + z.to ELSE z.at + z.from
<1>1. z.from \in Int /\ z.to \in Int /\ z.at \in Nat
  BY SlotAssumption DEF Clock
<1> QED
  BY <1>1, MinMaxOfTwo DEF Low, High

\* A wall-clock time outside the change has one instant, and so has the edge at which
\* the change begins, unless it is the end of a window and is repeated.
LEMMA EdgeInstant ==
    ASSUME NEW z, Clock(z), NEW w \in Int, NEW ambiguous,
           w \notin Low(z) + 1..High(z) - 1,
           ambiguous # "earlier" => ~(z.to < z.from /\ w = Low(z))
    PROVE  WallToInstant(z, w, ambiguous) = IF w <= Low(z) THEN w - z.from ELSE w - z.to
<1> DEFINE f == z.from
           t == z.to
           a == z.at
<1>1. /\ f \in 1 - DAY..DAY - 1 /\ t \in 1 - DAY..DAY - 1 /\ a \in Nat /\ DAY \in Nat
      /\ Low(z) = IF f <= t THEN a + f ELSE a + t
      /\ High(z) = IF f <= t THEN a + t ELSE a + f
  BY LowHigh, SlotAssumption DEF Clock
<1>2. \A i \in Int : Offset(z, i) = IF i < a THEN f ELSE t
  BY DEF Offset
<1>3. Candidates(z, w) = {w - Offset(z, w - DAY), w - Offset(z, w + DAY)}
  BY DEF Candidates
<1>4. \A i \in Int : WallIn(z, i) = IF i < a THEN i + f ELSE i + t
  BY <1>2 DEF WallIn
<1> HIDE DEF f, t, a
<1>5. ASSUME w < Low(z) PROVE Real(z, w) = {w - f}
  <2>1. w - DAY < a /\ w - f < a
    BY <1>1, <1>5
  <2>2. w - f \in Candidates(z, w) /\ \A c \in Candidates(z, w) : c = w - f \/ c = w - t
    BY <1>1, <1>2, <1>3, <2>1
  <2>3. WallIn(z, w - f) = w
    BY <1>1, <1>4, <2>1
  <2>4. WallIn(z, w - t) = w => w - t = w - f
    BY <1>1, <1>4, <1>5
  <2> QED
    BY <2>2, <2>3, <2>4 DEF Real
<1>6. ASSUME w >= High(z) PROVE Real(z, w) = {w - t}
  <2>1. w + DAY >= a /\ w - t >= a
    BY <1>1, <1>6
  <2>2. w - t \in Candidates(z, w) /\ \A c \in Candidates(z, w) : c = w - f \/ c = w - t
    BY <1>1, <1>2, <1>3, <2>1
  <2>3. WallIn(z, w - t) = w
    BY <1>1, <1>4, <2>1
  <2>4. WallIn(z, w - f) = w => w - t = w - f
    BY <1>1, <1>4, <1>6
  <2> QED
    BY <2>2, <2>3, <2>4 DEF Real
<1>7. ASSUME w = Low(z), Low(z) < High(z) PROVE Candidates(z, w) = {w - f, w - t}
  <2>1. w - DAY < a /\ w + DAY >= a
    BY <1>1, <1>7
  <2> QED
    BY <1>1, <1>2, <1>3, <2>1
<1>8. \A n \in Int : Min({n}) = n /\ Max({n}) = n
  BY MinMaxOfTwo
<1>9. CASE w < Low(z)
  BY <1>1, <1>5, <1>8, <1>9 DEF WallToInstant, f
<1>10. CASE w >= High(z)
  BY <1>1, <1>6, <1>8, <1>10 DEF WallToInstant, f, t
<1>11. CASE w = Low(z) /\ Low(z) < High(z) /\ f < t
  <2>1. WallIn(z, w - f) # w /\ WallIn(z, w - t) # w
    BY <1>1, <1>4, <1>11
  <2>2. Real(z, w) = {}
    BY <1>7, <1>11, <2>1 DEF Real
  <2>3. Max({w - f, w - t}) = w - f
    BY <1>1, <1>11, MinMaxOfTwo
  <2> QED
    BY <1>7, <1>11, <2>2, <2>3 DEF WallToInstant, f
<1>12. CASE w = Low(z) /\ Low(z) < High(z) /\ t < f
  <2>1. WallIn(z, w - f) = w /\ WallIn(z, w - t) = w
    BY <1>1, <1>4, <1>12
  <2>2. Real(z, w) = {w - f, w - t}
    BY <1>7, <1>12, <2>1 DEF Real
  <2>3. Min({w - f, w - t}) = w - f
    BY <1>1, <1>12, MinMaxOfTwo
  <2>4. ambiguous = "earlier"
    BY <1>12 DEF f, t
  <2> QED
    BY <1>12, <2>2, <2>3, <2>4 DEF WallToInstant, f
<1> QED
  BY <1>1, <1>9, <1>10, <1>11, <1>12

\* What a group must be for its slots to be worked out, on either side.
Scheduled(g) ==
    /\ Clock(g.zone) /\ g.first \in Nat \ {0} /\ g.last \in Nat
    /\ g.open \in 0..DAY /\ g.close \in 0..DAY /\ g.open < g.close

\* Local midnight by the later of the two times of the change, less than a day from UTC's.
LEMMA MidnightIs ==
    ASSUME NEW z, Clock(z), NEW d \in Int
    PROVE  /\ d * DAY \in Int /\ (d + 1) * DAY = d * DAY + DAY
           /\ Midnight(z, d) = IF d * DAY < High(z) THEN d * DAY - z.from ELSE d * DAY - z.to
           /\ Midnight(z, d) \in Int
           /\ Midnight(z, d) > d * DAY - DAY /\ Midnight(z, d) < d * DAY + DAY
<1>1. d * DAY \in Int /\ (d + 1) * DAY = d * DAY + DAY
  BY SlotAssumption
<1>2. Midnight(z, d) = IF d * DAY < High(z) THEN d * DAY - z.from ELSE d * DAY - z.to
  BY DEF Midnight, High
<1> QED
  BY <1>1, <1>2, LowHigh, SlotAssumption DEF Clock

\* The same of the midnight that ends the day.
LEMMA NextMidnight ==
    ASSUME NEW z, Clock(z), NEW d \in Int, NEW w, w = d * DAY + DAY
    PROVE  Midnight(z, d + 1) = IF w < High(z) THEN w - z.from ELSE w - z.to
<1>1. w = (d + 1) * DAY
  BY MidnightIs
<1> QED
  BY <1>1, Zenon DEF Midnight, High

\* The server's day holds the instants of a local day whose wall-clock time lies
\* between the edges of the window.
LEMMA ServerDayIs ==
    ASSUME NEW g, Scheduled(g), NEW d \in Int
    PROVE  /\ ServerDay(g, d) \subseteq LocalDay(g.zone, d)
           /\ \A i \in LocalDay(g.zone, d) :
                i \in ServerDay(g, d) <=> /\ d * DAY + g.open <= WallIn(g.zone, i)
                                         /\ WallIn(g.zone, i) < d * DAY + g.close
<1> SUFFICES ASSUME NEW i \in LocalDay(g.zone, d)
             PROVE  SlotDate(g.zone, i) = d /\ SlotLabel(g.zone, i) \in g.open..g.close - 1
                      <=> /\ d * DAY + g.open <= WallIn(g.zone, i)
                          /\ WallIn(g.zone, i) < d * DAY + g.close
  BY DEF ServerDay
<1> DEFINE w == WallIn(g.zone, i)
<1>1. i \in Int /\ w \in Int /\ d * DAY \in Int
  BY MidnightIs, LowHigh DEF LocalDay, Scheduled, WallIn, Offset
<1>2. /\ w \div DAY = d <=> w - d * DAY \in 0..DAY - 1
      /\ w \div DAY = d => w % DAY = w - d * DAY
  BY <1>1, DateAndLabel, SlotAssumption
<1>3. g.open \in 0..DAY /\ g.close \in 0..DAY /\ DAY \in Nat
  BY SlotAssumption DEF Scheduled
<1>4. SlotDate(g.zone, i) = w \div DAY /\ SlotLabel(g.zone, i) = w % DAY
  BY DEF SlotDate, SlotLabel
<1> HIDE DEF w
<1>5. w \div DAY = d /\ w % DAY \in g.open..g.close - 1
        <=> d * DAY + g.open <= w /\ w < d * DAY + g.close
  BY <1>1, <1>2, <1>3
<1> QED
  BY <1>4, <1>5 DEF w

\* What the change leaves alone.
LEMMA NotInChange ==
    ASSUME NEW g, Scheduled(g), ~EdgeInChange(g), NEW d \in Int, d \in g.first..g.last
    PROVE  /\ d * DAY + g.open \notin Low(g.zone) + 1..High(g.zone) - 1
           /\ d * DAY + g.close \notin Low(g.zone) + 1..High(g.zone) - 1
           /\ ~(g.zone.to < g.zone.from /\ d * DAY + g.close = Low(g.zone))
           /\ g.zone.from < g.zone.to => d * DAY \notin Low(g.zone) + 1..High(g.zone) - 1
BY DEF EdgeInChange, Low, High

\* The sum of it: the instants between two edges outside the change are those of the
\* local day whose wall-clock time lies between them.
LEMMA DayArithmetic ==
    ASSUME NEW f \in Int, NEW t \in Int, NEW a \in Int, NEW n \in Nat, t - f \in -n..n,
           NEW m \in Int, NEW o \in Int, NEW c \in Int, NEW i \in Int,
           NEW low \in Int, low = IF f <= t THEN a + f ELSE a + t,
           NEW high \in Int, high = IF f <= t THEN a + t ELSE a + f,
           m <= o, o < c, c <= m + n,
           o <= low \/ high <= o, c <= low \/ high <= c,
           t < f => c # low, f < t => m <= low \/ high <= m
    PROVE  /\ (IF o <= low THEN o - f ELSE o - t) <= i
           /\ i < (IF c <= low THEN c - f ELSE c - t)
         <=>
           /\ (IF m < high THEN m - f ELSE m - t) <= i
           /\ i < (IF m + n < high THEN m + n - f ELSE m + n - t)
           /\ o <= (IF i < a THEN i + f ELSE i + t) /\ (IF i < a THEN i + f ELSE i + t) < c
OBVIOUS

\* Browser and server make the same day, and its instants are consecutive.
LEMMA SameDay ==
    ASSUME NEW g, Scheduled(g), ~EdgeInChange(g), NEW d \in Int, d \in g.first..g.last
    PROVE  Day(g, d) = ServerDay(g, d)
<1> DEFINE z == g.zone
           m == d * DAY
           o == m + g.open
           c == m + g.close
<1>1. d \in Int /\ Clock(z) /\ m \in Int /\ DAY \in Nat
  BY MidnightIs, SlotAssumption DEF Scheduled
<1>2. /\ z.from \in Int /\ z.to \in Int /\ z.at \in Nat /\ z.to - z.from \in -DAY..DAY
      /\ Low(z) = IF z.from <= z.to THEN z.at + z.from ELSE z.at + z.to
      /\ High(z) = IF z.from <= z.to THEN z.at + z.to ELSE z.at + z.from
  BY <1>1, LowHigh DEF Clock
<1>3. o \in Int /\ c \in Int /\ m <= o /\ o < c /\ c <= m + DAY
  BY <1>1 DEF Scheduled
<1>4. WallToInstant(z, o, "earlier") = IF o <= Low(z) THEN o - z.from ELSE o - z.to
  BY <1>1, <1>3, NotInChange, EdgeInstant
<1>5. WallToInstant(z, c, "later") = IF c <= Low(z) THEN c - z.from ELSE c - z.to
  BY <1>1, <1>3, NotInChange, EdgeInstant
<1>6. Midnight(z, d) = IF m < High(z) THEN m - z.from ELSE m - z.to
  BY <1>1, MidnightIs
<1> DEFINE e == m + DAY
<1>7. e = d * DAY + DAY /\ e = m + DAY /\ e \in Int
  BY <1>1
<1> HIDE DEF e
<1>8. Midnight(z, d + 1) = IF e < High(z) THEN e - z.from ELSE e - z.to
  BY <1>1, <1>7, NextMidnight, Zenon
<1>9. /\ ServerDay(g, d) \subseteq LocalDay(z, d)
      /\ \A i \in LocalDay(z, d) : i \in ServerDay(g, d) <=> o <= WallIn(z, i) /\ WallIn(z, i) < c
  BY ServerDayIs
<1>10. \A i \in Int : WallIn(z, i) = IF i < z.at THEN i + z.from ELSE i + z.to
  BY DEF WallIn, Offset
<1>11. /\ o \notin Low(z) + 1..High(z) - 1 /\ c \notin Low(z) + 1..High(z) - 1
       /\ ~(z.to < z.from /\ c = Low(z))
       /\ z.from < z.to => m \notin Low(z) + 1..High(z) - 1
  BY NotInChange
<1>12. Day(g, d) = WallToInstant(z, o, "earlier")..WallToInstant(z, c, "later") - 1
  BY DEF Day
<1>13. LocalDay(z, d) = Midnight(z, d)..Midnight(z, d + 1) - 1
  BY DEF LocalDay
<1> HIDE DEF z, m, o, c
<1>14. Low(z) \in Int /\ High(z) \in Int
  BY <1>2
<1>15. /\ o <= Low(z) \/ High(z) <= o
       /\ c <= Low(z) \/ High(z) <= c
       /\ z.to < z.from => c # Low(z)
       /\ z.from < z.to => m <= Low(z) \/ High(z) <= m
  BY <1>1, <1>3, <1>11, <1>14
<1>16. ASSUME NEW i \in Int
       PROVE  i \in Day(g, d) <=> i \in LocalDay(z, d) /\ o <= WallIn(z, i) /\ WallIn(z, i) < c
  <2> DEFINE wo == IF o <= Low(z) THEN o - z.from ELSE o - z.to
             wc == IF c <= Low(z) THEN c - z.from ELSE c - z.to
             mn == IF m < High(z) THEN m - z.from ELSE m - z.to
             mx == IF e < High(z) THEN e - z.from ELSE e - z.to
             wi == IF i < z.at THEN i + z.from ELSE i + z.to
  <2>1. wo <= i /\ i < wc <=> mn <= i /\ i < mx /\ o <= wi /\ wi < c
    BY <1>1, <1>2, <1>3, <1>7, <1>14, <1>15, DayArithmetic
  <2>2. wo \in Int /\ wc \in Int /\ mn \in Int /\ mx \in Int /\ wi \in Int
    BY <1>1, <1>2, <1>3, <1>7
  <2>3. Day(g, d) = wo..wc - 1 /\ LocalDay(z, d) = mn..mx - 1 /\ WallIn(z, i) = wi
    BY <1>4, <1>5, <1>6, <1>8, <1>10, <1>12, <1>13
  <2> HIDE DEF wo, wc, mn, mx, wi
  <2> QED
    BY <1>3, <2>1, <2>2, <2>3
<1>17. Day(g, d) \subseteq Int /\ LocalDay(z, d) \subseteq Int
  BY <1>1, <1>2, <1>3, <1>4, <1>5, <1>6, <1>7, <1>8, <1>12, <1>13
<1> QED
  BY <1>9, <1>16, <1>17

-----------------------------------------------------------------------------
(* The days of a group, and their arrays.                                  *)

\* A wall-clock time resolves to an instant less than a day from UTC.
LEMMA InstantNear ==
    ASSUME NEW z, Clock(z), NEW w \in Int, NEW ambiguous
    PROVE  LET i == WallToInstant(z, w, ambiguous) IN i \in Int /\ w - DAY < i /\ i < w + DAY
<1> DEFINE near == {i \in Int : w - DAY < i /\ i < w + DAY}
<1>1. /\ z.from \in 1 - DAY..DAY - 1 /\ z.to \in 1 - DAY..DAY - 1 /\ z.at \in Nat /\ DAY \in Nat
  BY SlotAssumption DEF Clock
<1>2. Offset(z, w - DAY) \in 1 - DAY..DAY - 1 /\ Offset(z, w + DAY) \in 1 - DAY..DAY - 1
  BY <1>1 DEF Offset
<1>3. Candidates(z, w) \subseteq near /\ Candidates(z, w) # {}
  BY <1>1, <1>2 DEF Candidates
<1>4. Real(z, w) \subseteq Candidates(z, w)
  BY DEF Real
<1> HIDE DEF near
<1>5. ASSUME NEW T, T \subseteq near, T # {} PROVE Min(T) \in near /\ Max(T) \in near
  <2>1. T \subseteq Int /\ w - DAY \in Int /\ w + DAY \in Int
    BY <1>1, <1>5 DEF near
  <2>2. \A t \in T : w - DAY <= t /\ t <= w + DAY
    BY <1>1, <1>5 DEF near
  <2>3. Min(T) \in T /\ Max(T) \in T
    BY <1>5, <2>1, <2>2, MinOfBounded, MaxOfBounded
  <2> QED
    BY <1>5, <2>3
<1>6. WallToInstant(z, w, ambiguous) \in near
  BY <1>3, <1>4, <1>5 DEF WallToInstant
<1> QED
  BY <1>6 DEF near

\* The instants of both arrays are numbers after 0, which is the pad, and -1, which is
\* no start; and none is two days after the last date.
LEMMA InstantBounds ==
    ASSUME NEW g, Scheduled(g), NEW d \in Int, d \in g.first..g.last
    PROVE  Day(g, d) \cup ServerDay(g, d) \subseteq 1..g.last * DAY + DAY + DAY
<1> DEFINE m == d * DAY
           high == g.last * DAY + DAY + DAY
<1>1. /\ Clock(g.zone) /\ g.first \in Nat \ {0} /\ g.last \in Nat /\ DAY \in Nat \ {0}
      /\ g.open \in 0..DAY /\ g.close \in 0..DAY /\ d >= 1 /\ d <= g.last
  BY SlotAssumption DEF Scheduled
<1>2. m \in Int /\ high \in Int /\ m >= DAY /\ m + DAY + DAY <= high
  <2>1. DAY * 0 + DAY <= DAY * d
    BY <1>1, ProductMonotone
  <2>2. d < g.last => DAY * d + DAY <= DAY * g.last
    BY <1>1, ProductMonotone
  <2>3. DAY * d = m /\ DAY * g.last = g.last * DAY /\ m \in Int /\ g.last * DAY \in Int
    BY <1>1
  <2>4. d = g.last \/ d < g.last
    BY <1>1
  <2> HIDE DEF m
  <2>5. d = g.last => m = g.last * DAY
    BY DEF m
  <2> QED
    BY <1>1, <2>1, <2>2, <2>3, <2>4, <2>5
<1> DEFINE from == WallToInstant(g.zone, m + g.open, "earlier")
           upto == WallToInstant(g.zone, m + g.close, "later")
           start == Midnight(g.zone, d)
           end == Midnight(g.zone, d + 1)
<1>3. from \in Int /\ m - DAY < from /\ upto \in Int /\ upto < m + DAY + DAY
  <2>1. m + g.open \in Int /\ m + g.close \in Int
    BY <1>1, <1>2
  <2>2. /\ from \in Int /\ m + g.open - DAY < from
        /\ upto \in Int /\ upto < m + g.close + DAY
    BY <1>1, <2>1, InstantNear
  <2> HIDE DEF m, from, upto
  <2> QED
    BY <1>1, <1>2, <2>2
<1>4. start \in Int /\ m - DAY < start /\ end \in Int /\ end < m + DAY + DAY
  <2>1. start \in Int /\ m - DAY < start
    BY <1>1, MidnightIs
  <2>2. \A n \in Int : Midnight(g.zone, n) \in Int /\ Midnight(g.zone, n) < n * DAY + DAY
    BY <1>1, MidnightIs
  <2>3. (d + 1) * DAY = m + DAY /\ d + 1 \in Int
    BY <1>1, MidnightIs
  <2>4. end \in Int /\ end < (d + 1) * DAY + DAY
    BY <2>2, <2>3
  <2> HIDE DEF m, start, end
  <2> QED
    BY <1>1, <1>2, <2>1, <2>3, <2>4
<1>5. Day(g, d) = from..upto - 1 /\ ServerDay(g, d) \subseteq start..end - 1
  BY DEF Day, ServerDay, LocalDay
<1> HIDE DEF m, high, from, upto, start, end
<1>6. from..upto - 1 \subseteq 1..high /\ start..end - 1 \subseteq 1..high
  BY <1>1, <1>2, <1>3, <1>4
<1> QED
  BY <1>5, <1>6 DEF high

\* The entries of the two arrays.
LEMMA Entries ==
    ASSUME NEW g, Scheduled(g)
    PROVE  /\ \A e : e \in GenerateSlots(g) <=>
                /\ e = <<e[1], e[2]>> /\ e[1] \in g.first..g.last /\ e[2] \in Day(g, e[1])
           /\ \A e : e \in ServerSlots(g) <=>
                /\ e = <<e[1], e[2]>> /\ e[1] \in g.first..g.last /\ e[2] \in ServerDay(g, e[1])
<1>1. GenerateSlots(g) = UNION {{d} \X Day(g, d) : d \in g.first..g.last}
  BY SlotAssumption DEF Scheduled, GenerateSlots
<1> QED
  BY <1>1 DEF ServerSlots

\* The two arrays are one, but for an edge inside a change.
LEMMA SamePage ==
    ASSUME NEW g, Scheduled(g), ~EdgeInChange(g)
    PROVE  GenerateSlots(g) = ServerSlots(g)
<1>1. \A d \in g.first..g.last : d \in Int /\ Day(g, d) = ServerDay(g, d)
  BY SameDay DEF Scheduled
<1> QED
  BY <1>1, Entries

\* A finite set of entries, each with two numbers.
Array(vector) == IsFiniteSet(vector) /\ vector \subseteq Int \X Int

\* Both arrays are finite, and their slots are times after 1970.
LEMMA ArraysTyped ==
    ASSUME NEW g, Scheduled(g)
    PROVE  /\ Array(GenerateSlots(g)) /\ Array(ServerSlots(g))
           /\ \A e \in GenerateSlots(g) \cup ServerSlots(g) : e[2] \in Nat \ {0}
<1> DEFINE days == g.first..g.last
           high == g.last * DAY + DAY + DAY
           instants == 1..high
<1>1. g.last \in Nat /\ g.first \in Nat /\ high \in Int
  BY SlotAssumption DEF Scheduled
<1> HIDE DEF high
<1>2. IsFiniteSet(days) /\ IsFiniteSet(instants)
  <2>1. \A a, b \in Int : IsFiniteSet(a..b)
    BY FS_Interval
  <2> QED
    BY <1>1, <2>1
<1>3. IsFiniteSet(days \X instants)
  BY <1>2, FS_Product
<1>4. days \subseteq Int /\ instants \subseteq Nat \ {0}
  BY <1>1
<1>5. \A d \in days : Day(g, d) \cup ServerDay(g, d) \subseteq instants
  BY <1>4, InstantBounds DEF high
<1> HIDE DEF days, instants
<1>6. \A e \in GenerateSlots(g) \cup ServerSlots(g) : e \in days \X instants
  BY <1>5, Entries DEF days
<1>7. GenerateSlots(g) \subseteq days \X instants /\ ServerSlots(g) \subseteq days \X instants
  BY <1>6
<1>8. IsFiniteSet(GenerateSlots(g)) /\ IsFiniteSet(ServerSlots(g))
  BY <1>3, <1>7, FS_Subset
<1>9. ASSUME NEW e \in days \X instants PROVE e \in Int \X Int /\ e[2] \in Nat \ {0}
  <2>1. PICK d \in days, i \in instants : e = <<d, i>>
    BY <1>9
  <2>2. d \in Int /\ i \in Nat \ {0} /\ i \in Int
    BY <1>4
  <2>3. e[2] = i
    BY <2>1
  <2> QED
    BY <2>1, <2>2, <2>3
<1> QED
  BY <1>6, <1>7, <1>8, <1>9 DEF Array

-----------------------------------------------------------------------------
(* Places in an array.                                                     *)

\* The entries of an array are in one order.
LEMMA BeforeOrder ==
    ASSUME NEW e \in Int \X Int, NEW f \in Int \X Int, NEW h \in Int \X Int
    PROVE  /\ Before(e, e) /\ (Before(e, f) \/ Before(f, e))
           /\ Before(e, f) /\ Before(f, e) => e = f
           /\ Before(e, f) /\ Before(f, h) => Before(e, h)
<1>1. /\ e[1] \in Int /\ e[2] \in Int /\ f[1] \in Int /\ f[2] \in Int
      /\ h[1] \in Int /\ h[2] \in Int
  OBVIOUS
<1>2. e[1] = f[1] /\ e[2] = f[2] => e = f
  OBVIOUS
<1> QED
  BY <1>1, <1>2 DEF Before

\* An entry that is before another has the lower place, places count from 1 to the
\* length, and each is taken.
LEMMA Places ==
    ASSUME NEW v, Array(v)
    PROVE  /\ Cardinality(v) \in Nat
           /\ \A e \in v : Place(v)[e] \in 1..Cardinality(v)
           /\ \A e, f \in v : Before(e, f) /\ e # f => Place(v)[e] < Place(v)[f]
           /\ \A e, f \in v : Place(v)[e] = Place(v)[f] => e = f
           /\ \A k \in 1..Cardinality(v) : \E e \in v : Place(v)[e] = k
<1> DEFINE upTo(e) == {f \in v : Before(f, e)}
           n == Cardinality(v)
<1>1. IsFiniteSet(v) /\ n \in Nat /\ \A e \in v : e \in Int \X Int
  BY FS_CardinalityType DEF Array
<1>2. ASSUME NEW e \in v
      PROVE  IsFiniteSet(upTo(e)) /\ Cardinality(upTo(e)) \in 1..n
  <2>1. upTo(e) \in SUBSET v /\ e \in upTo(e)
    BY <1>1, BeforeOrder
  <2>2. IsFiniteSet(upTo(e)) /\ Cardinality(upTo(e)) <= n
    BY <1>1, <2>1, FS_Subset
  <2>3. Cardinality(upTo(e)) \in Nat /\ Cardinality(upTo(e)) # 0
    BY <2>1, <2>2, FS_CardinalityType, FS_EmptySet
  <2> HIDE DEF upTo, n
  <2> QED
    BY <1>1, <2>2, <2>3
<1>3. ASSUME NEW e \in v, NEW f \in v, Before(e, f), e # f
      PROVE  Cardinality(upTo(e)) < Cardinality(upTo(f))
  <2>1. upTo(e) \in SUBSET upTo(f)
    BY <1>1, <1>3, BeforeOrder
  <2>2. f \in upTo(f) /\ f \notin upTo(e)
    BY <1>1, <1>3, BeforeOrder
  <2>3. IsFiniteSet(upTo(f))
    BY <1>2
  <2>4. Cardinality(upTo(e)) <= Cardinality(upTo(f)) /\ Cardinality(upTo(e)) # Cardinality(upTo(f))
    BY <2>1, <2>2, <2>3, FS_Subset
  <2>5. Cardinality(upTo(e)) \in Int /\ Cardinality(upTo(f)) \in Int
    BY <1>2
  <2> HIDE DEF upTo
  <2> QED
    BY <2>4, <2>5
<1>4. Place(v) = [e \in v |-> Cardinality(upTo(e))]
  BY DEF Place
<1> HIDE DEF upTo, n
<1>5. \A e \in v : Place(v)[e] = Cardinality(upTo(e))
  BY <1>4
<1>6. \A e \in v : Place(v)[e] \in 1..n
  BY <1>2, <1>5
<1>7. \A e, f \in v : Before(e, f) /\ e # f => Place(v)[e] < Place(v)[f]
  BY <1>3, <1>5
<1>8. ASSUME NEW e \in v, NEW f \in v, Place(v)[e] = Place(v)[f] PROVE e = f
  <2>1. Before(e, f) \/ Before(f, e)
    BY <1>1, BeforeOrder
  <2>2. Place(v)[e] \in Int /\ Place(v)[f] \in Int
    BY <1>1, <1>6
  <2> QED
    BY <1>7, <1>8, <2>1, <2>2
<1>9. Place(v) \in [v -> 1..n]
  BY <1>4, <1>2
<1>10. Place(v) \in Injection(v, 1..n)
  BY <1>8, <1>9 DEF Injection, IsInjective
<1>11. IsFiniteSet(1..n) /\ Cardinality(1..n) = n
  <2>1. \A a, b \in Int : IsFiniteSet(a..b) /\ Cardinality(a..b) = IF a > b THEN 0 ELSE b - a + 1
    BY FS_Interval
  <2> QED
    BY <1>1, <2>1
<1>12. Place(v) \in Surjection(v, 1..n)
  BY <1>10, <1>11, FS_Injection DEF n
<1>13. \A k \in 1..n : \E e \in v : Place(v)[e] = k
  BY <1>12 DEF Surjection
<1> QED
  BY <1>1, <1>6, <1>7, <1>8, <1>13 DEF n

\* The grid has every entry in a cell, in the column of its date.
LEMMA GridHasAll ==
    ASSUME NEW v, Array(v), NEW z, NEW e \in v
    PROVE  LET grid == BuildSlotGrid(v, z)
           IN  \E d \in DOMAIN grid.columns :
                 /\ d = SlotDate(z, e[2])
                 /\ \E r \in DOMAIN grid.labels : grid.columns[d][r] = e[2]
<1> DEFINE of(d) == {h \in v : SlotDate(z, h[2]) = d}
           dates == {SlotDate(z, h[2]) : h \in v}
           sizes == {0} \cup {Cardinality(of(d)) : d \in dates}
           rows == Max(sizes)
           longest == Min({d \in dates : Cardinality(of(d)) = rows})
           cell(d, r) == LET at == Place(of(d)) IN (CHOOSE h \in of(d) : at[h] = r)[2]
           column(d) == [r \in 1..rows |-> IF r <= Cardinality(of(d)) THEN cell(d, r) ELSE 0]
           date == SlotDate(z, e[2])
<1>1. /\ BuildSlotGrid(v, z).columns = [d \in dates |-> column(d)]
      /\ BuildSlotGrid(v, z).labels = IF dates = {} THEN <<>>
                                      ELSE [r \in 1..rows |-> SlotLabel(z, cell(longest, r))]
  BY DEF BuildSlotGrid
<1>2. date \in dates /\ e \in of(date)
  OBVIOUS
<1>3. ASSUME NEW d
      PROVE  /\ Array(of(d)) /\ Cardinality(of(d)) \in Nat /\ Cardinality(of(d)) <= Cardinality(v)
  <2>1. of(d) \in SUBSET v /\ IsFiniteSet(v)
    BY DEF Array
  <2>2. IsFiniteSet(of(d)) /\ Cardinality(of(d)) <= Cardinality(v)
    BY <2>1, FS_Subset
  <2>3. of(d) \subseteq Int \X Int
    BY <2>1 DEF Array
  <2> HIDE DEF of
  <2> QED
    BY <2>2, <2>3, FS_CardinalityType DEF Array
<1>4. Cardinality(v) \in Nat
  BY FS_CardinalityType DEF Array
<1> HIDE DEF of, dates, cell, longest, date
<1>5. \A n \in sizes : n \in Int /\ n <= Cardinality(v)
  BY <1>3, <1>4
<1>6. rows \in Int /\ Cardinality(of(date)) <= rows
  <2>1. sizes \subseteq Int /\ sizes # {} /\ Cardinality(of(date)) \in sizes
    BY <1>2, <1>5
  <2>2. Cardinality(v) \in Int /\ \A n \in sizes : n <= Cardinality(v)
    BY <1>4, <1>5
  <2> HIDE DEF sizes
  <2>3. Max(sizes) \in sizes /\ \A n \in sizes : n <= Max(sizes)
    BY <2>1, <2>2, MaxOfBounded
  <2> QED
    BY <2>1, <2>3
<1> HIDE DEF rows
<1> DEFINE place == Place(of(date))[e]
<1>7. place \in 1..Cardinality(of(date)) /\ place \in 1..rows
  <2>1. place \in 1..Cardinality(of(date)) /\ Cardinality(of(date)) \in Nat
    BY <1>2, <1>3, Places
  <2> QED
    BY <1>6, <2>1
<1>8. cell(date, place) = e[2]
  <2>1. \A h \in of(date) : Place(of(date))[h] = place => h = e
    BY <1>2, <1>3, Places
  <2> QED
    BY <1>2, <2>1 DEF cell
<1> HIDE DEF place
<1>9. column(date)[place] = e[2]
  <2>1. place <= Cardinality(of(date))
    BY <1>3, <1>7
  <2> QED
    BY <1>7, <1>8, <2>1
<1> HIDE DEF column
<1>10. /\ date \in DOMAIN BuildSlotGrid(v, z).columns
       /\ BuildSlotGrid(v, z).columns[date] = column(date)
  BY <1>1, <1>2
<1>11. place \in DOMAIN BuildSlotGrid(v, z).labels
  BY <1>1, <1>2, <1>7
<1> QED
  BY <1>9, <1>10, <1>11 DEF date

\* No local day begins before the day before it has ended.
LEMMA MidnightsAscend ==
    ASSUME NEW z, Clock(z), NEW a \in Int, NEW b \in Int, a <= b
    PROVE  Midnight(z, a) <= Midnight(z, b)
<1> DEFINE m == a * DAY
           n == b * DAY
<1>1. m \in Int /\ n \in Int /\ (a # b => m + DAY <= n)
  <2>1. a < b => DAY * a + DAY <= DAY * b
    BY ProductMonotone, SlotAssumption
  <2>2. DAY * a = m /\ DAY * b = n /\ m \in Int /\ n \in Int
    BY SlotAssumption
  <2> HIDE DEF m, n
  <2> QED
    BY <2>1, <2>2
<1>2. Midnight(z, a) = IF m < High(z) THEN m - z.from ELSE m - z.to
  BY MidnightIs
<1>3. Midnight(z, b) = IF n < High(z) THEN n - z.from ELSE n - z.to
  BY MidnightIs
<1> HIDE DEF m, n
<1>4. z.from \in Int /\ z.to \in Int /\ High(z) \in Int /\ z.to - z.from \in -DAY..DAY /\ DAY \in Nat
  BY LowHigh, SlotAssumption DEF Clock
<1>5. CASE a = b
  BY <1>2, <1>4, <1>1, <1>5
<1>6. CASE a # b
  BY <1>1, <1>2, <1>3, <1>4, <1>6
<1> QED
  BY <1>5, <1>6

\* The server's slots ascend from day to day.
LEMMA SlotsAscend ==
    ASSUME NEW g, Scheduled(g), NEW e \in ServerSlots(g), NEW f \in ServerSlots(g), e[1] < f[1]
    PROVE  e[2] < f[2]
<1>1. /\ e[1] \in Int /\ f[1] \in Int /\ Clock(g.zone) /\ e[1] + 1 <= f[1] /\ e[1] + 1 \in Int
      /\ f[1] + 1 \in Int
  BY Entries DEF Scheduled
<1>2. /\ e[2] \in Midnight(g.zone, e[1])..Midnight(g.zone, e[1] + 1) - 1
      /\ f[2] \in Midnight(g.zone, f[1])..Midnight(g.zone, f[1] + 1) - 1
  BY Entries DEF ServerDay, LocalDay
<1>3. Midnight(g.zone, e[1] + 1) <= Midnight(g.zone, f[1])
  BY <1>1, MidnightsAscend
<1>4. \A d \in Int : Midnight(g.zone, d) \in Int
  BY <1>1, MidnightIs
<1>5. /\ Midnight(g.zone, e[1]) \in Int /\ Midnight(g.zone, e[1] + 1) \in Int
      /\ Midnight(g.zone, f[1]) \in Int /\ Midnight(g.zone, f[1] + 1) \in Int
  BY <1>1, <1>4
<1> QED
  BY <1>2, <1>3, <1>5

-----------------------------------------------------------------------------
(* The invariant.                                                          *)

\* A group that the server accepted.
Accepted(g) ==
    /\ DOMAIN g = {"zone", "first", "last", "open", "close"}
    /\ Scheduled(g) /\ ValidateGroupWindow(g)

GroupsInv ==
    /\ group = NoGroup \/ Accepted(group)
    /\ shown = NoGroup \/ Accepted(shown)
    /\ group = NoGroup => shown = NoGroup

\* Each array is that of its group.
SlotsInv == slots = [server |-> ServerSlots(group), page |-> GenerateSlots(shown)]

FormInv ==
    /\ form \in [date : Int, start : Int, duration : DurationOptions]
    /\ outcome \in {"none", "fields", "blocked", "proposed", "outside"}

IInv == GroupsInv /\ SlotsInv /\ FormInv

\* Before there is a group there are no slots.
LEMMA NoSlots == ServerSlots(NoGroup) = {} /\ GenerateSlots(NoGroup) = {}
<1>1. NoGroup.open = 0 /\ NoGroup.close = 0
  BY DEF NoGroup
<1>2. \A d : ServerDay(NoGroup, d) = {}
  BY <1>1 DEF ServerDay
<1> QED
  BY <1>1, <1>2 DEF ServerSlots, GenerateSlots

\* What is offered in the form is a time after 1970, and of whole slots.
LEMMA PageTyped ==
    ASSUME GroupsInv, SlotsInv
    PROVE  /\ \A s \in SlotSet(slots.page) : s \in Nat \ {0} /\ SlotDate(shown.zone, s) \in Int
           /\ Array(slots.page)
<1>1. slots.page = GenerateSlots(shown)
  BY DEF SlotsInv
<1>2. CASE shown = NoGroup
  <2>1. slots.page = {}
    BY <1>1, <1>2, NoSlots
  <2> QED
    BY <2>1, FS_EmptySet DEF SlotSet, Array
<1>3. CASE Accepted(shown)
  <2>1. Scheduled(shown) /\ Clock(shown.zone)
    BY <1>3 DEF Accepted, Scheduled
  <2>2. Array(slots.page) /\ \A e \in slots.page : e[2] \in Nat \ {0}
    BY <1>1, <2>1, ArraysTyped
  <2>3. ASSUME NEW s \in Nat PROVE SlotDate(shown.zone, s) \in Int
    <3>1. WallIn(shown.zone, s) \in Int
      BY <2>1, LowHigh DEF WallIn, Offset
    <3> QED
      BY <3>1, SlotAssumption DEF SlotDate
  <2> QED
    BY <2>2, <2>3 DEF SlotSet
<1> QED
  BY <1>2, <1>3 DEF GroupsInv

\* The start that the form takes is one it lists.
LEMMA StartListed ==
    ASSUME GroupsInv, SlotsInv, SelectedStart # -1
    PROVE  SelectedStart \in Listed
<1>1. Listed \subseteq Nat
  BY PageTyped DEF Listed
<1>2. Listed # {} => Min(Listed) \in Listed
  BY <1>1, LeastExists DEF Min
<1> QED
  BY <1>2 DEF SelectedStart

\* Before there is a group, the invariant holds.
LEMMA InitIInv == Init => IInv
<1> SUFFICES ASSUME Init PROVE IInv
  OBVIOUS
<1>1. GroupsInv
  BY DEF Init, GroupsInv
<1>2. SlotsInv
  BY NoSlots DEF Init, SlotsInv
<1>3. FormInv
  <2>1. MinDuration \in DurationOptions
    BY SlotAssumption DEF DurationOptions
  <2> QED
    BY <2>1 DEF Init, FormInv
<1> QED
  BY <1>1, <1>2, <1>3 DEF IInv

\* What the form of a new group lets through, the server accepts.
LEMMA SubmittedAccepted ==
    ASSUME NEW g \in Entered,
           g.open \in WindowOptions.start, g.close \in WindowOptions.end,
           ValidateGroupForm(g) = {}
    PROVE  Accepted(g)
<1>1. g.zone \in Zones /\ Clock(g.zone)
  BY SlotAssumption DEF Entered, Clock
<1>2. g.first \in Nat \ {0} /\ g.last \in Nat \ {0} /\ MaxRangeDays \in Nat /\ DAY \in Nat \ {0}
  BY SlotAssumption DEF Entered
<1>3. g.open \in 0..DAY - 1 /\ g.close \in 1..DAY
  BY DEF WindowOptions
<1>4. DaysInclusive(g.first, g.last) \in 1..MaxRangeDays /\ g.open < g.close
  BY DEF ValidateGroupForm
<1>5. Scheduled(g)
  BY <1>1, <1>2, <1>3, <1>4 DEF Scheduled
<1>6. ValidateGroupWindow(g)
  BY <1>2, <1>3, <1>4 DEF ValidateGroupWindow, DaysInclusive
<1>7. DOMAIN g = {"zone", "first", "last", "open", "close"}
  BY DEF Entered
<1> QED
  BY <1>5, <1>6, <1>7 DEF Accepted

\* A daily window moved elsewhere leaves a group that the server accepts.
LEMMA MovedAccepted ==
    ASSUME Accepted(group), NEW window \in Moves, window[1] < window[2]
    PROVE  Accepted([group EXCEPT !.open = window[1], !.close = window[2]])
<1> DEFINE moved == [group EXCEPT !.open = window[1], !.close = window[2]]
<1>1. window[1] \in 0..DAY /\ window[2] \in 0..DAY /\ DAY \in Nat
  BY SlotAssumption
<1>2. /\ DOMAIN moved = {"zone", "first", "last", "open", "close"}
      /\ moved.zone = group.zone /\ moved.first = group.first /\ moved.last = group.last
      /\ moved.open = window[1] /\ moved.close = window[2]
  BY DEF Accepted
<1> HIDE DEF moved
<1>3. Scheduled(moved)
  BY <1>1, <1>2 DEF Accepted, Scheduled
<1>4. ValidateGroupWindow(moved)
  BY <1>1, <1>2 DEF Accepted, ValidateGroupWindow
<1> QED
  BY <1>2, <1>3, <1>4 DEF Accepted, moved

\* The form is mounted with the date of the first slot of the array.
LEMMA NewFormTyped ==
    ASSUME NEW g, Scheduled(g), NEW vector, Array(vector)
    PROVE  NewForm(g.zone, vector) \in [date : Int, start : Int, duration : DurationOptions]
<1> DEFINE head == CHOOSE e \in vector : \A f \in vector : Before(e, f)
<1>1. ASSUME vector # {} PROVE SlotDate(g.zone, head[2]) \in Int
  <2>1. \E e \in vector : \A f \in vector : Before(e, f)
    <3>1. 1 \in 1..Cardinality(vector)
      BY <1>1, Places DEF Array
    <3>2. PICK e \in vector : Place(vector)[e] = 1
      BY <3>1, Places
    <3>3. ASSUME NEW f \in vector PROVE Before(e, f)
      <4>1. Before(e, f) \/ Before(f, e)
        BY BeforeOrder DEF Array
      <4>2. Place(vector)[f] \in Int /\ Place(vector)[f] >= 1
        BY Places
      <4>3. ~(Before(f, e) /\ f # e)
        BY <3>2, <4>2, Places
      <4> QED
        BY <4>1, <4>3
    <3> QED
      BY <3>3
  <2>2. head \in vector
    BY <2>1
  <2>3. head[2] \in Int
    BY <2>2 DEF Array
  <2> HIDE DEF head
  <2>4. WallIn(g.zone, head[2]) \in Int
    BY <2>3, LowHigh DEF WallIn, Offset, Scheduled
  <2> QED
    BY <2>4, SlotAssumption DEF SlotDate
<1>2. (IF 2 \in DurationOptions THEN 2 ELSE MinDuration) \in DurationOptions
  BY SlotAssumption DEF DurationOptions
<1>3. (IF vector = {} THEN 0 ELSE SlotDate(g.zone, head[2])) \in Int
  BY <1>1
<1> HIDE DEF head
<1> QED
  BY <1>2, <1>3 DEF NewForm, head

\* A group that is created replaces both arrays, a refused one none.
LEMMA SubmitGroupKeeps == ASSUME IInv, NEW g \in Entered, SubmitGroup(g) PROVE IInv'
<1>1. g.open \in WindowOptions.start /\ g.close \in WindowOptions.end
  BY DEF SubmitGroup
<1>2. CASE ValidateGroupForm(g) # {}
  BY <1>2 DEF SubmitGroup, IInv, GroupsInv, SlotsInv, FormInv
<1>3. CASE ValidateGroupForm(g) = {}
  <2>1. Accepted(g)
    BY <1>1, <1>3, SubmittedAccepted
  <2>2. /\ group' = g /\ shown' = g /\ outcome' = "none"
        /\ slots' = [server |-> ServerSlots(g), page |-> GenerateSlots(g)]
        /\ form' = NewForm(g.zone, slots'.page)
    BY <1>3, <2>1 DEF SubmitGroup, Accepted
  <2>3. GroupsInv' /\ SlotsInv'
    BY <2>1, <2>2 DEF GroupsInv, SlotsInv
  <2>4. Array(GenerateSlots(g)) /\ slots'.page = GenerateSlots(g)
    BY <2>1, <2>2, ArraysTyped DEF Accepted
  <2>5. FormInv'
    BY <2>1, <2>2, <2>4, NewFormTyped DEF FormInv, Accepted
  <2> QED
    BY <2>3, <2>5 DEF IInv
<1> QED
  BY <1>2, <1>3

\* A moved window replaces the server's array, and the page's stays that of the
\* group that it has read.
LEMMA MoveWindowKeeps ==
    ASSUME IInv, NEW window \in Moves, MoveWindow(window[1], window[2])
    PROVE  IInv'
<1> DEFINE moved == [group EXCEPT !.open = window[1], !.close = window[2]]
<1>1. /\ Accepted(group) /\ window[1] < window[2] /\ group' = moved
      /\ slots' = [slots EXCEPT !.server = ServerSlots(moved)]
      /\ UNCHANGED <<shown, form, outcome>>
  BY DEF MoveWindow, IInv, GroupsInv
<1>2. Accepted(moved)
  BY <1>1, MovedAccepted
<1> HIDE DEF moved
<1>3. moved # NoGroup
  <2>1. moved.open < moved.close
    BY <1>2 DEF Accepted, Scheduled
  <2> QED
    BY <2>1 DEF NoGroup
<1>4. GroupsInv'
  BY <1>1, <1>2, <1>3 DEF IInv, GroupsInv
<1>5. SlotsInv'
  BY <1>1 DEF IInv, SlotsInv
<1>6. FormInv'
  BY <1>1 DEF IInv, FormInv
<1> QED
  BY <1>4, <1>5, <1>6 DEF IInv

\* Reading the group gives the page the array of the group as it is.
LEMMA ReadGroupKeeps == ASSUME IInv, ReadGroup PROVE IInv'
BY DEF IInv, GroupsInv, SlotsInv, FormInv, ReadGroup

\* A field of the form takes one of the values it lists.
LEMMA SetKeeps ==
    ASSUME IInv,
           \/ \E date \in Dates : SetDate(date)
           \/ \E start \in SlotSet(slots.page) : SetStart(start)
           \/ \E duration \in DurationOptions : SetDuration(duration)
    PROVE  IInv'
<1>1. UNCHANGED <<group, shown, slots>> /\ outcome' = "none"
  BY DEF SetDate, SetStart, SetDuration, Set
<1>2. GroupsInv' /\ SlotsInv'
  BY <1>1 DEF IInv, GroupsInv, SlotsInv
<1>3. \A value \in Int : [form EXCEPT !["date"] = value] \in
        [date : Int, start : Int, duration : DurationOptions]
  BY DEF IInv, FormInv
<1>4. \A value \in Int : [form EXCEPT !["start"] = value] \in
        [date : Int, start : Int, duration : DurationOptions]
  BY DEF IInv, FormInv
<1>5. \A value \in DurationOptions : [form EXCEPT !["duration"] = value] \in
        [date : Int, start : Int, duration : DurationOptions]
  BY DEF IInv, FormInv
<1>6. form' \in [date : Int, start : Int, duration : DurationOptions]
  <2>1. CASE \E date \in Dates : SetDate(date)
    BY <1>3, <2>1, SlotAssumption DEF SetDate, Set
  <2>2. CASE \E start \in SlotSet(slots.page) : SetStart(start)
    BY <1>4, <2>2, PageTyped DEF SetStart, Set, IInv
  <2>3. CASE \E duration \in DurationOptions : SetDuration(duration)
    BY <1>5, <2>3 DEF SetDuration, Set
  <2> QED
    BY <2>1, <2>2, <2>3
<1> QED
  BY <1>1, <1>2, <1>6 DEF IInv, FormInv

\* A press of the button changes what became of it and nothing else.
LEMMA SubmitKeeps == ASSUME IInv, Submit PROVE IInv'
BY DEF IInv, GroupsInv, SlotsInv, FormInv, Submit

\* The invariant is inductive.
LEMMA NextIInv == IInv /\ [Next]_vars => IInv'
<1> SUFFICES ASSUME IInv, [Next]_vars PROVE IInv'
  OBVIOUS
<1>1. CASE UNCHANGED vars
  BY <1>1 DEF vars, IInv, GroupsInv, SlotsInv, FormInv
<1>2. CASE Next
  BY <1>2, SubmitGroupKeeps, MoveWindowKeeps, ReadGroupKeeps, SetKeeps, SubmitKeeps DEF Next
<1> QED
  BY <1>1, <1>2

\* The invariant: a group is one that the server accepted, and each array is that of
\* the group that was read.
THEOREM Invariant == Spec => []IInv
BY InitIInv, NextIInv, PTL DEF Spec

\* TypeOK, for every zone, date and window: validateGroupForm lets nothing through that
\* validate_group_window refuses, and the start that the form takes is of its date.
THEOREM TypeCorrect == Spec => []TypeOK
<1>1. IInv => TypeOK
  <2> SUFFICES ASSUME IInv PROVE TypeOK
    OBVIOUS
  <2>1. group # NoGroup => ValidateGroupWindow(group)
    BY DEF IInv, GroupsInv, Accepted
  <2>2. SelectedStart # -1 => SlotDate(shown.zone, SelectedStart) = form.date
    BY StartListed DEF IInv, Listed
  <2>3. form.duration \in DurationOptions
    BY DEF IInv, FormInv
  <2> QED
    BY <2>1, <2>2, <2>3 DEF TypeOK, IInv, FormInv
<1> QED
  BY <1>1, Invariant, PTL

-----------------------------------------------------------------------------
(* The grid.                                                               *)

\* Where the browser's slots are the server's, the grid has them all, and they ascend.
LEMMA PageHolds ==
    ASSUME NEW g, Accepted(g), ~EdgeInChange(g)
    PROVE  LET page == GenerateSlots(g)
           IN  /\ page = ServerSlots(g) /\ Array(page)
               /\ \A e, f \in page : e[1] < f[1] => e[2] < f[2]
BY SamePage, ArraysTyped, SlotsAscend DEF Accepted

\* GridMatchesServer, for every zone, date range and daily window: but for an edge
\* inside a change, the two programs work out the same slots, in one ascending order,
\* and the grid has each of them in the column of its date.
THEOREM GridMatchesServerHolds == Spec => GridMatchesServer
<1>1. IInv /\ IInv' /\ [Next]_vars => [GridStep]_vars
  <2> SUFFICES ASSUME IInv', shown' # shown, ~EdgeInChange(shown')
               PROVE  LET page == slots'.page
                      IN  /\ page = ServerSlots(shown')
                          /\ \A grid \in {BuildSlotGrid(page, shown'.zone)}, e \in page :
                               \E d \in DOMAIN grid.columns :
                                 /\ d = SlotDate(shown'.zone, e[2])
                                 /\ \E r \in DOMAIN grid.labels : grid.columns[d][r] = e[2]
                          /\ \A e, f \in page : e[1] < f[1] => e[2] < f[2]
    BY DEF GridStep
  <2>1. slots'.page = GenerateSlots(shown')
    BY DEF IInv, SlotsInv
  <2>2. CASE shown' = NoGroup
    BY <2>1, <2>2, NoSlots
  <2>3. CASE Accepted(shown')
    <3>1. /\ slots'.page = ServerSlots(shown') /\ Array(slots'.page)
          /\ \A e, f \in slots'.page : e[1] < f[1] => e[2] < f[2]
      BY <2>1, <2>3, PageHolds
    <3> QED
      BY <3>1, GridHasAll
  <2> QED
    BY <2>2, <2>3 DEF IInv, GroupsInv
<1> QED
  BY <1>1, Invariant, PTL DEF Spec, GridMatchesServer

-----------------------------------------------------------------------------
(* The form that proposes a window by hand.                                *)

LEMMA MaxOfInterval ==
    ASSUME NEW a \in Int, NEW b \in Int, a <= b
    PROVE  Min(a..b) = a /\ Max(a..b) = b
BY DEF Min, Max

\* What the form lists is the interval of one day, and what the server has of it.
LEMMA ListedIsDay ==
    ASSUME IInv, group = shown, group # NoGroup, ~EdgeInChange(group), Listed # {}
    PROVE  /\ slots.server = slots.page
           /\ \E a, b \in Int : a <= b /\ Listed = a..b
<1>1. Accepted(group) /\ slots.page = GenerateSlots(group) /\ slots.server = ServerSlots(group)
  BY DEF IInv, GroupsInv, SlotsInv
<1>2. slots.server = slots.page
  BY <1>1, PageHolds
<1>3. Scheduled(group) /\ Clock(group.zone)
  BY <1>1 DEF Accepted, Scheduled
<1>4. \A s : s \in Listed <=>
        /\ form.date \in group.first..group.last /\ s \in Day(group, form.date)
        /\ SlotDate(group.zone, s) = form.date
  <2>1. ASSUME NEW s \in Listed
        PROVE  form.date \in group.first..group.last /\ s \in Day(group, form.date)
    <3>1. PICK e \in slots.page : s = e[2] /\ SlotDate(group.zone, s) = form.date
      BY DEF Listed, SlotSet
    <3>2. /\ e[1] \in group.first..group.last /\ s \in Day(group, e[1])
          /\ s \in ServerDay(group, e[1])
      BY <1>1, <1>2, <1>3, <3>1, Entries
    <3>3. e[1] = form.date
      BY <3>1, <3>2 DEF ServerDay
    <3> QED
      BY <3>2, <3>3
  <2>2. ASSUME NEW s, form.date \in group.first..group.last, s \in Day(group, form.date),
               SlotDate(group.zone, s) = form.date
        PROVE  s \in Listed
    <3>1. <<form.date, s>> \in slots.page
      BY <1>1, <1>3, <2>2, Entries
    <3>2. s \in SlotSet(slots.page)
      BY <3>1 DEF SlotSet
    <3> QED
      BY <2>2, <3>2 DEF Listed
  <2>3. ASSUME NEW s \in Listed PROVE SlotDate(group.zone, s) = form.date
    BY DEF Listed
  <2> QED
    BY <2>1, <2>2, <2>3
<1>5. form.date \in group.first..group.last /\ form.date \in Int
  BY <1>3, <1>4 DEF Scheduled
<1>6. Day(group, form.date) = ServerDay(group, form.date)
  BY <1>3, <1>5, SameDay
<1>7. Listed = Day(group, form.date)
  BY <1>4, <1>5, <1>6 DEF ServerDay
<1>8. PICK a \in Int, b \in Int : Day(group, form.date) = a..b
  <2>1. form.date * DAY + group.open \in Int /\ form.date * DAY + group.close \in Int
    BY <1>3, <1>5, SlotAssumption DEF Scheduled
  <2>2. /\ WallToInstant(group.zone, form.date * DAY + group.open, "earlier") \in Int
        /\ WallToInstant(group.zone, form.date * DAY + group.close, "later") \in Int
    BY <1>3, <2>1, InstantNear
  <2> QED
    BY <2>2 DEF Day
<1>9. a <= b
  BY <1>7, <1>8
<1> QED
  BY <1>2, <1>7, <1>8, <1>9

\* What a proposal has to be, slot by slot.
LEMMA Proposable ==
    ASSUME NEW valid, NEW start \in Int, NEW end \in Int
    PROVE  ValidateProposal(valid, start, end)
             <=> start < end /\ \A c \in Int : start <= c /\ c < end => c \in SlotSet(valid)
<1>1. end - 1 \in Int /\ \A c \in Int : c <= end - 1 <=> c < end
  OBVIOUS
<1>2. \A c : c \in start..end - 1 <=> c \in Int /\ start <= c /\ c < end
  BY <1>1
<1> QED
  BY <1>2 DEF ValidateProposal

\* A window that the form holds back, or sends, when the page has read the group.
LEMMA SubmitAgrees ==
    ASSUME IInv, Submit, group = shown, group # NoGroup, ~EdgeInChange(group)
    PROVE  /\ outcome' # "outside"
           /\ outcome' = "blocked" =>
                \/ ~ValidateProposal(slots.server, SelectedStart, SelectedStart + form.duration)
                \/ SlotDate(group.zone, SelectedStart + form.duration - 1) # form.date
<1> DEFINE start == SelectedStart
           end == start + form.duration
           last == start + form.duration - 1
<1>1. start \in Listed /\ form.duration \in Nat \ {0}
  BY StartListed, SlotAssumption DEF Submit, IInv, FormInv, DurationOptions
<1>2. PICK a \in Int, b \in Int : a <= b /\ Listed = a..b
  BY <1>1, ListedIsDay
<1>3. start \in Int /\ a <= start /\ start <= b /\ end \in Int /\ start < end /\ last = end - 1
  BY <1>1, <1>2
<1>4. Max(Listed) = b /\ slots.server = slots.page
  BY <1>1, <1>2, ListedIsDay, MaxOfInterval
<1>5. Fits <=> end <= b + 1
  BY <1>4 DEF Fits
<1>6. outcome' = IF ~Fits THEN "blocked"
                 ELSE IF ValidateProposal(slots.server, start, end) THEN "proposed"
                 ELSE "outside"
  BY DEF Submit
<1> HIDE DEF start, end, last
<1>7. ASSUME Fits PROVE ValidateProposal(slots.server, start, end)
  <2>1. ASSUME NEW c \in Int, start <= c, c < end PROVE c \in Listed
    BY <1>2, <1>3, <1>5, <1>7, <2>1
  <2>2. Listed \subseteq SlotSet(slots.server)
    BY <1>4 DEF Listed
  <2> QED
    BY <1>3, <2>1, <2>2, Proposable
<1>8. ASSUME ~Fits, ValidateProposal(slots.server, start, end)
      PROVE  SlotDate(group.zone, last) # form.date
  <2>1. last \in Int /\ start <= last /\ last < end /\ last > b
    BY <1>2, <1>3, <1>5, <1>8
  <2>2. last \in SlotSet(slots.page)
    BY <1>3, <1>4, <1>8, <2>1, Proposable
  <2>3. last \notin Listed
    BY <1>2, <2>1
  <2> QED
    BY <2>2, <2>3 DEF Listed
<1>9. /\ outcome' # "outside"
      /\ outcome' = "blocked" => \/ ~ValidateProposal(slots.server, start, end)
                                 \/ SlotDate(group.zone, last) # form.date
  BY <1>6, <1>7, <1>8
<1> QED
  BY <1>9, Zenon DEF start, end, last

\* FormAgreesWithServer, for every zone, date range, daily window and duration: what the
\* form sends is accepted, and what it holds back would be refused or runs into the
\* next date, but for an edge inside a change and a window moved since it was read.
THEOREM FormAgreesWithServerHolds == Spec => FormAgreesWithServer
<1>1. IInv /\ [Next]_vars => [FormStep]_vars
  <2> SUFFICES ASSUME IInv, Next, outcome' # outcome, group = shown, group # NoGroup,
                      ~EdgeInChange(group)
               PROVE  /\ outcome' # "outside"
                      /\ outcome' = "blocked" =>
                           \/ ~ValidateProposal(slots.server, SelectedStart,
                                                SelectedStart + form.duration)
                           \/ SlotDate(group.zone, SelectedStart + form.duration - 1) # form.date
    BY DEF FormStep, vars
  <2>1. CASE Submit
    BY <2>1, SubmitAgrees
  <2>2. CASE outcome' = "none"
    BY <2>2
  <2>3. outcome' = "none" \/ Submit
    <3>1. ASSUME NEW g PROVE ~SubmitGroup(g)
      BY DEF SubmitGroup
    <3>2. ASSUME NEW window \in Moves PROVE ~MoveWindow(window[1], window[2])
      BY DEF MoveWindow
    <3>3. ~ReadGroup
      BY DEF ReadGroup
    <3>4. ASSUME NEW field, NEW value, Set(field, value) PROVE outcome' = "none"
      BY <3>4 DEF Set
    <3> QED
      BY <3>1, <3>2, <3>3, <3>4 DEF Next, SetDate, SetStart, SetDuration
  <2> QED
    BY <2>1, <2>2, <2>3
<1> QED
  BY <1>1, Invariant, PTL DEF Spec, FormAgreesWithServer

-----------------------------------------------------------------------------
(* The suggestions.                                                        *)

\* A window is an interval of the slots, of the length asked for.
LEMMA WindowIsInterval ==
    ASSUME NEW v, Array(v), NEW duration \in Nat \ {0}, NEW w \in WindowsOf(v, duration)
    PROVE  \E s \in Int : w = s..s + (duration - 1) /\ w \subseteq SlotSet(v)
<1> DEFINE at == Place(v)
           run(e) == {f \in v : at[f] \in at[e]..at[e] + duration - 1}
<1>1. PICK e \in v : /\ w = SlotSet(run(e))
                     /\ at[e] + duration - 1 <= Cardinality(v)
                     /\ \A f \in run(e) : f[2] - e[2] = at[f] - at[e]
  BY DEF WindowsOf
<1>2. /\ Cardinality(v) \in Nat
      /\ \A f \in v : at[f] \in 1..Cardinality(v)
      /\ \A k \in 1..Cardinality(v) : \E f \in v : at[f] = k
  BY Places
<1>3. \A f \in v : f[2] \in Int
  BY DEF Array
<1> DEFINE s == e[2]
           p == at[e]
<1>4. p \in 1..Cardinality(v) /\ s \in Int /\ p + duration - 1 <= Cardinality(v)
  BY <1>1, <1>2, <1>3
<1>5. \A f \in v : f \in run(e) <=> p <= at[f] /\ at[f] < p + duration
  BY <1>2, <1>4
<1>6. \A f \in run(e) : f \in v /\ f[2] - s = at[f] - p
  BY <1>1
<1> HIDE DEF run, at, s, p
<1>7. ASSUME NEW c \in w PROVE c \in s..s + (duration - 1)
  <2>1. PICK f \in run(e) : c = f[2]
    BY <1>1 DEF SlotSet
  <2>2. p <= at[f] /\ at[f] < p + duration /\ c - s = at[f] - p /\ c \in Int /\ at[f] \in Int
    BY <1>2, <1>3, <1>5, <1>6, <2>1
  <2> QED
    BY <1>4, <2>2
<1>8. ASSUME NEW c \in s..s + (duration - 1) PROVE c \in w /\ c \in SlotSet(v)
  <2>1. c \in Int /\ c - s \in 0..duration - 1
    BY <1>4
  <2>2. /\ c \in Int /\ c - s \in Int /\ c - s >= 0 /\ c - s < duration
        /\ p + (c - s) \in 1..Cardinality(v)
    BY <1>2, <1>4, <2>1
  <2>3. PICK f \in v : at[f] = p + (c - s)
    BY <1>2, <2>2
  <2>4. f \in run(e)
    BY <1>4, <1>5, <2>2, <2>3
  <2>5. f[2] = c
    BY <1>3, <1>4, <1>6, <2>2, <2>3, <2>4
  <2> QED
    BY <1>1, <2>4, <2>5 DEF SlotSet
<1> QED
  BY <1>4, <1>7, <1>8

\* A quotient of at least twice the divisor is at least 2.
LEMMA AtLeastTwo ==
    ASSUME NEW x \in Int, NEW k \in Nat \ {0}, k + k <= x
    PROVE  x \div k \in Int /\ x \div k >= 2
<1> DEFINE q == x \div k
<1>1. q \in Int /\ k * q <= x /\ x < k * q + k
  OBVIOUS
<1> HIDE DEF q
<1>2. q < 2 => k * q + k <= k * 2
  BY <1>1, ProductMonotone
<1>3. k * 2 = k + k /\ k * q \in Int
  BY <1>1
<1>4. q >= 2
  BY <1>1, <1>2, <1>3
<1> QED
  BY <1>1, <1>4 DEF q

\* The shade of a cell that everybody can make: each counts at least half.
LEMMA ShadeOfAll ==
    ASSUME NEW a \in Nat, NEW p \in Nat, NEW n \in Nat \ {0}, a + p = n
    PROVE  HeatLevel(a, p, n) >= 2
<1> DEFINE quarters == 4 * (a + 2 * p)
           ceiling == (quarters + 2 * n - 1) \div (2 * n)
<1>1. /\ quarters + 2 * n - 1 \in Int /\ 2 * n \in Nat \ {0}
      /\ 2 * n + 2 * n <= quarters + 2 * n - 1
  OBVIOUS
<1>2. ceiling \in Int /\ ceiling >= 2
  BY <1>1, AtLeastTwo
<1>3. HeatLevel(a, p, n) = Min({4, Max({1, ceiling})})
  BY DEF HeatLevel, HeatLevels
<1> HIDE DEF ceiling
<1>4. Max({1, ceiling}) = ceiling
  BY <1>2, MinMaxOfTwo
<1>5. Min({4, ceiling}) = IF 4 <= ceiling THEN 4 ELSE ceiling
  BY <1>2, MinMaxOfTwo
<1> QED
  BY <1>2, <1>3, <1>4, <1>5

\* The members who have marked a cell as available.
Free(marks, c) == {m \in Members : marks[m][c] = "available"}

\* Members who have not answered have no marks.
Silent(marks, cells, people) ==
    people \subseteq Members /\ \A m \in Members \ people, c \in cells : marks[m][c] = "unselected"

\* What the grid says of a cell, in terms of the marks: it names those who answered.
Says(cell, marks, c, people) ==
    /\ cell.preferredNames = Preferring(marks, c)
    /\ cell.availableNames = Free(marks, c)
    /\ cell.missingNames = people \ Attending(marks, c)
    /\ cell.availableCount = Cardinality(Free(marks, c))
    /\ cell.preferredCount = Cardinality(Preferring(marks, c))
    /\ cell.respondedCount = Cardinality(people)

\* IndexMatrix says so.
LEMMA CellSays ==
    ASSUME NEW cells, NEW marks \in [Members -> [cells -> CellStates]], NEW c \in cells,
           NEW people, Silent(marks, cells, people)
    PROVE  Says(IndexMatrix(MatrixOf(cells, marks, people))[c], marks, c, people)
<1> DEFINE matrix == MatrixOf(cells, marks, people)
           can == Free(marks, c)
           named == DOMAIN matrix.participants
           prefers == {m \in named : c \in matrix.participants[m].preferred}
           avails == {m \in named : c \in matrix.participants[m].available}
<1>1. /\ people \subseteq Members
      /\ {m \in people : marks[m][c] = "available"} = can
      /\ {m \in people : marks[m][c] = "preferred"} = Preferring(marks, c)
  BY DEF Silent, Preferring, Free
<1>2. /\ named = people /\ matrix.slots = cells
      /\ matrix.aggregate[c].available = Cardinality(can)
      /\ matrix.aggregate[c].preferred = Cardinality(Preferring(marks, c))
  BY <1>1 DEF MatrixOf
<1>3. ASSUME NEW m \in people
      PROVE  /\ matrix.participants[m].available = Marked(marks[m], "available") \cap cells
             /\ matrix.participants[m].preferred = Marked(marks[m], "preferred") \cap cells
  BY DEF MatrixOf
<1>4. ASSUME NEW m \in people
      PROVE  /\ c \in matrix.participants[m].available <=> marks[m][c] = "available"
             /\ c \in matrix.participants[m].preferred <=> marks[m][c] = "preferred"
  <2>1. ASSUME NEW state PROVE c \in Marked(marks[m], state) <=> marks[m][c] = state
    BY <1>1 DEF Marked
  <2> HIDE DEF matrix
  <2> QED
    BY <1>3, <2>1
<1>5. IndexMatrix(matrix)[c] =
        [preferredNames |-> prefers, availableNames |-> avails \ prefers,
         missingNames |-> named \ (avails \cup prefers),
         availableCount |-> matrix.aggregate[c].available,
         preferredCount |-> matrix.aggregate[c].preferred,
         respondedCount |-> Cardinality(named)]
  BY <1>2 DEF IndexMatrix
<1> HIDE DEF matrix
<1>6. prefers = Preferring(marks, c) /\ avails = can
  <2>1. prefers = {m \in people : marks[m][c] = "preferred"}
    BY <1>2, <1>4
  <2>2. avails = {m \in people : marks[m][c] = "available"}
    BY <1>2, <1>4
  <2> QED
    BY <1>1, <2>1, <2>2
<1>7. \A m \in Members : marks[m][c] \in CellStates
  OBVIOUS
<1>8. can \ Preferring(marks, c) = can
  BY DEF Preferring, Free
<1>9. people \ (can \cup Preferring(marks, c)) = people \ Attending(marks, c)
  BY <1>7 DEF Preferring, Free, Attending, CellStates
<1> HIDE DEF prefers, avails, named, can
<1> QED
  BY <1>2, <1>5, <1>6, <1>8, <1>9 DEF matrix, can, Says

\* Members who can and members who would rather are apart.
LEMMA CountOfAll ==
    ASSUME NEW marks, NEW c, NEW people, people # {}, Attending(marks, c) = people,
           \A m \in Members : marks[m][c] \in CellStates
    PROVE  LET can == Free(marks, c)
           IN  /\ Cardinality(can) \in Nat /\ Cardinality(Preferring(marks, c)) \in Nat
               /\ Cardinality(can) + Cardinality(Preferring(marks, c)) = Cardinality(people)
               /\ Cardinality(people) \in Nat \ {0}
<1> DEFINE can == Free(marks, c)
           pref == Preferring(marks, c)
<1>1. can \in SUBSET Members /\ pref \in SUBSET Members /\ can \cap pref = {}
  BY DEF Preferring, Free
<1>2. can \cup pref = people
  BY DEF Attending, Preferring, Free, CellStates
<1> HIDE DEF can, pref
<1>3. IsFiniteSet(can) /\ IsFiniteSet(pref)
  BY <1>1, FS_Subset, SlotAssumption
<1>4. Cardinality(can) \in Nat /\ Cardinality(pref) \in Nat
  BY <1>3, FS_CardinalityType
<1>5. Cardinality(people) = Cardinality(can) + Cardinality(pref) - Cardinality({})
  BY <1>1, <1>2, <1>3, FS_Union
<1>6. Cardinality({}) = 0 /\ Cardinality(people) # 0
  <2>1. IsFiniteSet(people)
    BY <1>2, <1>3, FS_Union
  <2> QED
    BY <2>1, FS_EmptySet
<1> QED
  BY <1>4, <1>5, <1>6 DEF can, pref

\* Two consecutive instants are of one date, unless the daily window is the whole day or
\* the clocks change between them.
LEMMA NextSameDate ==
    ASSUME NEW g, Scheduled(g), NEW c \in Int, c \in SlotSet(ServerSlots(g)),
           c + 1 \in SlotSet(ServerSlots(g)), c + 1 # g.zone.at, ~(g.open = 0 /\ g.close = DAY)
    PROVE  SlotDate(g.zone, c) = SlotDate(g.zone, c + 1)
<1> DEFINE z == g.zone
           w == WallIn(z, c)
           x == WallIn(z, c + 1)
<1>1. /\ z.from \in Int /\ z.to \in Int /\ z.at \in Nat /\ DAY \in Nat \ {0}
      /\ g.open \in 0..DAY /\ g.close \in 0..DAY
  BY LowHigh, SlotAssumption DEF Scheduled
<1>2. w \in Int /\ x = w + 1
  BY <1>1 DEF WallIn, Offset
<1>3. w % DAY \in g.open..g.close - 1 /\ x % DAY \in g.open..g.close - 1
  BY Entries DEF SlotSet, ServerDay, SlotLabel
<1>4. SlotDate(z, c) = w \div DAY /\ SlotDate(z, c + 1) = x \div DAY
  BY DEF SlotDate
<1> HIDE DEF w, x, z
<1>5. w \div DAY \in Int /\ x \div DAY \in Int /\ x \in Int
  BY <1>1, <1>2
<1>6. ASSUME w \div DAY # x \div DAY PROVE FALSE
  <2> DEFINE d == w \div DAY
             e == x \div DAY
  <2>1. d \in Int /\ e \in Int /\ d = w \div DAY /\ e = x \div DAY /\ d # e
    BY <1>5, <1>6
  <2> HIDE DEF d, e
  <2>2. w - d * DAY \in 0..DAY - 1 /\ w % DAY = w - d * DAY
    BY <1>1, <1>2, <2>1, DateAndLabel
  <2>3. x - e * DAY \in 0..DAY - 1 /\ x % DAY = x - e * DAY
    BY <1>1, <1>5, <2>1, DateAndLabel
  <2>4. (d < e => DAY * d + DAY <= DAY * e) /\ (e < d => DAY * e + DAY <= DAY * d)
    BY <1>1, <2>1, ProductMonotone
  <2>5. d * DAY = DAY * d /\ e * DAY = DAY * e /\ DAY * d \in Int /\ DAY * e \in Int
    BY <1>1, <2>1
  <2>6. w % DAY = DAY - 1 /\ x % DAY = 0
    BY <1>1, <1>2, <2>1, <2>2, <2>3, <2>4, <2>5
  <2> QED
    BY <1>1, <1>3, <2>6
<1> QED
  BY <1>4, <1>6 DEF z

\* Hence a run of consecutive instants is, by its first instant of another date.
LEMMA RunWithinDate ==
    ASSUME NEW g, Scheduled(g), NEW b \in Int, NEW last \in Int, b <= last,
           b..last \subseteq SlotSet(ServerSlots(g)),
           ~(g.open = 0 /\ g.close = DAY), g.zone.at \notin b + 1..last
    PROVE  SlotDate(g.zone, b) = SlotDate(g.zone, last)
<1> DEFINE T == {c \in b..last : SlotDate(g.zone, c) # SlotDate(g.zone, b)}
<1> SUFFICES ASSUME T # {} PROVE FALSE
  <2>1. last \in b..last
    OBVIOUS
  <2> QED
    BY <2>1
<1>1. T \subseteq Int /\ \A c \in T : b <= c
  OBVIOUS
<1>2. PICK m \in T : \A c \in T : m <= c
  BY <1>1, MinOfBounded
<1>3. m \in b..last /\ m # b
  OBVIOUS
<1>4. m - 1 \in b..last /\ m - 1 \notin T /\ m - 1 + 1 = m /\ m # g.zone.at
  BY <1>2, <1>3
<1>5. SlotDate(g.zone, m - 1) = SlotDate(g.zone, b)
  BY <1>4
<1>6. SlotDate(g.zone, m - 1) = SlotDate(g.zone, m)
  BY <1>3, <1>4, NextSameDate
<1> QED
  BY <1>5, <1>6

\* A suggestion says of a cell what the grid says of it.
Agrees(s, cell, people) ==
    /\ s.preferred \subseteq cell.preferredNames
    /\ s.available \subseteq cell.availableNames \cup cell.preferredNames
    /\ s.missing = cell.missingNames \cup (Members \ people)
    /\ cell.availableCount = Cardinality(cell.availableNames)
    /\ s.missing = Members \ people /\ people # {} =>
         HeatLevel(cell.availableCount, cell.preferredCount, cell.respondedCount) >= 2

\* A suggestion of any marks is a proposal within one date, and agrees with the grid.
LEMMA SuggestionAgrees ==
    ASSUME NEW g, Scheduled(g), NEW v, v = ServerSlots(g), Array(v), NEW duration \in Nat \ {0},
           NEW cells, cells = SlotSet(v), NEW marks \in [Members -> [cells -> CellStates]],
           NEW people, Silent(marks, cells, people),
           NEW s \in Suggestions(WindowsOf(v, duration), marks)
    PROVE  /\ ValidateProposal(v, s.start, s.end)
           /\ SlotDate(g.zone, s.start) = SlotDate(g.zone, s.end - 1) \/ DaysMeet(g, s)
           /\ \A c \in s.start..s.end - 1 :
                Agrees(s, IndexMatrix(MatrixOf(cells, marks, people))[c], people)
<1>1. PICK w \in WindowsOf(v, duration) :
        s = SuggestionFor(marks, w) /\ \A c, d \in w : Attending(marks, c) = Attending(marks, d)
  BY DEF Suggestions
<1>2. PICK b \in Int : w = b..b + (duration - 1) /\ w \subseteq cells
  BY WindowIsInterval
<1> DEFINE last == b + (duration - 1)
           preferred == {m \in Members : \A c \in w : m \in Preferring(marks, c)}
           attending == {m \in Members : \A c \in w : m \in Attending(marks, c)}
<1>3. /\ s.start = Min(w) /\ s.end = Max(w) + 1 /\ s.preferred = preferred
      /\ s.available = attending \ preferred /\ s.missing = Members \ attending
  BY <1>1 DEF SuggestionFor
<1>4. last \in Int /\ b <= last /\ w = b..last
  BY <1>2
<1> HIDE DEF last, preferred, attending
<1>5. s.start = b /\ s.end = last + 1 /\ s.start..s.end - 1 = w
  <2>1. Min(w) = b /\ Max(w) = last
    BY <1>4, MaxOfInterval
  <2>2. last + 1 - 1 = last
    BY <1>4
  <2> QED
    BY <1>3, <1>4, <2>1, <2>2
<1>6. ValidateProposal(v, s.start, s.end)
  <2>1. b \in Int /\ last + 1 \in Int /\ b < last + 1
    BY <1>4
  <2>2. ASSUME NEW c \in Int, b <= c, c < last + 1 PROVE c \in SlotSet(v)
    BY <1>2, <1>4, <2>2
  <2> QED
    BY <1>5, <2>1, <2>2, Proposable
<1>7. SlotDate(g.zone, s.start) = SlotDate(g.zone, s.end - 1) \/ DaysMeet(g, s)
  <2>1. s.end - 1 = last /\ b..last \subseteq SlotSet(ServerSlots(g))
    BY <1>2, <1>4, <1>5
  <2> QED
    BY <1>4, <1>5, <2>1, RunWithinDate DEF DaysMeet
<1>8. ASSUME NEW c \in w
      PROVE  Agrees(s, IndexMatrix(MatrixOf(cells, marks, people))[c], people)
  <2> DEFINE cell == IndexMatrix(MatrixOf(cells, marks, people))[c]
             can == Free(marks, c)
  <2>1. c \in cells /\ \A m \in Members : marks[m][c] \in CellStates
    BY <1>2
  <2>2. Says(cell, marks, c, people)
    BY <2>1, CellSays
  <2> HIDE DEF cell
  <2>3. attending = Attending(marks, c)
    BY <1>1 DEF attending, Attending
  <2>4. preferred \subseteq Preferring(marks, c)
    BY DEF preferred
  <2>5. Attending(marks, c) \subseteq can \cup Preferring(marks, c)
    BY <2>1 DEF Attending, Preferring, Free, CellStates
  <2>6. Attending(marks, c) \subseteq people /\ people \subseteq Members
    BY <2>1 DEF Silent, Attending
  <2>7. ASSUME s.missing = Members \ people, people # {}
        PROVE  HeatLevel(cell.availableCount, cell.preferredCount, cell.respondedCount) >= 2
    <3>1. Attending(marks, c) = people
      BY <1>3, <2>3, <2>6, <2>7
    <3>2. /\ Cardinality(can) \in Nat /\ Cardinality(Preferring(marks, c)) \in Nat
          /\ Cardinality(can) + Cardinality(Preferring(marks, c)) = Cardinality(people)
          /\ Cardinality(people) \in Nat \ {0}
      BY <2>1, <2>7, <3>1, CountOfAll
    <3> QED
      BY <2>2, <3>2, ShadeOfAll DEF Says
  <2>8. /\ s.preferred \subseteq cell.preferredNames
        /\ s.available \subseteq cell.availableNames \cup cell.preferredNames
        /\ s.missing = cell.missingNames \cup (Members \ people)
        /\ cell.availableCount = Cardinality(cell.availableNames)
    BY <1>3, <2>2, <2>3, <2>4, <2>5, <2>6 DEF Says
  <2> QED
    BY <2>7, <2>8 DEF cell, Agrees
<1> QED
  BY <1>5, <1>6, <1>7, <1>8

\* What members with those habits have marked, and who of them has answered.
MarksOf(habits, z, cells) == [m \in Members |-> [c \in cells |-> MarkOf(habits[m], z, c)]]
Responded(habits) == {m \in Members : habits[m] # "silent"}

\* A habit gives each slot a state, and the silent give none.
LEMMA HabitsMark ==
    ASSUME NEW habits \in [Members -> Habits], NEW z, NEW cells
    PROVE  /\ MarksOf(habits, z, cells) \in [Members -> [cells -> CellStates]]
           /\ Silent(MarksOf(habits, z, cells), cells, Responded(habits))
<1>1. ASSUME NEW m \in Members, NEW c \in cells
      PROVE  /\ MarkOf(habits[m], z, c) \in CellStates
             /\ habits[m] = "silent" => MarkOf(habits[m], z, c) = "unselected"
  <2>1. habits[m] \in {"silent", "never", "always", "early", "even_days"}
    BY SlotAssumption
  <2> QED
    BY <2>1 DEF MarkOf, CellStates
<1> QED
  BY <1>1 DEF MarksOf, Responded, Silent

\* SuggestionsHold, for every zone, date range, daily window, set of members, habits and
\* duration: a suggestion can be proposed, lies within one date unless two days meet, and
\* agrees with every cell of the grid, whoever has answered.
THEOREM SuggestionsHoldAlways == Spec => SuggestionsHold
<1>1. IInv' /\ [Next]_vars => [SuggestionStep]_vars
  <2> SUFFICES ASSUME IInv', group' # NoGroup PROVE SuggestionStep
    BY DEF SuggestionStep
  <2> DEFINE v == slots'.server
  <2>1. Scheduled(group') /\ v = ServerSlots(group')
    BY DEF IInv, GroupsInv, SlotsInv, Accepted
  <2>2. Array(v)
    BY <2>1, ArraysTyped
  <2>3. ASSUME NEW duration \in DurationOptions, NEW habits \in [Members -> Habits]
        PROVE  LET cells == SlotSet(v)
                   marks == MarksOf(habits, group'.zone, cells)
                   people == Responded(habits)
               IN  \A s \in Suggestions(WindowsOf(v, duration), marks) :
                     /\ ValidateProposal(v, s.start, s.end)
                     /\ \/ SlotDate(group'.zone, s.start) = SlotDate(group'.zone, s.end - 1)
                        \/ DaysMeet(group', s)
                     /\ \A c \in s.start..s.end - 1 :
                          Agrees(s, IndexMatrix(MatrixOf(cells, marks, people))[c], people)
    <3> DEFINE cells == SlotSet(v)
               marks == MarksOf(habits, group'.zone, cells)
               people == Responded(habits)
    <3>1. duration \in Nat \ {0}
      BY SlotAssumption DEF DurationOptions
    <3>2. marks \in [Members -> [cells -> CellStates]] /\ Silent(marks, cells, people)
      BY HabitsMark
    <3>3. cells = SlotSet(v)
      OBVIOUS
    <3> HIDE DEF marks, people, cells, v
    <3> QED
      BY <2>1, <2>2, <3>1, <3>2, <3>3, SuggestionAgrees DEF marks, people, cells
  <2> QED
    BY <2>3 DEF SuggestionStep, MarksOf, Responded, Agrees
<1> QED
  BY <1>1, Invariant, PTL DEF Spec, SuggestionsHold
=============================================================================
