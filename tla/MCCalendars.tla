------------------------------ MODULE MCCalendars ------------------------------
(***************************************************************************)
(* A small instance of CalendarScreen for TLC: two sources, and a member   *)
(* who is reminded of one of two proposals.                                *)
(***************************************************************************)
EXTENDS CalendarScreen, TLC

Scene(does, from, lost) == [does |-> does, sources |-> from, losses |-> lost]

\* The calendars and the group share nothing but the worker.
SmallScenes ==
    {Scene({"create", "refresh", "remove"}, {"c1"}, 0), Scene({"create", "refresh"}, {"c1"}, 1),
     Scene({"upload", "remove"}, Sources, 1), Scene({"create", "upload"}, Sources, 0),
     Scene({"group"}, {}, 1)}
=============================================================================
