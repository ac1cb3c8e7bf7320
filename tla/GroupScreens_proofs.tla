-------------------------- MODULE GroupScreens_proofs --------------------------
(***************************************************************************)
(* The pages of one user about groups, for any names, links, pages,        *)
(* requests on their way and bounds.                                       *)
(*                                                                         *)
(* A form numbers the bodies it sends, and that number is its key: so the  *)
(* middleware, which lets a key change the group once, lets a body do so.  *)
(* A rename carries the tag of the name it replaces, and a link that a     *)
(* rotation answers with is later than the links before it.                *)
(***************************************************************************)
EXTENDS GroupScreens, TLAPS, FiniteSetTheorems, WellFoundedInduction

-----------------------------------------------------------------------------
(* The middleware.                                                         *)

\* Only a key without a record lets a request run the route, as long as no record
\* has an answer that reads like that.
LEMMA RunsWithoutRecord ==
    ASSUME NEW table, NEW key, NEW request, \A r \in table : r.answer # "run",
           LookedUp(table, key, request) = "run"
    PROVE  RecordsOf(table, key) = {}
<1> SUFFICES ASSUME RecordsOf(table, key) # {} PROVE FALSE
  OBVIOUS
<1>1. PICK r \in table : r.answer = "run" \/ "reuse" = "run"
  BY DEF LookedUp, RecordsOf
<1> QED
  BY <1>1

\* The lookup replays the answer of a record, or it decides by itself.
LEMMA LookUpReplays ==
    ASSUME NEW table, NEW key, NEW request
    PROVE  \/ LookedUp(table, key, request) \in {"run", "reuse"}
           \/ \E r \in table : LookedUp(table, key, request) = r.answer
<1> SUFFICES ASSUME RecordsOf(table, key) # {}
             PROVE  \/ LookedUp(table, key, request) = "reuse"
                    \/ \E r \in table : LookedUp(table, key, request) = r.answer
  BY DEF LookedUp
<1>1. PICK r \in table : LookedUp(table, key, request) \in {r.answer, "reuse"}
  BY DEF LookedUp, RecordsOf
<1> QED
  BY <1>1

\* The middleware keeps every record, has one of the key afterwards, and adds none
\* of another key.
LEMMA StoredRecords ==
    ASSUME NEW table, NEW key, NEW request, NEW answer
    PROVE  LET after == Stored(table, key, request, answer)
           IN /\ table \subseteq after
              /\ \A r \in after : r \in table \/ (r.key = key /\ r.answer = answer)
              /\ RecordsOf(after, key) # {}
              /\ \A k : k # key => RecordsOf(after, k) = RecordsOf(table, k)
<1> DEFINE new == [key |-> key, request |-> request, answer |-> answer]
           after == Stored(table, key, request, answer)
<1>1. after = IF RecordsOf(table, key) = {} THEN table \cup {new} ELSE table
  BY DEF Stored
<1>2. new.key = key /\ new.answer = answer
  OBVIOUS
<1> HIDE DEF new, after
<1> QED
  BY <1>1, <1>2 DEF RecordsOf, after

\* A set of numbers has a least element: the slot a new request takes is free.
LEMMA LeastExists ==
    ASSUME NEW T, T \subseteq Nat, T # {}
    PROVE  \E m \in T : \A k \in T : m <= k
<1> DEFINE R == OpToRel(<, Nat)
<1>1. IsWellFoundedOn(R, Nat)
  BY NatLessThanWellFounded
<1>2. \A x, y \in Nat : y < x => <<y, x>> \in R
  BY DEF OpToRel
<1> HIDE DEF R
<1>3. PICK m \in T : \A k \in T : ~ (<<k, m>> \in R)
  BY <1>1, WFMin
<1>4. \A k \in T : m <= k
  <2> SUFFICES ASSUME NEW k \in T PROVE ~ (k < m)
    OBVIOUS
  <2>1. k \in Nat /\ m \in Nat
    OBVIOUS
  <2> QED
    BY <1>2, <1>3, <2>1
<1> QED
  BY <1>4

-----------------------------------------------------------------------------
(* The invariant.                                                          *)

CallShape == {"phase", "control", "body", "gen", "streak", "tag", "shown", "floor", "answer",
              "client"}
ControlShape == {"status", "open", "typed", "body", "gen", "streak", "held", "refreshing", "link"}

\* The fields of the records, and the controls that a page has together.
Shape ==
    /\ DOMAIN server = {"alive", "version", "name", "invite", "role", "other"}
    /\ DOMAIN detail = {"read", "error"} /\ DOMAIN detail.read = {"tag", "name", "role"}
    /\ DOMAIN made = {"once", "raced", "twice", "blind", "stale"}
    /\ DOMAIN calls = CallIds
    /\ \A i \in CallIds : DOMAIN calls[i] = CallShape
    /\ \E page \in Pages : Controls = page.works
    /\ \A c \in Controls : DOMAIN ctl[c] = ControlShape

\* Requests between the lookup that let them run and the record.
Past(i) == calls[i].phase \in {"admitted", "ran"}

\* A form counts its bodies: the count is the key, and there is a body when it is not 0.
KeyedControls ==
    /\ \A c \in Controls \cap Keyed :
        /\ ctl[c].gen \in 0 .. MaxAttempts /\ ctl[c].streak = ctl[c].gen
        /\ ctl[c].body # "none" => ctl[c].gen > 0
        /\ ctl[c].status = "notice" => ctl[c].body # "none"
    /\ "rename" \in Controls /\ ctl["rename"].open => ctl["rename"].typed # "none"

\* What the route of a request with a key may answer.
RouteAnswers == {"ok", "gone", "forbidden", "conflict", "invalid"}

\* A request of a form has the key of a press, the others have none; no form is told that
\* the user is a member already, so none is reset.
KeyedCalls ==
    /\ \A i \in CallIds : calls[i].gen \in 0 .. MaxAttempts /\ calls[i].phase \in Phases
    /\ \A i \in Flying :
        /\ calls[i].control \in Controls
        /\ IF calls[i].control \in Keyed
           THEN /\ calls[i].gen > 0 /\ calls[i].streak = calls[i].gen
                /\ calls[i].body # "none" /\ ctl[calls[i].control].body # "none"
                /\ calls[i].answer # "already-member"
           ELSE calls[i].gen = 0 /\ ~Past(i)
    /\ \A i \in CallIds : calls[i].phase = "ran" => calls[i].answer \in RouteAnswers
    /\ \A r \in records : r.answer \in RouteAnswers

\* A read whose tag is the version has the name of the group; so has a rename on its way.
NameInv ==
    /\ server.version \in Nat \ {0} /\ server.name # "none"
    /\ detail.read.tag \in 0 .. server.version
    /\ detail.read.tag = server.version => detail.read.name = server.name
    /\ detail.read.role # "none" => detail.read.tag > 0 /\ detail.read.name # "none"
    /\ \A i \in CallIds : calls[i].control = "rename" /\ calls[i].phase \in {"sent", "admitted"} =>
          /\ calls[i].tag \in 1 .. server.version
          /\ calls[i].tag = server.version => calls[i].shown = server.name

FormsInv == Shape /\ KeyedControls /\ KeyedCalls /\ NameInv

-----------------------------------------------------------------------------
(* What the steps do to the requests on their way.                         *)

\* A request keeps what it was sent with.
Kept(i) ==
    /\ DOMAIN calls'[i] = CallShape
    /\ calls'[i].control = calls[i].control /\ calls'[i].body = calls[i].body
    /\ calls'[i].gen = calls[i].gen /\ calls'[i].streak = calls[i].streak
    /\ calls'[i].tag = calls[i].tag /\ calls'[i].shown = calls[i].shown
    /\ calls'[i].floor = calls[i].floor

\* A request is over, waits for what it waited for, or has come a read further; only a
\* success or a removal goes on to the reads.
Onward(i) ==
    \/ calls'[i] = NoCall
    \/ /\ Kept(i) /\ calls'[i].answer = calls[i].answer
       /\ \/ calls'[i].phase = calls[i].phase
          \/ /\ calls[i].phase = "answered" /\ calls'[i].phase \in {"roster", "detail", "settled"}
             /\ Succeeded(calls[i].answer) \/ calls[i].control = "remove"
          \/ calls[i].phase \in {"roster", "detail"} /\ calls'[i].phase \in {"detail", "settled"}

CallsGoOn == DOMAIN calls' = CallIds /\ \A i \in CallIds : Onward(i)

\* The steps of the user that send nothing.
Quiet ==
    \/ OpenRename \/ CloseRename \/ RetryJoin
    \/ \E n \in Names : TypeName(n) \/ EditCreation(n)
    \/ \E c \in Controls : OpenPanel(c) \/ CancelPanel(c) \/ PressRefresh(c)

Sending ==
    \/ SubmitRename \/ RetryRename \/ PressRotate \/ PressDelete \/ PressLeave \/ PressRemove
    \/ SubmitCreation \/ RetryCreation \/ StartJoin

NoCallFields ==
    /\ DOMAIN NoCall = CallShape /\ NoCall.phase = "none" /\ NoCall.gen = 0
    /\ NoCall.control = "none" /\ NoCall.client = "deaf" /\ NoCall.answer = "none"

\* No request is a request on its way.
LEMMA NoCallIsNone == NoCallFields
BY DEF NoCallFields, NoCall, CallShape

\* A control that is reset lets its request go on.
LEMMA DetachedGoOn ==
    ASSUME Shape, NEW S, calls' = Detached(calls, S)
    PROVE  CallsGoOn
BY DEF CallsGoOn, Onward, Kept, Detached, Shape, CallShape

\* A step that leaves the requests alone lets them go on.
LEMMA UnchangedGoOn == ASSUME Shape, UNCHANGED calls PROVE CallsGoOn
BY DEF CallsGoOn, Onward, Kept, Shape

\* Typing, opening and closing panels let the requests go on, and serve none.
LEMMA QuietGoesOn ==
    ASSUME Shape, Quiet
    PROVE  CallsGoOn /\ UNCHANGED <<server, records, detail, made>>
BY DetachedGoOn, UnchangedGoOn DEF Quiet, OpenRename, CloseRename, RetryJoin, TypeName, EditCreation,
   OpenPanel, CancelPanel, PressRefresh, Only

\* The end of a request lets the others go on, and serves none.
LEMMA EndingGoesOn ==
    ASSUME Shape, NEW i \in CallIds, GiveUp(i) \/ Refused(i) \/ Accepted(i) \/ Settled(i) \/ Vanish(i)
    PROVE  CallsGoOn /\ UNCHANGED <<server, records, detail>>
<1>1. UNCHANGED <<server, records, detail>>
  BY DEF GiveUp, Refused, Accepted, Settled, Vanish
<1>2. NoCallFields
  BY NoCallIsNone
<1>3. CASE GiveUp(i)
  BY <1>1, <1>3 DEF GiveUp, Move, CallsGoOn, Onward, Kept, Shape, CallShape
<1>4. CASE Settled(i) \/ Vanish(i)
  BY <1>1, <1>4 DEF Settled, Vanish, Move, CallsGoOn, Onward, Kept, Shape
<1>5. CASE Accepted(i)
  <2>1. NextRead(calls[i].control) \in {"roster", "detail", "settled"}
    BY DEF NextRead
  <2> QED
    BY <1>1, <1>5, <2>1 DEF Accepted, Move, CallsGoOn, Onward, Kept, Shape, CallShape
<1>6. CASE Refused(i)
  <2>1. /\ calls[i].phase = "answered"
        /\ \/ calls' = [calls EXCEPT ![i] = NoCall]
           \/ /\ calls[i].control = "remove"
              /\ calls' = [calls EXCEPT ![i] = [calls[i] EXCEPT !.phase = "roster",
                                                                !.client = "unobserved"]]
    BY <1>6 DEF Refused, Move
  <2>2. DOMAIN calls' = CallIds /\ \A j \in CallIds \ {i} : calls'[j] = calls[j]
    BY <2>1 DEF Shape
  <2>3. Onward(i)
    <3>1. CASE calls' = [calls EXCEPT ![i] = NoCall]
      BY <3>1 DEF Onward, Shape
    <3>2. CASE /\ calls[i].control = "remove"
               /\ calls' = [calls EXCEPT ![i] = [calls[i] EXCEPT !.phase = "roster",
                                                                 !.client = "unobserved"]]
      <4>1. calls'[i] = [calls[i] EXCEPT !.phase = "roster", !.client = "unobserved"]
        BY <3>2 DEF Shape
      <4>2. Kept(i) /\ calls'[i].answer = calls[i].answer /\ calls'[i].phase = "roster"
        BY <4>1 DEF Kept, Shape, CallShape
      <4> QED
        BY <2>1, <3>2, <4>2 DEF Onward
    <3> QED
      BY <2>1, <3>1, <3>2
  <2>4. \A j \in CallIds \ {i} : Onward(j)
    BY <2>2 DEF Onward, Kept, Shape
  <2> QED
    BY <1>1, <2>2, <2>3, <2>4 DEF CallsGoOn
<1> QED
  BY <1>3, <1>4, <1>5, <1>6

\* What waits for a read goes on.
LEMMA ReadsGoOn ==
    ASSUME Shape, NEW result, ReadDetail(result) \/ ReadRoster(result)
    PROVE  CallsGoOn /\ UNCHANGED <<server, records, made>>
<1>1. CASE ReadDetail(result)
  BY <1>1 DEF ReadDetail, CallsGoOn, Onward, Kept, Detached, AfterRead, Shape, CallShape
<1>2. CASE ReadRoster(result)
  BY <1>2 DEF ReadRoster, CallsGoOn, Onward, Kept, AfterRead, Shape, CallShape
<1> QED
  BY <1>1, <1>2

\* A request of a control departs: it takes a free place, and the control is pending.
Departs(c, i) ==
    /\ calls[i].phase = "none" /\ ctl[c].status # "pending"
    /\ DOMAIN calls' = CallIds /\ \A j \in CallIds \ {i} : calls'[j] = calls[j]
    /\ DOMAIN calls'[i] = CallShape /\ calls'[i].phase = "sent" /\ calls'[i].control = c
    /\ calls'[i].answer = "none" /\ calls'[i].client = "observed"
    /\ calls'[i].floor = server.invite
    /\ IF c \in Keyed
       THEN /\ calls'[i].body # "none" /\ calls'[i].gen \in 1 .. MaxAttempts
            /\ calls'[i].streak = calls'[i].gen
       ELSE calls'[i].gen = 0
    /\ c = "rename" => /\ detail.read.role # "none"
                       /\ calls'[i].tag = detail.read.tag /\ calls'[i].shown = detail.read.name
    /\ c = "rotate" => MayRotate
    /\ MayChange \/ (c = "join" /\ server.role # "none")
    /\ DOMAIN ctl' = DOMAIN ctl /\ \A d \in Controls \ {c} : ctl'[d] = ctl[d]
    /\ DOMAIN ctl'[c] = ControlShape /\ ctl'[c].status = "pending"
    /\ ctl'[c].open = ctl[c].open /\ ctl'[c].typed = ctl[c].typed
    /\ ctl'[c].body = calls'[i].body /\ ctl'[c].gen = calls'[i].gen
    /\ ctl'[c].streak = calls'[i].streak
    /\ UNCHANGED <<server, records, detail, made>>

\* A press sends one request, that its control observes.
LEMMA SendDeparts ==
    ASSUME Shape, NEW c \in Controls, NEW body, NEW gen, NEW control, Send(c, body, gen, control),
           ctl[c].status # "pending", DOMAIN control = ControlShape,
           control.open = ctl[c].open, control.typed = ctl[c].typed,
           IF c \in Keyed THEN body # "none" /\ gen \in 1 .. MaxAttempts /\ Streak(c, body) = gen
           ELSE gen = 0,
           c = "rename" => detail.read.role # "none",
           c = "rotate" => MayRotate
    PROVE  \E i \in CallIds : Departs(c, i)
<1> DEFINE i == CHOOSE j \in CallIds \ Flying : \A k \in CallIds \ Flying : j <= k
           call == [phase |-> "sent", control |-> c, body |-> body, gen |-> gen,
                    streak |-> Streak(c, body),
                    tag |-> IF c \in {"rename", "rotate"} THEN detail.read.tag ELSE 0,
                    shown |-> detail.read.name, floor |-> server.invite,
                    answer |-> "none", client |-> "observed"]
           next == [control EXCEPT !.status = "pending", !.body = body, !.gen = gen,
                                   !.streak = Streak(c, body)]
<1>1. /\ Flying # CallIds /\ (MayChange \/ (c = "join" /\ server.role # "none"))
      /\ calls' = [calls EXCEPT ![i] = call] /\ ctl' = [ctl EXCEPT ![c] = next]
      /\ UNCHANGED <<server, records, detail, made>>
  BY DEF Send
<1>2. i \in CallIds \ Flying
  <2>1. CallIds \ Flying # {} /\ CallIds \subseteq Nat
    BY <1>1, GroupScreenAssumption DEF Flying
  <2>2. \E j \in CallIds \ Flying : \A k \in CallIds \ Flying : j <= k
    BY <2>1, LeastExists
  <2> QED
    BY <2>2
<1>3. calls[i].phase = "none"
  BY <1>2 DEF Flying
<1>4. /\ DOMAIN next = ControlShape /\ next.status = "pending" /\ next.open = ctl[c].open
      /\ next.typed = ctl[c].typed /\ next.body = body /\ next.gen = gen
      /\ next.streak = Streak(c, body)
  BY DEF ControlShape
<1>5. /\ DOMAIN call = CallShape /\ call.phase = "sent" /\ call.control = c /\ call.body = body
      /\ call.gen = gen /\ call.streak = Streak(c, body) /\ call.answer = "none"
      /\ call.client = "observed" /\ call.floor = server.invite
      /\ c = "rename" => call.tag = detail.read.tag /\ call.shown = detail.read.name
  BY DEF CallShape
<1> HIDE DEF i, next, call
<1>6. /\ calls'[i] = call /\ DOMAIN calls' = CallIds
      /\ \A j \in CallIds \ {i} : calls'[j] = calls[j]
  BY <1>1, <1>2 DEF Shape
<1>7. /\ ctl'[c] = next /\ DOMAIN ctl' = DOMAIN ctl
      /\ \A d \in Controls \ {c} : ctl'[d] = ctl[d]
  BY <1>1 DEF Controls
<1>8. Departs(c, i)
  BY <1>1, <1>3, <1>4, <1>5, <1>6, <1>7 DEF Departs
<1> QED
  BY <1>2, <1>8

\* The number of a body: that of the last one, when it is the same, or the next.
LEMMA AttemptIsStreak ==
    ASSUME FormsInv, NEW c \in Controls \cap Keyed, NEW body, body # "none",
           AttemptGen(c, body) <= MaxAttempts
    PROVE  AttemptGen(c, body) \in 1 .. MaxAttempts /\ Streak(c, body) = AttemptGen(c, body)
<1>1. ctl[c].gen \in 0 .. MaxAttempts /\ ctl[c].streak = ctl[c].gen
      /\ (ctl[c].body # "none" => ctl[c].gen > 0)
  BY DEF FormsInv, KeyedControls
<1>2. MaxAttempts \in Nat
  BY GroupScreenAssumption
<1> QED
  BY <1>1, <1>2 DEF AttemptGen, Streak

\* Whatever is pressed, one request of one control departs.
LEMMA SendingDeparts ==
    ASSUME FormsInv, Sending
    PROVE  \E c \in Controls : \E i \in CallIds : Departs(c, i)
<1>1. Shape /\ KeyedControls
  BY DEF FormsInv
<1>2. MaxAttempts \in Nat
  BY GroupScreenAssumption
<1>3. ASSUME NEW c \in Controls, Mounted(c), ctl[c].status # "pending"
      PROVE  /\ DOMAIN ctl[c] = ControlShape /\ (c = "rename" => detail.read.role # "none")
             /\ LET held == [ctl[c] EXCEPT !.held = TRUE]
                IN held.open = ctl[c].open /\ held.typed = ctl[c].typed /\ DOMAIN held = ControlShape
  BY <1>1, <1>3 DEF Shape, ControlShape, Mounted
<1>4. CASE SubmitRename
  <2>1. /\ "rename" \in Controls /\ Mounted("rename") /\ ctl["rename"].status # "pending"
        /\ ctl["rename"].open
        /\ AttemptGen("rename", ctl["rename"].typed) <= MaxAttempts
        /\ Send("rename", ctl["rename"].typed, AttemptGen("rename", ctl["rename"].typed), ctl["rename"])
    BY <1>4 DEF SubmitRename, Idle, Mounted
  <2>2. ctl["rename"].typed # "none"
    BY <1>1, <2>1 DEF KeyedControls
  <2>3. /\ AttemptGen("rename", ctl["rename"].typed) \in 1 .. MaxAttempts
        /\ Streak("rename", ctl["rename"].typed) = AttemptGen("rename", ctl["rename"].typed)
    BY <2>1, <2>2, AttemptIsStreak DEF Keyed
  <2> QED
    BY <1>1, <1>3, <2>1, <2>2, <2>3, SendDeparts DEF Keyed
<1>5. CASE RetryRename
  <2>1. /\ "rename" \in Controls /\ Mounted("rename") /\ ctl["rename"].status = "notice"
        /\ Send("rename", ctl["rename"].body, ctl["rename"].gen, ctl["rename"])
    BY <1>5 DEF RetryRename, Idle, Mounted
  <2>2. /\ ctl["rename"].body # "none" /\ ctl["rename"].gen \in 1 .. MaxAttempts
        /\ Streak("rename", ctl["rename"].body) = ctl["rename"].gen
    BY <1>1, <1>2, <2>1 DEF KeyedControls, Keyed, Streak
  <2> QED
    BY <1>1, <1>3, <2>1, <2>2, SendDeparts DEF Keyed
<1>6. CASE SubmitCreation
  <2>1. /\ "create" \in Controls /\ Mounted("create") /\ ctl["create"].status # "pending"
        /\ ctl["create"].typed # "none"
        /\ AttemptGen("create", ctl["create"].typed) <= MaxAttempts
        /\ Send("create", ctl["create"].typed, AttemptGen("create", ctl["create"].typed),
                [ctl["create"] EXCEPT !.held = TRUE])
    BY <1>6 DEF SubmitCreation, Idle, Mounted
  <2>2. /\ AttemptGen("create", ctl["create"].typed) \in 1 .. MaxAttempts
        /\ Streak("create", ctl["create"].typed) = AttemptGen("create", ctl["create"].typed)
    BY <2>1, AttemptIsStreak DEF Keyed
  <2> QED
    BY <1>1, <1>3, <2>1, <2>2, SendDeparts DEF Keyed
<1>7. CASE RetryCreation
  <2>1. /\ "create" \in Controls /\ Mounted("create") /\ ctl["create"].status = "notice"
        /\ Send("create", ctl["create"].body, ctl["create"].gen, [ctl["create"] EXCEPT !.held = TRUE])
    BY <1>7 DEF RetryCreation, Mounted
  <2>2. /\ ctl["create"].body # "none" /\ ctl["create"].gen \in 1 .. MaxAttempts
        /\ Streak("create", ctl["create"].body) = ctl["create"].gen
    BY <1>1, <1>2, <2>1 DEF KeyedControls, Keyed, Streak
  <2> QED
    BY <1>1, <1>3, <2>1, <2>2, SendDeparts DEF Keyed
<1>8. CASE PressRotate \/ PressDelete \/ PressLeave \/ PressRemove
  <2>1. PICK c \in {"rotate", "delete", "leave", "remove"} : \E body :
          /\ c \in Controls /\ Mounted(c) /\ ctl[c].status # "pending"
          /\ Send(c, body, 0, ctl[c]) /\ (c = "rotate" => MayRotate)
    BY <1>8 DEF PressRotate, PressDelete, PressLeave, PressRemove, Idle, Mounted
  <2> QED
    BY <1>1, <1>3, <2>1, SendDeparts DEF Keyed
<1>9. CASE StartJoin
  <2>1. /\ "join" \in Controls /\ Mounted("join") /\ ctl["join"].status # "pending"
        /\ Send("join", Links[1], 0, [ctl["join"] EXCEPT !.held = TRUE])
    BY <1>9 DEF StartJoin, Mounted
  <2> QED
    BY <1>1, <1>3, <2>1, SendDeparts DEF Keyed
<1> QED
  BY <1>4, <1>5, <1>6, <1>7, <1>8, <1>9 DEF Sending

-----------------------------------------------------------------------------
(* What the steps that send nothing do to the controls.                    *)

\* The forms keep their bodies and keys, and offer Retry only for a body they sent.
ControlsKept ==
    /\ DOMAIN ctl' = DOMAIN ctl
    /\ \A c \in Controls : DOMAIN ctl'[c] = ControlShape
    /\ \A c \in Controls \cap Keyed :
          /\ ctl'[c].gen = ctl[c].gen /\ ctl'[c].streak = ctl[c].streak
          /\ ctl'[c].body = ctl[c].body
          /\ ctl'[c].status = "notice" => ctl[c].status = "notice" \/ ctl[c].body # "none"
    /\ "rename" \in Controls /\ ctl'["rename"].open => ctl'["rename"].typed # "none"

\* A step that leaves the controls alone keeps what they know.
LEMMA UnchangedControls == ASSUME FormsInv, UNCHANGED ctl PROVE ControlsKept
BY DEF FormsInv, Shape, KeyedControls, ControlsKept

\* One control changes; not the bodies or keys of a form.
LEMMA OneControl ==
    ASSUME FormsInv, NEW c \in Controls, NEW control, ctl' = [ctl EXCEPT ![c] = control],
           DOMAIN control = ControlShape,
           c \in Keyed => /\ control.gen = ctl[c].gen /\ control.streak = ctl[c].streak
                          /\ control.body = ctl[c].body
                          /\ control.status = "notice" => ctl[c].status = "notice" \/ ctl[c].body # "none",
           c = "rename" /\ control.open => control.typed # "none"
    PROVE  ControlsKept
<1>1. /\ DOMAIN ctl' = DOMAIN ctl /\ ctl'[c] = control
      /\ \A d \in Controls \ {c} : ctl'[d] = ctl[d]
  BY DEF Controls
<1> QED
  BY <1>1 DEF FormsInv, Shape, KeyedControls, ControlsKept

\* Typing, opening and closing panels keep what the controls know of their bodies.
LEMMA QuietControls == ASSUME FormsInv, Quiet PROVE ControlsKept
<1>1. /\ \A c \in Controls : DOMAIN ctl[c] = ControlShape
      /\ \A c \in Controls \cap Keyed : ctl[c].status = "notice" => ctl[c].body # "none"
      /\ "rename" \in Controls /\ ctl["rename"].open => ctl["rename"].typed # "none"
  BY DEF FormsInv, Shape, KeyedControls
<1>2. CASE OpenRename
  <2>1. /\ "rename" \in Controls /\ detail.read.role = "owner"
        /\ ctl' = [ctl EXCEPT !["rename"] = [ctl["rename"] EXCEPT !.open = TRUE, !.typed = detail.read.name,
                                                                  !.status = "idle"]]
    BY <1>2 DEF OpenRename, Idle, Mounted, Only
  <2>2. detail.read.name # "none"
    BY <2>1 DEF FormsInv, NameInv
  <2> QED
    BY <1>1, <2>1, <2>2, OneControl DEF ControlShape
<1>3. CASE CloseRename
  <2>1. /\ "rename" \in Controls
        /\ ctl' = [ctl EXCEPT !["rename"] = [ctl["rename"] EXCEPT !.open = FALSE, !.typed = "none",
                                                                  !.status = "idle"]]
    BY <1>3 DEF CloseRename, Idle, Mounted, Only
  <2> QED
    BY <1>1, <2>1, OneControl DEF ControlShape
<1>4. CASE RetryJoin
  <2>1. /\ "join" \in Controls
        /\ ctl' = [ctl EXCEPT !["join"] = [ctl["join"] EXCEPT !.status = "idle", !.held = FALSE]]
    BY <1>4 DEF RetryJoin, Mounted, Only
  <2> QED
    BY <1>1, <2>1, OneControl DEF ControlShape, Keyed
<1>5. ASSUME NEW n \in Names, TypeName(n) PROVE ControlsKept
  <2>1. /\ "rename" \in Controls /\ n # "none"
        /\ ctl' = [ctl EXCEPT !["rename"] = [ctl["rename"] EXCEPT !.typed = n]]
    BY <1>5, GroupScreenAssumption DEF TypeName, Mounted, Only
  <2> QED
    BY <1>1, <2>1, OneControl DEF ControlShape
<1>6. ASSUME NEW n \in Names, EditCreation(n) PROVE ControlsKept
  <2>1. /\ "create" \in Controls
        /\ ctl' = [ctl EXCEPT !["create"] = [ctl["create"] EXCEPT !.typed = n, !.status = "idle"]]
    BY <1>6 DEF EditCreation, Mounted, Only
  <2> QED
    BY <1>1, <2>1, OneControl DEF ControlShape
<1>7. ASSUME NEW c \in Controls, OpenPanel(c) PROVE ControlsKept
  <2>1. /\ c \in {"rotate", "delete", "leave", "remove"}
        /\ ctl' = [ctl EXCEPT ![c] = [ctl[c] EXCEPT !.open = TRUE, !.status = "idle",
                                         !.typed = IF c = "delete" THEN detail.read.name ELSE "none"]]
    BY <1>7 DEF OpenPanel, Only
  <2> QED
    BY <1>1, <2>1, OneControl DEF ControlShape, Keyed
<1>8. ASSUME NEW c \in Controls, CancelPanel(c) PROVE ControlsKept
  <2>1. /\ c \in {"rotate", "delete", "leave", "remove"}
        /\ ctl' = [ctl EXCEPT ![c] = [NewControl EXCEPT !.refreshing = ctl[c].refreshing]]
    BY <1>8 DEF CancelPanel, Only
  <2> QED
    BY <1>1, <2>1, OneControl DEF ControlShape, Keyed, NewControl
<1>9. ASSUME NEW c \in Controls, PressRefresh(c) PROVE ControlsKept
  <2>1. ctl' = [ctl EXCEPT ![c] = [ctl[c] EXCEPT !.refreshing = TRUE]]
    BY <1>9 DEF PressRefresh, Only
  <2> QED
    BY <1>1, <2>1, OneControl DEF ControlShape
<1> QED
  BY <1>2, <1>3, <1>4, <1>5, <1>6, <1>7, <1>8, <1>9 DEF Quiet

\* A refusal resets no form.
LEMMA EndingControls ==
    ASSUME FormsInv, NEW i \in CallIds, GiveUp(i) \/ Refused(i) \/ Accepted(i) \/ Settled(i) \/ Vanish(i)
    PROVE  ControlsKept
<1>1. Shape /\ KeyedControls /\ KeyedCalls
  BY DEF FormsInv
<1>2. CASE Accepted(i) \/ Vanish(i)
  BY <1>2, UnchangedControls DEF Accepted, Vanish
<1> DEFINE c == calls[i].control
<1>3. CASE GiveUp(i) \/ Refused(i) \/ Settled(i)
  <2>1. i \in Flying /\ c \in Controls
    BY <1>1, <1>3 DEF GiveUp, Refused, Settled, Flying, KeyedCalls
  <2>2. /\ DOMAIN ctl[c] = ControlShape
        /\ c \in Keyed => ctl[c].body # "none" /\ calls[i].answer # "already-member"
        /\ c = "rename" /\ ctl[c].open => ctl[c].typed # "none"
    BY <1>1, <2>1 DEF Shape, KeyedControls, KeyedCalls
  <2>3. CASE calls[i].client # "observed"
    BY <1>3, <2>3, UnchangedControls DEF GiveUp, Refused, Settled, Ended
  <2>4. ASSUME NEW status, calls[i].client = "observed", ctl' = Ended(i, Failed(ctl[c], c, status))
        PROVE  ControlsKept
    <3>1. ctl' = [ctl EXCEPT ![c] = Failed(ctl[c], c, status)]
      BY <2>4 DEF Ended
    <3>2. /\ DOMAIN Failed(ctl[c], c, status) = ControlShape
          /\ Failed(ctl[c], c, status).gen = ctl[c].gen
          /\ Failed(ctl[c], c, status).streak = ctl[c].streak
          /\ Failed(ctl[c], c, status).body = ctl[c].body
          /\ Failed(ctl[c], c, status).open = ctl[c].open
          /\ Failed(ctl[c], c, status).typed = ctl[c].typed
      BY <2>2 DEF Failed, ControlShape
    <3> QED
      BY <2>1, <2>2, <3>1, <3>2, OneControl
  <2>5. CASE GiveUp(i) /\ calls[i].client = "observed"
    BY <2>4, <2>5 DEF GiveUp, Observer
  <2>6. CASE Refused(i) /\ calls[i].client = "observed"
    <3>1. CASE Outcome(calls[i]) # "gone"
      BY <2>4, <2>6, <3>1 DEF Refused, Observer
    <3>2. CASE Outcome(calls[i]) = "gone"
      <4>1. c \notin Keyed
        BY <2>2, <3>2 DEF Outcome, Keyed
      <4>2. ctl' = [ctl EXCEPT ![c] = [NewControl EXCEPT !.held = ctl[c].held]]
        BY <2>6, <3>2 DEF Refused, Ended, Observer
      <4> QED
        BY <2>1, <4>1, <4>2, OneControl DEF NewControl, ControlShape, Keyed
    <3> QED
      BY <3>1, <3>2
  <2>7. CASE Settled(i) /\ calls[i].client = "observed"
    <3>1. PICK shown, held :
            ctl' = [ctl EXCEPT ![c] = [ctl[c] EXCEPT !.status = "idle", !.open = FALSE,
                                                     !.link = shown, !.held = held]]
      BY <2>7 DEF Settled, Ended, Observer
    <3> QED
      BY <2>1, <2>2, <3>1, OneControl DEF ControlShape
  <2> QED
    BY <1>3, <2>3, <2>5, <2>6, <2>7
<1> QED
  BY <1>2, <1>3

\* So does a read, whatever controls it unmounts.
LEMMA ReadControls ==
    ASSUME FormsInv, NEW result, ReadDetail(result) \/ ReadRoster(result)
    PROVE  ControlsKept
<1>1. CASE ReadRoster(result)
  BY <1>1, UnchangedControls DEF ReadRoster
<1>2. CASE ReadDetail(result)
  <2>1. ctl' = Refreshed
    BY <1>2 DEF ReadDetail
  <2> QED
    BY <2>1 DEF Refreshed, FormsInv, Shape, KeyedControls, ControlsKept, ControlShape, Controls
<1> QED
  BY <1>1, <1>2

-----------------------------------------------------------------------------
(* The forms and the names they replace.                                   *)

LEMMA FormsInit == Init => FormsInv
<1> SUFFICES ASSUME Init PROVE FormsInv
  OBVIOUS
<1>1. PICK page \in Pages :
        /\ server = [alive |-> TRUE, version |-> 1, name |-> FirstName, invite |-> 1,
                     role |-> page.role, other |-> TRUE]
        /\ ctl = [c \in page.works |-> NewControl]
  BY DEF Init
<1>2. /\ records = {} /\ detail = [read |-> NoGroup, error |-> "none"]
      /\ calls = [i \in CallIds |-> NoCall]
      /\ made = [once |-> {}, raced |-> {}, twice |-> {}, blind |-> {}, stale |-> {}]
  BY DEF Init
<1>3. MaxAttempts \in Nat /\ FirstName # "none"
  BY GroupScreenAssumption
<1>4. Controls = page.works
  BY <1>1 DEF Controls
<1>5. Shape
  BY <1>1, <1>2, <1>4, NoCallIsNone DEF Shape, NoCallFields, NoGroup, NewControl, ControlShape
<1>6. KeyedControls
  BY <1>1, <1>3, <1>4 DEF KeyedControls, NewControl
<1>7. KeyedCalls
  BY <1>2, <1>3, NoCallIsNone DEF KeyedCalls, NoCallFields, Flying, Phases
<1>8. NameInv
  BY <1>1, <1>2, <1>3, NoCallIsNone DEF NameInv, NoCallFields, NoGroup
<1> QED
  BY <1>5, <1>6, <1>7, <1>8 DEF FormsInv

\* Nothing is sent, served or stored.
LEMMA FormsKept ==
    ASSUME FormsInv, CallsGoOn, ControlsKept, UNCHANGED <<server, records>>,
           DOMAIN detail' = {"read", "error"}, DOMAIN made' = DOMAIN made,
           detail'.read = detail.read \/ detail'.read = Current
    PROVE  FormsInv'
<1>1. NoCallFields /\ Shape /\ KeyedControls /\ KeyedCalls /\ NameInv
  BY NoCallIsNone DEF FormsInv
<1>2. MaxAttempts \in Nat
  BY GroupScreenAssumption
<1>3. Controls' = Controls
  BY DEF ControlsKept, Controls
<1>4. DOMAIN Current = {"tag", "name", "role"}
  BY DEF Current
<1>5. Shape'
  BY <1>1, <1>3, <1>4 DEF Shape, CallsGoOn, Onward, Kept, ControlsKept, NoCallFields
<1>6. KeyedControls'
  BY <1>1, <1>3 DEF KeyedControls, ControlsKept
<1>7. KeyedCalls'
  <2>1. \A i \in CallIds : calls'[i].phase # "none" =>
          Kept(i) /\ calls'[i].answer = calls[i].answer /\ calls[i].phase # "none"
    BY <1>1 DEF CallsGoOn, Onward, NoCallFields
  <2>2. \A i \in CallIds : calls'[i].gen \in 0 .. MaxAttempts /\ calls'[i].phase \in Phases
    BY <1>1, <1>2 DEF KeyedCalls, CallsGoOn, Onward, Kept, NoCallFields, Phases
  <2>3. \A i \in CallIds : calls'[i].phase \in {"admitted", "ran"} => calls[i].phase = calls'[i].phase
    BY <1>1 DEF CallsGoOn, Onward, NoCallFields
  <2>4. ASSUME NEW i \in Flying'
        PROVE  /\ calls'[i].control \in Controls
               /\ IF calls'[i].control \in Keyed
                  THEN /\ calls'[i].gen > 0 /\ calls'[i].streak = calls'[i].gen
                       /\ calls'[i].body # "none" /\ ctl'[calls'[i].control].body # "none"
                       /\ calls'[i].answer # "already-member"
                  ELSE calls'[i].gen = 0 /\ ~ (calls'[i].phase \in {"admitted", "ran"})
    <3>1. i \in CallIds /\ i \in Flying /\ Kept(i) /\ calls'[i].answer = calls[i].answer
      BY <2>1, <2>4 DEF Flying
    <3>2. calls[i].control \in Controls \cap Keyed => ctl'[calls[i].control].body = ctl[calls[i].control].body
      BY DEF ControlsKept
    <3> QED
      BY <1>1, <2>3, <3>1, <3>2 DEF KeyedCalls, Kept, Past
  <2>5. \A i \in CallIds : calls'[i].phase = "ran" => calls'[i].answer \in RouteAnswers
    BY <1>1, <2>1, <2>3 DEF KeyedCalls
  <2> QED
    BY <1>1, <1>3, <2>2, <2>4, <2>5 DEF KeyedCalls, Past
<1>8. NameInv'
  <2>1. /\ server'.version = server.version /\ server'.name = server.name
        /\ detail'.read.tag \in 0 .. server.version
        /\ detail'.read.tag = server.version => detail'.read.name = server.name
        /\ detail'.read.role # "none" => detail'.read.tag > 0 /\ detail'.read.name # "none"
    BY <1>1 DEF NameInv, Current
  <2>2. \A i \in CallIds : calls'[i].phase \in {"sent", "admitted"} =>
          calls'[i].phase = calls[i].phase /\ Kept(i)
    BY <1>1 DEF CallsGoOn, Onward, NoCallFields
  <2> QED
    BY <1>1, <2>1, <2>2 DEF NameInv, Kept
<1> QED
  BY <1>5, <1>6, <1>7, <1>8 DEF FormsInv

\* A form numbers the body it sends, and one that it has sent keeps its number.
LEMMA FormsDepart ==
    ASSUME FormsInv, NEW c \in Controls, NEW i \in CallIds, Departs(c, i)
    PROVE  FormsInv'
<1>1. Shape /\ KeyedControls /\ KeyedCalls /\ NameInv
  BY DEF FormsInv
<1>2. MaxAttempts \in Nat
  BY GroupScreenAssumption
<1>3. Controls' = Controls /\ UNCHANGED <<server, records, detail, made>>
  BY DEF Departs, Controls
<1>4. Shape'
  BY <1>1, <1>3 DEF Shape, Departs
<1>5. KeyedControls'
  BY <1>1, <1>2, <1>3 DEF KeyedControls, Departs
<1>6. KeyedCalls'
  <2>1. /\ calls'[i].gen \in 0 .. MaxAttempts /\ calls'[i].phase = "sent" /\ calls'[i].control = c
        /\ calls'[i].answer = "none" /\ \A j \in CallIds \ {i} : calls'[j] = calls[j]
        /\ IF c \in Keyed THEN calls'[i].gen > 0 /\ calls'[i].streak = calls'[i].gen
                               /\ calls'[i].body # "none"
           ELSE calls'[i].gen = 0
    BY <1>2 DEF Departs
  <2>2. \A d \in Controls \cap Keyed :
           ctl[d].body # "none" \/ d = c => ctl'[d].body # "none"
    BY DEF Departs
  <2>3. Flying' = Flying \cup {i}
    BY <2>1 DEF Flying
  <2>4. ASSUME NEW j \in Flying'
        PROVE  /\ calls'[j].control \in Controls
               /\ IF calls'[j].control \in Keyed
                  THEN /\ calls'[j].gen > 0 /\ calls'[j].streak = calls'[j].gen
                       /\ calls'[j].body # "none" /\ ctl'[calls'[j].control].body # "none"
                       /\ calls'[j].answer # "already-member"
                  ELSE calls'[j].gen = 0 /\ ~Past(j)'
    <3>1. CASE j = i
      BY <2>1, <2>2, <3>1 DEF Past
    <3>2. CASE j # i
      <4>1. j \in Flying /\ calls'[j] = calls[j]
        BY <2>1, <2>3, <3>2 DEF Flying
      <4> QED
        BY <1>1, <2>2, <4>1 DEF KeyedCalls, Past
    <3> QED
      BY <3>1, <3>2
  <2>5. /\ \A j \in CallIds : calls'[j].gen \in 0 .. MaxAttempts /\ calls'[j].phase \in Phases
        /\ \A j \in CallIds : calls'[j].phase = "ran" => calls'[j].answer \in RouteAnswers
    BY <1>1, <2>1 DEF KeyedCalls, Phases
  <2> QED
    BY <1>1, <1>3, <2>4, <2>5 DEF KeyedCalls
<1>7. NameInv'
  BY <1>1, <1>3 DEF NameInv, Departs
<1> QED
  BY <1>4, <1>5, <1>6, <1>7 DEF FormsInv

\* What a request may do to the group, or the others may: any change but one that only
\* deletes it makes the next version.
ServerMoves ==
    /\ DOMAIN server' = DOMAIN server /\ server'.name # "none"
    /\ \/ server'.version = server.version /\ server'.name = server.name
       \/ server'.version = server.version + 1

\* One request is served: what it was sent with is kept.
LEMMA FormsServed ==
    ASSUME FormsInv, NEW i \in CallIds, ServerMoves, UNCHANGED <<ctl, detail>>,
           DOMAIN made' = DOMAIN made, DOMAIN calls' = CallIds,
           \A j \in CallIds \ {i} : calls'[j] = calls[j],
           Kept(i), calls[i].phase \in {"sent", "admitted", "ran"},
           calls'[i].phase \in {"admitted", "ran", "answered"},
           calls'[i].phase = "admitted" => calls[i].phase = "sent",
           calls[i].control \in Keyed => calls'[i].answer # "already-member",
           calls'[i].phase # "answered" => HasKey(calls[i]),
           calls'[i].phase = "ran" => calls'[i].answer \in RouteAnswers,
           \A r \in records' : r.answer \in RouteAnswers
    PROVE  FormsInv'
<1>1. Shape /\ KeyedControls /\ KeyedCalls /\ NameInv
  BY DEF FormsInv
<1>2. Controls' = Controls
  BY DEF Controls
<1>3. Shape' /\ KeyedControls'
  BY <1>1, <1>2 DEF Shape, KeyedControls, ServerMoves, Kept
<1>4. KeyedCalls'
  <2>1. Flying' = Flying /\ i \in Flying
    BY DEF Flying
  <2>2. /\ calls'[i].gen \in 0 .. MaxAttempts /\ calls'[i].phase \in Phases
        /\ calls'[i].control \in Controls
        /\ IF calls'[i].control \in Keyed
           THEN /\ calls'[i].gen > 0 /\ calls'[i].streak = calls'[i].gen
                /\ calls'[i].body # "none" /\ ctl'[calls'[i].control].body # "none"
                /\ calls'[i].answer # "already-member"
           ELSE calls'[i].gen = 0 /\ ~Past(i)'
    BY <1>1, <2>1 DEF KeyedCalls, Kept, HasKey, Phases, Past
  <2>3. ASSUME NEW j \in Flying'
        PROVE  /\ calls'[j].control \in Controls
               /\ IF calls'[j].control \in Keyed
                  THEN /\ calls'[j].gen > 0 /\ calls'[j].streak = calls'[j].gen
                       /\ calls'[j].body # "none" /\ ctl'[calls'[j].control].body # "none"
                       /\ calls'[j].answer # "already-member"
                  ELSE calls'[j].gen = 0 /\ ~Past(j)'
    <3>1. CASE j = i
      BY <2>2, <3>1
    <3>2. CASE j # i
      <4>1. j \in Flying /\ calls'[j] = calls[j]
        BY <2>1, <3>2 DEF Flying
      <4> QED
        BY <1>1, <4>1 DEF KeyedCalls, Past
    <3> QED
      BY <3>1, <3>2
  <2>4. /\ \A j \in CallIds : calls'[j].gen \in 0 .. MaxAttempts /\ calls'[j].phase \in Phases
        /\ \A j \in CallIds : calls'[j].phase = "ran" => calls'[j].answer \in RouteAnswers
    BY <1>1, <2>2 DEF KeyedCalls
  <2> QED
    BY <1>2, <2>3, <2>4 DEF KeyedCalls
<1>5. NameInv'
  BY <1>1 DEF NameInv, ServerMoves, Kept
<1> QED
  BY <1>3, <1>4, <1>5 DEF FormsInv

\* A step that leaves the group alone leaves its name and version.
LEMMA SameServerMoves == ASSUME FormsInv, UNCHANGED server PROVE ServerMoves
BY DEF FormsInv, NameInv, ServerMoves

\* A request that runs gives the group a new name under a new version only.
LEMMA RequestMoves ==
    ASSUME FormsInv, NEW i \in Flying, server' = Changed(calls[i])
    PROVE  ServerMoves
<1>1. calls[i].control = "rename" => calls[i].body # "none"
  BY DEF FormsInv, KeyedCalls, Keyed
<1>2. /\ DOMAIN server = {"alive", "version", "name", "invite", "role", "other"}
      /\ server.name # "none" /\ calls[i].control \in Controls
      /\ \E page \in Pages : Controls = page.works
  BY DEF FormsInv, Shape, NameInv, KeyedCalls
<1>3. calls[i].control \in AllControls
  BY <1>2, GroupScreenAssumption DEF AllControls
<1>4. server' = CASE calls[i].control = "rename" -> [server EXCEPT !.name = calls[i].body, !.version = @ + 1]
      [] calls[i].control = "rotate" -> [server EXCEPT !.invite = @ + 1, !.version = @ + 1]
      [] calls[i].control = "delete" -> [server EXCEPT !.alive = FALSE]
      [] calls[i].control = "leave" -> [server EXCEPT !.role = "none", !.version = @ + 1]
      [] calls[i].control = "remove" -> [server EXCEPT !.other = FALSE, !.version = @ + 1]
      [] calls[i].control = "join" -> [server EXCEPT !.role = "member", !.version = @ + 1]
      [] calls[i].control = "create" -> server
  BY DEF Changed
<1>5. \/ server' = [server EXCEPT !.name = calls[i].body, !.version = @ + 1] /\ calls[i].control = "rename"
      \/ server' = [server EXCEPT !.invite = @ + 1, !.version = @ + 1]
      \/ server' = [server EXCEPT !.alive = FALSE]
      \/ server' = [server EXCEPT !.role = "none", !.version = @ + 1]
      \/ server' = [server EXCEPT !.other = FALSE, !.version = @ + 1]
      \/ server' = [server EXCEPT !.role = "member", !.version = @ + 1]
      \/ server' = server
  BY <1>3, <1>4 DEF AllControls
<1> QED
  BY <1>1, <1>2, <1>5 DEF ServerMoves

\* The routes behind a key have their own refusals.
LEMMA RefusalAnswers ==
    ASSUME FormsInv, NEW i \in Flying
    PROVE  /\ calls[i].control \in Keyed => Refusal(calls[i]) \in RouteAnswers
           /\ calls[i].control = "rotate" => Refusal(calls[i]) \in RouteAnswers \ {"invalid"}
<1>1. calls[i].control \in Keyed \/ calls[i].control = "rotate" =>
        \/ calls[i].control \in {"rename", "rotate"} /\ Refusal(calls[i]) = PatchRefusal(calls[i])
        \/ calls[i].control = "create" /\ Refusal(calls[i]) \in {"invalid", "ok"}
  BY DEF Refusal, Keyed
<1> QED
  BY <1>1 DEF PatchRefusal, RouteAnswers

\* One step of the server on a request.
OneServed(i) ==
    /\ DOMAIN calls' = CallIds /\ \A j \in CallIds \ {i} : calls'[j] = calls[j]
    /\ Kept(i) /\ calls'[i].client = calls[i].client
    /\ UNCHANGED <<ctl, detail>> /\ DOMAIN made' = DOMAIN made

\* What the lookup does: it admits the request, or replays or refuses.
LEMMA LookUpServes ==
    ASSUME FormsInv, NEW i \in CallIds, LookUp(i)
    PROVE  /\ OneServed(i) /\ calls[i].phase = "sent" /\ HasKey(calls[i])
           /\ calls[i].control \in Keyed /\ UNCHANGED <<server, records>>
           /\ \/ /\ LookedUp(records, Key(calls[i]), calls[i].body) = "run"
                 /\ RecordsOf(records, Key(calls[i])) = {}
                 /\ calls'[i].phase = "admitted" /\ calls'[i].answer = calls[i].answer
              \/ /\ LookedUp(records, Key(calls[i]), calls[i].body) # "run"
                 /\ calls'[i].phase = "answered" /\ calls'[i].answer \in RouteAnswers \cup {"reuse"}
<1> DEFINE found == LookedUp(records, Key(calls[i]), calls[i].body)
<1>1. /\ Shape /\ \A r \in records : r.answer \in RouteAnswers
      /\ i \in Flying => (calls[i].control \notin Keyed => calls[i].gen = 0)
  BY DEF FormsInv, KeyedCalls
<1>2. /\ calls[i].phase = "sent" /\ HasKey(calls[i]) /\ UNCHANGED <<server, records, ctl, detail>>
      /\ calls' = [calls EXCEPT ![i] =
           IF found = "run" THEN [calls[i] EXCEPT !.phase = "admitted"]
           ELSE [calls[i] EXCEPT !.phase = "answered", !.answer = found]]
      /\ DOMAIN made' = DOMAIN made
  BY DEF LookUp, Move
<1>3. calls[i].control \in Keyed
  BY <1>1, <1>2 DEF Flying, HasKey
<1>4. CASE found = "run"
  <2>1. RecordsOf(records, Key(calls[i])) = {}
    BY <1>1, <1>4, RunsWithoutRecord DEF RouteAnswers
  <2>2. calls'[i] = [calls[i] EXCEPT !.phase = "admitted"]
    BY <1>1, <1>2, <1>4 DEF Shape
  <2>3. Kept(i) /\ calls'[i].client = calls[i].client /\ calls'[i].phase = "admitted"
        /\ calls'[i].answer = calls[i].answer
    BY <1>1, <2>2 DEF Kept, Shape, CallShape
  <2>4. DOMAIN calls' = CallIds /\ \A j \in CallIds \ {i} : calls'[j] = calls[j]
    BY <1>1, <1>2 DEF Shape
  <2> QED
    BY <1>2, <1>3, <1>4, <2>1, <2>3, <2>4 DEF OneServed
<1>5. CASE found # "run"
  <2>1. found \in RouteAnswers \cup {"reuse"}
    BY <1>1, <1>5, LookUpReplays
  <2>2. calls'[i] = [calls[i] EXCEPT !.phase = "answered", !.answer = found]
    BY <1>1, <1>2, <1>5 DEF Shape
  <2> HIDE DEF found
  <2>3. Kept(i) /\ calls'[i].client = calls[i].client /\ calls'[i].phase = "answered"
        /\ calls'[i].answer = found
    BY <1>1, <2>2 DEF Kept, Shape, CallShape
  <2>4. DOMAIN calls' = CallIds /\ \A j \in CallIds \ {i} : calls'[j] = calls[j]
    BY <1>1, <1>2 DEF Shape
  <2> QED
    BY <1>2, <1>3, <1>5, <2>1, <2>3, <2>4 DEF OneServed, found
<1> QED
  BY <1>4, <1>5

\* What the route does: it changes the group, or refuses.
LEMMA RunServes ==
    ASSUME FormsInv, NEW i \in CallIds, Run(i)
    PROVE  /\ OneServed(i) /\ UNCHANGED records
           /\ calls[i].phase = IF HasKey(calls[i]) THEN "admitted" ELSE "sent"
           /\ calls'[i].phase = IF HasKey(calls[i]) THEN "ran" ELSE "answered"
           /\ calls'[i].answer = Answer(calls[i])
           /\ server' = IF Refusal(calls[i]) = "ok" THEN Changed(calls[i]) ELSE server
           /\ HasKey(calls[i]) => calls[i].control \in Keyed
           /\ i \in Flying /\ ServerMoves
<1>1. /\ Shape
      /\ i \in Flying => (calls[i].control \notin Keyed => calls[i].gen = 0)
  BY DEF FormsInv, KeyedCalls
<1>2. /\ calls[i].phase = IF HasKey(calls[i]) THEN "admitted" ELSE "sent"
      /\ server' = IF Refusal(calls[i]) = "ok" THEN Changed(calls[i]) ELSE server
      /\ calls' = [calls EXCEPT ![i] =
           [calls[i] EXCEPT !.phase = IF HasKey(calls[i]) THEN "ran" ELSE "answered",
                            !.answer = Answer(calls[i])]]
      /\ UNCHANGED <<records, ctl, detail>> /\ DOMAIN made' = DOMAIN made
  BY DEF Run, Move
<1>3. i \in Flying
  BY <1>2 DEF Flying
<1>4. ServerMoves
  BY <1>2, <1>3, RequestMoves, SameServerMoves
<1>5. calls'[i] = [calls[i] EXCEPT !.phase = IF HasKey(calls[i]) THEN "ran" ELSE "answered",
                                   !.answer = Answer(calls[i])]
  BY <1>1, <1>2 DEF Shape
<1>6. Kept(i) /\ calls'[i].client = calls[i].client /\ calls'[i].answer = Answer(calls[i])
      /\ calls'[i].phase = IF HasKey(calls[i]) THEN "ran" ELSE "answered"
  BY <1>1, <1>5 DEF Kept, Shape, CallShape
<1>7. DOMAIN calls' = CallIds /\ \A j \in CallIds \ {i} : calls'[j] = calls[j]
  BY <1>1, <1>2 DEF Shape
<1> QED
  BY <1>1, <1>2, <1>3, <1>4, <1>6, <1>7 DEF OneServed, HasKey

\* What the record does: it stores the answer of the request that ran.
LEMMA RecordServes ==
    ASSUME FormsInv, NEW i \in CallIds, Record(i)
    PROVE  /\ OneServed(i) /\ UNCHANGED <<server, made>> /\ calls[i].phase = "ran"
           /\ calls[i].control \in Keyed
           /\ calls'[i].phase = "answered" /\ calls'[i].answer \in RouteAnswers \cup {"server-error"}
           /\ calls[i].answer \in RouteAnswers
           /\ records' = Stored(records, Key(calls[i]), calls[i].body, calls[i].answer)
<1> DEFINE answer == StoredAnswer(records, Key(calls[i]), calls[i].answer)
<1>1. /\ Shape /\ calls[i].phase = "ran"
      /\ calls' = [calls EXCEPT ![i] = [calls[i] EXCEPT !.phase = "answered", !.answer = answer]]
      /\ records' = Stored(records, Key(calls[i]), calls[i].body, calls[i].answer)
      /\ UNCHANGED <<server, made, ctl, detail>>
  BY DEF FormsInv, Record, Move
<1>2. calls[i].answer \in RouteAnswers /\ calls[i].control \in Keyed
  BY <1>1 DEF FormsInv, KeyedCalls, Flying, Past
<1>3. answer \in RouteAnswers \cup {"server-error"}
  BY <1>2 DEF StoredAnswer
<1> HIDE DEF answer
<1>4. calls'[i] = [calls[i] EXCEPT !.phase = "answered", !.answer = answer]
  BY <1>1 DEF Shape
<1>5. Kept(i) /\ calls'[i].client = calls[i].client /\ calls'[i].phase = "answered"
      /\ calls'[i].answer = answer
  BY <1>1, <1>4 DEF Kept, Shape, CallShape
<1>6. DOMAIN calls' = CallIds /\ \A j \in CallIds \ {i} : calls'[j] = calls[j]
  BY <1>1 DEF Shape
<1> QED
  BY <1>1, <1>2, <1>3, <1>5, <1>6 DEF OneServed

\* Serving a request keeps what the forms and their requests know.
LEMMA FormsRequest ==
    ASSUME FormsInv, NEW i \in CallIds, LookUp(i) \/ Run(i) \/ Record(i)
    PROVE  FormsInv'
<1>1. \A r \in records : r.answer \in RouteAnswers
  BY DEF FormsInv, KeyedCalls
<1>2. CASE LookUp(i)
  <2>1. calls'[i].answer # "already-member"
    BY <1>2, LookUpServes DEF FormsInv, KeyedCalls, Flying, RouteAnswers
  <2>2. /\ \A j \in CallIds \ {i} : calls'[j] = calls[j]
        /\ DOMAIN calls' = CallIds /\ DOMAIN made' = DOMAIN made
        /\ Kept(i) /\ UNCHANGED <<server, records, ctl, detail>> /\ HasKey(calls[i])
        /\ calls[i].phase = "sent" /\ calls'[i].phase \in {"admitted", "answered"}
    BY <1>2, LookUpServes DEF OneServed
  <2> QED
    BY <1>1, <2>1, <2>2, SameServerMoves, FormsServed
<1>3. CASE Run(i)
  BY <1>1, <1>3, RunServes, RefusalAnswers, FormsServed DEF OneServed, RouteAnswers, Answer, Keyed
<1>4. CASE Record(i)
  <2>1. \A r \in records' : r.answer \in RouteAnswers
    BY <1>1, <1>4, RecordServes, StoredRecords
  <2> QED
    BY <1>4, <2>1, RecordServes, SameServerMoves, FormsServed DEF OneServed, RouteAnswers
<1> QED
  BY <1>2, <1>3, <1>4

\* The others: a change with the next version, or the deletion of the group.
LEMMA ElsewhereMoves ==
    ASSUME FormsInv, Elsewhere
    PROVE  ServerMoves /\ UNCHANGED <<records, detail, ctl, calls, made>>
<1>1. /\ DOMAIN server = {"alive", "version", "name", "invite", "role", "other"}
      /\ server.name # "none"
  BY DEF FormsInv, Shape, NameInv
<1>2. \A n \in Names \cup {FirstName} : n # "none"
  BY GroupScreenAssumption
<1>3. /\ UNCHANGED <<records, detail, ctl, calls, made>>
      /\ \/ \E n \in Names \cup {FirstName} : server' = [server EXCEPT !.name = n, !.version = @ + 1]
         \/ server' = [server EXCEPT !.invite = @ + 1, !.version = @ + 1]
         \/ server' = [server EXCEPT !.other = FALSE, !.version = @ + 1]
         \/ server' = [server EXCEPT !.role = "none", !.version = @ + 1]
         \/ server' = [server EXCEPT !.alive = FALSE]
  BY DEF Elsewhere
<1> QED
  BY <1>1, <1>2, <1>3 DEF ServerMoves

\* Every step sends a request, serves one, or leaves them on their way.
LEMMA StepKinds ==
    ASSUME [Next]_vars
    PROVE  \/ Sending \/ Quiet \/ Elsewhere \/ UNCHANGED vars
           \/ \E i \in CallIds : LookUp(i) \/ Run(i) \/ Record(i)
           \/ \E i \in CallIds : GiveUp(i) \/ Refused(i) \/ Accepted(i) \/ Settled(i) \/ Vanish(i)
           \/ \E result \in {"answer", "network"} : ReadDetail(result) \/ ReadRoster(result)
BY DEF Next, RenameForm, GroupActions, CreationForm, Requests, Endings, Reads, Sending, Quiet

\* Every step keeps what the forms and their requests know.
LEMMA FormsStep == ASSUME FormsInv, [Next]_vars PROVE FormsInv'
<1>1. Shape
  BY DEF FormsInv
<1>2. CASE Sending
  BY <1>2, SendingDeparts, FormsDepart
<1>3. CASE Quiet
  BY <1>1, <1>3, QuietGoesOn, QuietControls, FormsKept DEF Shape
<1>4. CASE Elsewhere
  <2>1. ServerMoves /\ UNCHANGED <<records, detail, ctl, calls, made>>
    BY <1>4, ElsewhereMoves
  <2>2. Shape'
    BY <1>1, <2>1 DEF Shape, ServerMoves, Controls
  <2>3. KeyedControls' /\ KeyedCalls'
    BY <2>1 DEF FormsInv, KeyedControls, KeyedCalls, Controls, Flying, Past
  <2>4. NameInv'
    BY <2>1 DEF FormsInv, NameInv, ServerMoves
  <2> QED
    BY <2>2, <2>3, <2>4 DEF FormsInv
<1>5. CASE UNCHANGED vars
  BY <1>1, <1>5, UnchangedGoOn, UnchangedControls, FormsKept DEF vars, Shape
<1>6. ASSUME NEW i \in CallIds, GiveUp(i) \/ Refused(i) \/ Accepted(i) \/ Settled(i) \/ Vanish(i)
      PROVE  FormsInv'
  <2>1. DOMAIN made' = DOMAIN made
    BY <1>6 DEF GiveUp, Refused, Accepted, Settled, Vanish
  <2> QED
    BY <1>1, <1>6, <2>1, EndingGoesOn, EndingControls, FormsKept DEF Shape
<1>7. ASSUME NEW result, ReadDetail(result) \/ ReadRoster(result) PROVE FormsInv'
  <2>1. DOMAIN detail' = {"read", "error"} /\ (detail'.read = detail.read \/ detail'.read = Current)
    <3>1. CASE ReadRoster(result)
      BY <1>1, <3>1 DEF ReadRoster, Shape
    <3>2. CASE ReadDetail(result)
      BY <1>1, <3>2 DEF ReadDetail, Shape
    <3> QED
      BY <1>7, <3>1, <3>2
  <2> QED
    BY <1>1, <1>7, <2>1, ReadsGoOn, ReadControls, FormsKept
<1> QED
  BY <1>2, <1>3, <1>4, <1>5, <1>6, <1>7, FormsRequest, StepKinds

-----------------------------------------------------------------------------

\* A request that renames found the version it was sent with, and so the name.
LEMMA NotBlind ==
    ASSUME FormsInv, RenamesTheNameShown, [Next]_vars
    PROVE  RenamesTheNameShown'
<1>1. DOMAIN made = {"once", "raced", "twice", "blind", "stale"}
  BY DEF FormsInv, Shape
<1>2. ASSUME NEW i \in CallIds, Run(i) PROVE made'.blind = made.blind
  <2>1. i \in Flying /\ calls[i].phase \in {"sent", "admitted"}
    BY <1>2, RunServes
  <2>2. /\ calls[i].control = "rename" =>
            /\ calls[i].tag \in 1 .. server.version
            /\ calls[i].tag = server.version => calls[i].shown = server.name
        /\ server.version \in Nat
    BY <2>1 DEF FormsInv, NameInv
  <2>3. Refusal(calls[i]) = "ok" /\ calls[i].control = "rename" => server.name = calls[i].shown
    <3>1. calls[i].control = "rename" => Refusal(calls[i]) = PatchRefusal(calls[i])
      BY DEF Refusal
    <3> QED
      BY <2>2, <3>1 DEF PatchRefusal
  <2> QED
    BY <1>1, <1>2, <2>3 DEF Run
<1>3. ASSUME NEW i \in CallIds, LookUp(i) \/ Record(i) \/ GiveUp(i) \/ Refused(i) \/ Accepted(i)
                              \/ Settled(i) \/ Vanish(i)
      PROVE  made'.blind = made.blind
  BY <1>1, <1>3 DEF LookUp, Record, GiveUp, Refused, Accepted, Settled, Vanish
<1>4. CASE Sending
  BY <1>4, SendingDeparts DEF Departs, RenamesTheNameShown
<1>5. CASE Quiet
  BY <1>5, QuietGoesOn DEF FormsInv, RenamesTheNameShown
<1>6. CASE Elsewhere \/ UNCHANGED vars
  BY <1>6 DEF Elsewhere, vars, RenamesTheNameShown
<1>7. ASSUME NEW result, ReadDetail(result) \/ ReadRoster(result) PROVE UNCHANGED made
  BY <1>7 DEF ReadDetail, ReadRoster
<1> QED
  BY <1>2, <1>3, <1>4, <1>5, <1>6, <1>7, StepKinds DEF RenamesTheNameShown

\* A rename that is carried out replaces the name that the page showed when it was
\* sent: the tag is that of the read that is shown, and the server wants it to be the
\* version (groupMutations.ts, GroupService.rename_group).
THEOREM RenamesTheNameShownHolds == Spec => []RenamesTheNameShown
<1>1. Init => RenamesTheNameShown
  BY DEF Init, RenamesTheNameShown
<1> QED
  BY <1>1, FormsInit, FormsStep, NotBlind, PTL DEF Spec

-----------------------------------------------------------------------------
(* One body is one change: what the middleware knows about a key between   *)
(* the lookup and the record.                                              *)

\* Requests of one key race only when that is noted.
OneAtATime ==
    \A i, j \in CallIds :
        i # j /\ Past(i) /\ Past(j) /\ Key(calls[i]) = Key(calls[j]) => Key(calls[i]) \in made.raced

\* A record keeps further requests out.
RecordShuts ==
    \A i \in CallIds : Past(i) /\ RecordsOf(records, Key(calls[i])) # {}
        => Key(calls[i]) \in made.raced

\* A change is on record, or the request that made it is about to store one.
ChangeIsKept ==
    \A k \in made.once \ made.raced :
        \/ RecordsOf(records, k) # {}
        \/ \E i \in CallIds : calls[i].phase = "ran" /\ Key(calls[i]) = k

KeysInv == OneAtATime /\ RecordShuts /\ ChangeIsKept /\ OncePerBody

\* No key has a record, and no body has had an effect.
LEMMA KeysInit == Init => KeysInv
<1> SUFFICES ASSUME Init PROVE KeysInv
  OBVIOUS
<1>1. /\ records = {} /\ calls = [i \in CallIds |-> NoCall]
      /\ made = [once |-> {}, raced |-> {}, twice |-> {}, blind |-> {}, stale |-> {}]
  BY DEF Init
<1> HIDE DEF Init
<1> QED
  BY <1>1, NoCallIsNone DEF NoCallFields, KeysInv, OneAtATime, RecordShuts, ChangeIsKept, OncePerBody,
     Past

\* Only the server takes a request past the lookup, and away from there.
PastStays == \A i \in CallIds : Past(i) => calls'[i].phase = calls[i].phase

\* A step that runs nothing and stores nothing keeps what is known of the keys.
LEMMA KeysKept ==
    ASSUME KeysInv, CallsGoOn, PastStays, UNCHANGED records,
           made'.once = made.once, made'.twice = made.twice, made'.raced = made.raced
    PROVE  KeysInv'
<1>1. \A i \in CallIds : Past(i)' \/ calls[i].phase = "ran" =>
         Past(i) /\ calls'[i].phase = calls[i].phase /\ Key(calls'[i]) = Key(calls[i])
  BY NoCallIsNone DEF CallsGoOn, PastStays, Onward, Kept, NoCallFields, Past, Key
<1>2. OneAtATime' /\ RecordShuts'
  BY <1>1 DEF KeysInv, OneAtATime, RecordShuts, RecordsOf
<1>3. ChangeIsKept' /\ OncePerBody'
  BY <1>1 DEF KeysInv, ChangeIsKept, OncePerBody, RecordsOf
<1> QED
  BY <1>2, <1>3 DEF KeysInv

\* A request that is past the lookup has a key, and its key is its press.
LEMMA PressIsKey == ASSUME FormsInv, NEW i \in CallIds, Past(i) \/ (calls[i].phase # "none" /\ calls[i].control \in Keyed)
                    PROVE  Press(calls[i]) = Key(calls[i])
<1>1. i \in Flying
  BY DEF Past, Flying
<1> QED
  BY <1>1 DEF FormsInv, KeyedCalls, Press, Key

\* The lookup admits a request only when its key has no record.
LEMMA KeysLookUp == ASSUME FormsInv, KeysInv, NEW i \in CallIds, LookUp(i) PROVE KeysInv'
<1> DEFINE key == Key(calls[i])
           found == LookedUp(records, key, calls[i].body)
           racing == \E j \in Twins(i) : Past(j)
<1>1. /\ OneServed(i) /\ calls[i].phase = "sent" /\ UNCHANGED records
      /\ calls[i].control \in Keyed
      /\ \/ found = "run" /\ RecordsOf(records, key) = {} /\ calls'[i].phase = "admitted"
         \/ found # "run" /\ calls'[i].phase = "answered"
  BY LookUpServes
<1>2. DOMAIN made = {"once", "raced", "twice", "blind", "stale"}
  BY DEF FormsInv, Shape
<1>3. made' = IF found = "run" /\ racing THEN [made EXCEPT !.raced = @ \cup {key}] ELSE made
  BY <1>1, PressIsKey DEF LookUp, Past
<1>4. /\ made'.once = made.once /\ made'.twice = made.twice
      /\ made.raced \subseteq made'.raced /\ made'.raced \subseteq made.raced \cup {key}
      /\ found = "run" /\ racing => key \in made'.raced
  BY <1>2, <1>3
<1>5. /\ \A j \in CallIds \ {i} : calls'[j] = calls[j]
      /\ calls'[i].phase # "ran" /\ ~Past(i) /\ Key(calls'[i]) = key
      /\ Past(i)' => found = "run" /\ RecordsOf(records, key) = {}
  BY <1>1 DEF OneServed, Kept, Key, Past
<1>6. \A j \in CallIds \ {i} : Past(j) /\ Key(calls[j]) = key => racing
  BY DEF Twins, Flying, Past
<1> HIDE DEF racing, key, found
<1>7. OneAtATime'
  <2> SUFFICES ASSUME NEW j \in CallIds, NEW k \in CallIds, j # k, Past(j)', Past(k)',
                      Key(calls'[j]) = Key(calls'[k])
               PROVE  Key(calls'[j]) \in made'.raced
    BY DEF OneAtATime
  <2>1. CASE j # i /\ k # i
    BY <1>4, <1>5, <2>1 DEF KeysInv, OneAtATime, Past
  <2>2. CASE j = i \/ k = i
    BY <1>4, <1>5, <1>6, <2>2 DEF Past
  <2> QED
    BY <2>1, <2>2
<1>8. RecordShuts'
  <2> SUFFICES ASSUME NEW j \in CallIds, Past(j)', RecordsOf(records, Key(calls'[j])) # {}
               PROVE  Key(calls'[j]) \in made'.raced
    BY <1>1 DEF RecordShuts, RecordsOf
  <2>1. j # i /\ Past(j) /\ calls'[j] = calls[j]
    BY <1>5 DEF Past
  <2> QED
    BY <1>4, <2>1 DEF KeysInv, RecordShuts
<1>9. ChangeIsKept'
  <2>1. \A j \in CallIds : calls[j].phase = "ran" => calls'[j] = calls[j]
    BY <1>5 DEF Past
  <2> QED
    BY <1>1, <1>4, <2>1 DEF KeysInv, ChangeIsKept, RecordsOf
<1>10. OncePerBody'
  BY <1>4 DEF KeysInv, OncePerBody
<1> QED
  BY <1>7, <1>8, <1>9, <1>10 DEF KeysInv

\* A route that renames or creates leaves the change to its record.
LEMMA KeysRun == ASSUME FormsInv, KeysInv, NEW i \in CallIds, Run(i) PROVE KeysInv'
<1> DEFINE key == Key(calls[i])
<1>1. /\ OneServed(i) /\ UNCHANGED records /\ i \in Flying
      /\ calls[i].phase = IF HasKey(calls[i]) THEN "admitted" ELSE "sent"
      /\ calls'[i].phase = IF HasKey(calls[i]) THEN "ran" ELSE "answered"
      /\ HasKey(calls[i]) => calls[i].control \in Keyed
  BY RunServes
<1>2. DOMAIN made = {"once", "raced", "twice", "blind", "stale"}
  BY DEF FormsInv, Shape
<1>3. calls[i].control \in Keyed => HasKey(calls[i]) /\ Press(calls[i]) = key
  BY <1>1, PressIsKey DEF FormsInv, KeyedCalls, HasKey, Flying
<1>4. /\ \A j \in CallIds \ {i} : calls'[j] = calls[j]
      /\ Key(calls'[i]) = key
      /\ Past(i)' => Past(i) /\ calls'[i].phase = "ran"
      /\ Past(i) => calls'[i].phase = "ran"
      /\ calls[i].phase # "ran"
      /\ calls[i].control \in Keyed => Past(i)
  BY <1>1, <1>3 DEF OneServed, Kept, Key, Past
<1>5. \/ made'.once = made.once /\ made'.twice = made.twice /\ made'.raced = made.raced
      \/ /\ Past(i) /\ made'.raced = made.raced /\ made'.once = made.once \cup {key}
         /\ made'.twice = IF key \in made.once THEN made.twice \cup {key} ELSE made.twice
  <2>1. CASE ~ (Refusal(calls[i]) = "ok") \/ calls[i].control \notin Keyed
    BY <2>1 DEF Run
  <2>2. CASE Refusal(calls[i]) = "ok" /\ calls[i].control \in Keyed
    <3>1. PICK blind :
            made' = [made EXCEPT !.once = @ \cup {key},
                                 !.twice = IF key \in made.once THEN @ \cup {key} ELSE @,
                                 !.blind = blind]
      BY <1>3, <2>2 DEF Run
    <3> HIDE DEF key
    <3> QED
      BY <1>2, <1>4, <2>2, <3>1
  <2> QED
    BY <2>1, <2>2
<1>6. Past(i) /\ key \in made.once => key \in made.raced
  <2> SUFFICES ASSUME Past(i), key \in made.once \ made.raced PROVE FALSE
    OBVIOUS
  <2>1. RecordsOf(records, key) = {}
    BY DEF KeysInv, RecordShuts
  <2>2. PICK j \in CallIds : calls[j].phase = "ran" /\ Key(calls[j]) = key
    BY <2>1 DEF KeysInv, ChangeIsKept
  <2> QED
    BY <1>4, <2>2 DEF KeysInv, OneAtATime, Past
<1> HIDE DEF key
<1>7. \A j \in CallIds : Past(j)' => Past(j) /\ Key(calls'[j]) = Key(calls[j])
  BY <1>4 DEF key, Past
<1>8. OneAtATime' /\ RecordShuts'
  BY <1>1, <1>5, <1>7 DEF KeysInv, OneAtATime, RecordShuts, RecordsOf
<1>9. ChangeIsKept'
  <2>1. \A j \in CallIds : calls[j].phase = "ran" => calls'[j] = calls[j]
    BY <1>4
  <2> QED
    BY <1>1, <1>4, <1>5, <2>1 DEF KeysInv, ChangeIsKept, RecordsOf
<1>10. OncePerBody'
  BY <1>5, <1>6 DEF KeysInv, OncePerBody
<1> QED
  BY <1>8, <1>9, <1>10 DEF KeysInv

\* The record is stored by the request that ran, before another can be admitted.
LEMMA KeysRecord == ASSUME FormsInv, KeysInv, NEW i \in CallIds, Record(i) PROVE KeysInv'
<1> DEFINE key == Key(calls[i])
<1>1. /\ OneServed(i) /\ UNCHANGED made /\ calls[i].phase = "ran" /\ calls'[i].phase = "answered"
      /\ records' = Stored(records, key, calls[i].body, calls[i].answer)
  BY RecordServes
<1>2. \A j \in CallIds \ {i} : calls'[j] = calls[j]
  BY <1>1 DEF OneServed
<1>3. /\ RecordsOf(records', key) # {}
      /\ \A k : k # key => RecordsOf(records', k) = RecordsOf(records, k)
  BY <1>1, StoredRecords
<1>4. \A j \in CallIds : Past(j)' => j # i /\ Past(j) /\ calls'[j] = calls[j]
  BY <1>1, <1>2 DEF Past
<1>5. OneAtATime'
  BY <1>1, <1>4 DEF KeysInv, OneAtATime
<1>6. RecordShuts'
  <2> SUFFICES ASSUME NEW j \in CallIds, Past(j)', RecordsOf(records', Key(calls'[j])) # {}
               PROVE  Key(calls[j]) \in made.raced
    BY <1>1, <1>4 DEF RecordShuts, RecordsOf
  <2>1. j # i /\ Past(j) /\ calls'[j] = calls[j]
    BY <1>4
  <2>2. CASE Key(calls[j]) = key
    BY <1>1, <2>1, <2>2 DEF KeysInv, OneAtATime, Past
  <2>3. CASE Key(calls[j]) # key
    <3>1. RecordsOf(records, Key(calls[j])) # {}
      BY <1>3, <2>1, <2>3
    <3> QED
      BY <2>1, <3>1 DEF KeysInv, RecordShuts
  <2> QED
    BY <2>2, <2>3
<1>7. ChangeIsKept'
  <2> SUFFICES ASSUME NEW k \in made.once \ made.raced
               PROVE  \/ RecordsOf(records', k) # {}
                      \/ \E j \in CallIds : calls'[j].phase = "ran" /\ Key(calls'[j]) = k
    BY <1>1 DEF ChangeIsKept, RecordsOf
  <2>1. CASE k = key
    BY <1>3, <2>1
  <2>2. CASE k # key
    <3>1. \/ RecordsOf(records, k) # {}
          \/ \E j \in CallIds \ {i} : calls[j].phase = "ran" /\ Key(calls[j]) = k
      BY <2>2 DEF KeysInv, ChangeIsKept
    <3> QED
      BY <1>2, <1>3, <2>2, <3>1
  <2> QED
    BY <2>1, <2>2
<1>8. OncePerBody'
  BY <1>1 DEF KeysInv, OncePerBody
<1> QED
  BY <1>5, <1>6, <1>7, <1>8 DEF KeysInv

\* A request that dies between its lookup and its record is noted.
LEMMA KeysVanish == ASSUME FormsInv, KeysInv, NEW i \in CallIds, Vanish(i) PROVE KeysInv'
<1> DEFINE key == Key(calls[i])
<1>1. /\ UNCHANGED records /\ calls' = [calls EXCEPT ![i] = NoCall]
      /\ made' = IF Past(i) THEN [made EXCEPT !.raced = @ \cup {key}] ELSE made
  BY PressIsKey DEF Vanish, Move, Past
<1>2. /\ DOMAIN made = {"once", "raced", "twice", "blind", "stale"}
      /\ calls'[i].phase = "none" /\ \A j \in CallIds \ {i} : calls'[j] = calls[j]
  BY <1>1, NoCallIsNone DEF FormsInv, Shape, NoCallFields
<1>3. /\ made'.once = made.once /\ made'.twice = made.twice /\ made.raced \subseteq made'.raced
      /\ Past(i) => key \in made'.raced
  BY <1>1, <1>2
<1> HIDE DEF key
<1>4. OneAtATime' /\ RecordShuts' /\ OncePerBody'
  BY <1>1, <1>2, <1>3 DEF KeysInv, OneAtATime, RecordShuts, OncePerBody, Past, RecordsOf
<1>5. ChangeIsKept'
  BY <1>1, <1>2, <1>3 DEF KeysInv, ChangeIsKept, Past, key, RecordsOf
<1> QED
  BY <1>4, <1>5 DEF KeysInv

\* A new request has run nothing yet.
LEMMA KeysDepart ==
    ASSUME KeysInv, NEW c, NEW i \in CallIds, Departs(c, i)
    PROVE  KeysInv'
<1>1. /\ calls[i].phase = "none" /\ calls'[i].phase = "sent" /\ UNCHANGED <<records, made>>
      /\ \A j \in CallIds \ {i} : calls'[j] = calls[j]
  BY DEF Departs
<1>2. \A j \in CallIds : Past(j)' \/ calls[j].phase = "ran" => Past(j) /\ calls'[j] = calls[j]
  BY <1>1 DEF Past
<1>3. OneAtATime' /\ RecordShuts'
  BY <1>1, <1>2 DEF KeysInv, OneAtATime, RecordShuts, RecordsOf
<1>4. ChangeIsKept' /\ OncePerBody'
  BY <1>1, <1>2 DEF KeysInv, ChangeIsKept, OncePerBody, RecordsOf
<1> QED
  BY <1>3, <1>4 DEF KeysInv

\* Quiet steps and reads only detach requests or take them from one read to the next.
LEMMA QuietPastStays ==
    ASSUME Shape, \/ Quiet \/ UNCHANGED calls
                  \/ \E result \in {"answer", "network"} : ReadDetail(result) \/ ReadRoster(result)
    PROVE  PastStays
<1>1. /\ \A S : calls' = Detached(calls, S) => PastStays
      /\ UNCHANGED calls => PastStays
  BY DEF Shape, Detached, PastStays, CallShape
<1>2. CASE Quiet \/ UNCHANGED calls
  BY <1>1, <1>2 DEF Quiet, OpenRename, CloseRename, RetryJoin, TypeName, EditCreation, OpenPanel,
     CancelPanel, PressRefresh
<1>3. ASSUME NEW result, ReadDetail(result) PROVE PastStays
  <2>1. calls' = Detached(AfterRead("detail", "settled"), Refreshing)
    BY <1>3 DEF ReadDetail
  <2> QED
    BY <2>1 DEF Shape, Detached, AfterRead, PastStays, CallShape, Past
<1>4. ASSUME NEW result, ReadRoster(result) PROVE PastStays
  <2>1. calls' = AfterRead("roster", "detail")
    BY <1>4 DEF ReadRoster
  <2> QED
    BY <2>1 DEF Shape, AfterRead, PastStays, CallShape, Past
<1> QED
  BY <1>2, <1>3, <1>4

\* The client's endings leave the request where it is on the server.
LEMMA EndingPastStays ==
    ASSUME Shape, NEW i \in CallIds, GiveUp(i) \/ Refused(i) \/ Accepted(i) \/ Settled(i)
    PROVE  PastStays /\ made'.once = made.once /\ made'.twice = made.twice /\ made'.raced = made.raced
<1>1. made'.once = made.once /\ made'.twice = made.twice /\ made'.raced = made.raced
  BY DEF Shape, GiveUp, Refused, Accepted, Settled
<1>2. \A j \in CallIds \ {i} : calls'[j] = calls[j]
  BY DEF Shape, GiveUp, Refused, Accepted, Settled, Move
<1>3. CASE GiveUp(i)
  <2>1. calls'[i].phase = calls[i].phase
    BY <1>3 DEF Shape, GiveUp, Move, CallShape
  <2> QED
    BY <1>1, <1>2, <2>1 DEF PastStays
<1>4. CASE Refused(i) \/ Accepted(i) \/ Settled(i)
  <2>1. ~Past(i)
    BY <1>4 DEF Refused, Accepted, Settled, Past
  <2> QED
    BY <1>1, <1>2, <2>1 DEF PastStays
<1> QED
  BY <1>3, <1>4

\* Every step keeps what is known of the keys.
LEMMA KeysStep == ASSUME FormsInv, KeysInv, [Next]_vars PROVE KeysInv'
<1>1. Shape
  BY DEF FormsInv
<1>2. CASE Sending
  BY <1>2, SendingDeparts, KeysDepart
<1>3. CASE Quiet
  BY <1>1, <1>3, QuietGoesOn, QuietPastStays, KeysKept
<1>4. CASE Elsewhere \/ UNCHANGED vars
  <2>1. UNCHANGED <<calls, records, made>>
    BY <1>4 DEF Elsewhere, vars
  <2> QED
    BY <1>1, <2>1, UnchangedGoOn, QuietPastStays, KeysKept
<1>5. ASSUME NEW i \in CallIds, GiveUp(i) \/ Refused(i) \/ Accepted(i) \/ Settled(i) PROVE KeysInv'
  BY <1>1, <1>5, EndingGoesOn, EndingPastStays, KeysKept
<1>6. ASSUME NEW result \in {"answer", "network"}, ReadDetail(result) \/ ReadRoster(result) PROVE KeysInv'
  BY <1>1, <1>6, ReadsGoOn, QuietPastStays, KeysKept
<1> QED
  BY <1>2, <1>3, <1>4, <1>5, <1>6, KeysLookUp, KeysRun, KeysRecord, KeysVanish, StepKinds

\* One body is one change of the group: a form sends the same body under the same key
\* however often it is submitted or retried, and the middleware lets a key rename or
\* create a second time only when two of its requests were past the lookup at one time
\* or one died before its record (CreateGroupForm.tsx, RenameGroupForm.tsx, idempotency.py).
THEOREM OncePerBodyHolds == Spec => []OncePerBody
<1>1. KeysInv => OncePerBody
  BY DEF KeysInv
<1> QED
  BY <1>1, FormsInit, FormsStep, KeysInit, KeysStep, PTL DEF Spec

-----------------------------------------------------------------------------
(* The links: each request that rotates has one left, later than the links *)
(* there were when it was sent.                                            *)

Rotations == {i \in CallIds : calls[i].control = "rotate" /\ calls[i].phase = "sent"}

FreshLink(i) == \E n \in DOMAIN Links : n > calls[i].floor /\ calls[i].answer = Links[n]

LinkInv ==
    /\ server.invite \in Nat \ {0}
    /\ server.invite + Cardinality(Rotations) <= Len(Links)
    /\ \A i \in CallIds : calls[i].control = "rotate" =>
          /\ calls[i].floor \in 1 .. server.invite
          /\ calls[i].phase = "answered" => calls[i].answer \in Answers \ {"ok"} \/ FreshLink(i)
          /\ calls[i].phase \in {"detail", "roster", "settled"} => FreshLink(i)

\* Any set of the requests on their way is finite.
LEMMA FewRotations ==
    ASSUME NEW S \in SUBSET CallIds
    PROVE  IsFiniteSet(S) /\ Cardinality(S) \in Nat
BY GroupScreenAssumption, FS_Subset, FS_CardinalityType

\* The first link is in force, and no request is on its way to replace it.
LEMMA LinkInit == Init => LinkInv
<1> SUFFICES ASSUME Init PROVE LinkInv
  OBVIOUS
<1>1. server.invite = 1 /\ calls = [i \in CallIds |-> NoCall]
  BY DEF Init
<1>2. \A i \in CallIds : calls[i].control # "rotate"
  BY <1>1, NoCallIsNone DEF NoCallFields
<1>3. Rotations = {} /\ Cardinality({}) = 0
  BY <1>2, FS_EmptySet DEF Rotations
<1>4. Len(Links) \in Nat /\ Len(Links) > 0
  BY GroupScreenAssumption
<1> QED
  BY <1>1, <1>2, <1>3, <1>4 DEF LinkInv

\* The requests on their way go on, and the link in force stays.
LEMMA LinkKept ==
    ASSUME LinkInv, CallsGoOn, server'.invite = server.invite
    PROVE  LinkInv'
<1>1. NoCallFields
  BY NoCallIsNone
<1>2. Rotations' \subseteq Rotations
  BY <1>1 DEF Rotations, CallsGoOn, Onward, Kept, NoCallFields
<1>3. server'.invite + Cardinality(Rotations') <= Len(Links)
  <2>1. Rotations \in SUBSET CallIds
    BY DEF Rotations
  <2>2. Cardinality(Rotations') <= Cardinality(Rotations) /\ Cardinality(Rotations') \in Nat
        /\ Cardinality(Rotations) \in Nat
    BY <1>2, <2>1, FewRotations, FS_Subset
  <2>3. Len(Links) \in Nat
    BY GroupScreenAssumption
  <2> QED
    BY <2>2, <2>3 DEF LinkInv
<1>4. ASSUME NEW i \in CallIds, calls'[i].control = "rotate"
      PROVE  /\ calls'[i].floor \in 1 .. server'.invite
             /\ calls'[i].phase = "answered" => calls'[i].answer \in Answers \ {"ok"} \/ FreshLink(i)'
             /\ calls'[i].phase \in {"detail", "roster", "settled"} => FreshLink(i)'
  <2>1. Onward(i) /\ calls'[i] # NoCall /\ Kept(i) /\ calls[i].control = "rotate"
    BY <1>1, <1>4 DEF CallsGoOn, Onward, Kept, NoCallFields
  <2>2. calls'[i].answer = calls[i].answer /\ (FreshLink(i) => FreshLink(i)')
    BY <2>1 DEF Onward, Kept, FreshLink
  <2>3. calls'[i].floor \in 1 .. server'.invite
    BY <2>1 DEF LinkInv, Kept
  <2>4. calls'[i].phase = "answered" => calls[i].phase = "answered"
    BY <2>1 DEF Onward
  <2>5. ASSUME calls'[i].phase \in {"detail", "roster", "settled"} PROVE FreshLink(i)
    <3>1. CASE calls[i].phase \in {"detail", "roster", "settled"}
      BY <2>1, <3>1 DEF LinkInv
    <3>2. CASE calls[i].phase = "answered" /\ Succeeded(calls[i].answer)
      <4>1. "ok" \in Answers /\ \A n \in DOMAIN Links : Links[n] \notin Answers
        BY GroupScreenAssumption DEF Answers
      <4> QED
        BY <2>1, <3>2, <4>1 DEF LinkInv, Succeeded
    <3> QED
      BY <2>1, <2>5, <3>1, <3>2 DEF Onward
  <2> QED
    BY <2>1, <2>2, <2>3, <2>4, <2>5 DEF LinkInv
<1> QED
  BY <1>3, <1>4 DEF LinkInv

\* A rotation that departs has a link left to answer with.
LEMMA LinkDeparts ==
    ASSUME LinkInv, NEW c, NEW i \in CallIds, Departs(c, i)
    PROVE  LinkInv'
<1>1. /\ calls[i].phase = "none" /\ calls'[i].phase = "sent" /\ calls'[i].control = c
      /\ calls'[i].floor = server.invite /\ \A j \in CallIds \ {i} : calls'[j] = calls[j]
      /\ UNCHANGED server /\ (c = "rotate" => MayRotate)
  BY DEF Departs
<1>2. Len(Links) \in Nat /\ server.invite \in Nat \ {0}
  BY GroupScreenAssumption DEF LinkInv
<1>3. server'.invite + Cardinality(Rotations') <= Len(Links)
  <2>1. Rotations \in SUBSET CallIds /\ i \notin Rotations
    BY <1>1 DEF Rotations
  <2>2. IsFiniteSet(Rotations) /\ Cardinality(Rotations) \in Nat
    BY <2>1, FewRotations
  <2>3. CASE c = "rotate"
    <3> DEFINE Rotating == {j \in Flying : calls[j].control = "rotate"}
    <3>1. server.invite + Cardinality(Rotating) < Len(Links)
      BY <1>1, <2>3 DEF MayRotate
    <3>2. Rotations \subseteq Rotating /\ Rotating \in SUBSET CallIds
      BY DEF Rotations, Flying
    <3> HIDE DEF Rotating
    <3>3. Cardinality(Rotating) \in Nat /\ Cardinality(Rotations) <= Cardinality(Rotating)
      BY <3>2, FewRotations, FS_Subset
    <3>4. Rotations' = Rotations \cup {i}
      BY <1>1, <2>3 DEF Rotations
    <3>5. Cardinality(Rotations') = Cardinality(Rotations) + 1
      BY <2>1, <2>2, <3>4, FS_AddElement
    <3> QED
      BY <1>1, <1>2, <2>2, <3>1, <3>3, <3>5
  <2>4. CASE c # "rotate"
    <3>1. Rotations' = Rotations
      BY <1>1, <2>4 DEF Rotations
    <3> QED
      BY <1>1, <3>1 DEF LinkInv
  <2> QED
    BY <2>3, <2>4
<1>4. calls'[i].floor \in 1 .. server'.invite
  BY <1>1, <1>2
<1>5. \A j \in CallIds \ {i} : FreshLink(j) => FreshLink(j)'
  BY <1>1 DEF FreshLink
<1> QED
  BY <1>1, <1>2, <1>3, <1>4, <1>5 DEF LinkInv

\* A rotation that is carried out takes the next link, which no request had seen.
LEMMA LinkRun ==
    ASSUME FormsInv, LinkInv, NEW i \in CallIds, Run(i)
    PROVE  LinkInv'
<1>1. /\ OneServed(i) /\ i \in Flying
      /\ calls[i].phase = IF HasKey(calls[i]) THEN "admitted" ELSE "sent"
      /\ calls'[i].phase = IF HasKey(calls[i]) THEN "ran" ELSE "answered"
      /\ calls'[i].answer = Answer(calls[i])
      /\ server' = IF Refusal(calls[i]) = "ok" THEN Changed(calls[i]) ELSE server
      /\ HasKey(calls[i]) => calls[i].control \in Keyed
  BY RunServes
<1>2. /\ DOMAIN server = {"alive", "version", "name", "invite", "role", "other"}
      /\ Len(Links) \in Nat /\ server.invite \in Nat \ {0} /\ DOMAIN Links = 1 .. Len(Links)
  BY GroupScreenAssumption DEF LinkInv, FormsInv, Shape
<1>3. /\ \A j \in CallIds \ {i} : calls'[j] = calls[j]
      /\ calls'[i].control = calls[i].control /\ calls'[i].floor = calls[i].floor
  BY <1>1 DEF OneServed, Kept
<1>4. Rotations \in SUBSET CallIds /\ Rotations' \subseteq Rotations
  BY <1>1, <1>3 DEF Rotations
<1>5. /\ IsFiniteSet(Rotations) /\ Cardinality(Rotations) \in Nat /\ Cardinality(Rotations') \in Nat
      /\ Cardinality(Rotations') <= Cardinality(Rotations)
  BY <1>4, FewRotations, FS_Subset
<1>6. \A j \in CallIds \ {i} : FreshLink(j) => FreshLink(j)'
  BY <1>3 DEF FreshLink
<1>7. CASE calls[i].control = "rotate" /\ Refusal(calls[i]) = "ok"
  <2>1. /\ server'.invite = server.invite + 1
        /\ calls[i].phase = "sent" /\ calls'[i].phase = "answered"
        /\ calls'[i].answer = Links[server.invite + 1]
    BY <1>1, <1>2, <1>7 DEF Changed, Answer, Keyed
  <2>2. i \in Rotations /\ Rotations' = Rotations \ {i}
    BY <1>3, <1>7, <2>1 DEF Rotations
  <2>3. Cardinality(Rotations') = Cardinality(Rotations) - 1
    BY <1>5, <2>2, FS_RemoveElement
  <2>4. server.invite + Cardinality(Rotations) <= Len(Links)
    BY DEF LinkInv
  <2>5. server'.invite \in Nat \ {0} /\ server'.invite + Cardinality(Rotations') <= Len(Links)
    BY <1>2, <1>5, <2>1, <2>3, <2>4
  <2>6. server.invite + 1 \in DOMAIN Links
    BY <1>2, <1>5, <2>1, <2>5
  <2>7. calls[i].floor \in 1 .. server.invite
    BY <1>7 DEF LinkInv
  <2>8. FreshLink(i)' /\ calls'[i].floor \in 1 .. server'.invite
    BY <1>2, <1>3, <2>1, <2>6, <2>7 DEF FreshLink
  <2>9. \A j \in CallIds : calls[j].floor \in 1 .. server.invite => calls[j].floor \in 1 .. server'.invite
    BY <1>2, <2>1
  <2> QED
    BY <1>3, <1>6, <2>1, <2>5, <2>8, <2>9 DEF LinkInv
<1>8. CASE ~ (calls[i].control = "rotate" /\ Refusal(calls[i]) = "ok")
  <2>1. server'.invite = server.invite
    <3>1. CASE Refusal(calls[i]) # "ok"
      BY <1>1, <3>1
    <3>2. CASE Refusal(calls[i]) = "ok"
      <4>1. calls[i].control \in AllControls \ {"rotate"}
        <5>1. \E page \in Pages : Controls = page.works
          BY DEF FormsInv, Shape
        <5>2. calls[i].control \in Controls
          BY <1>1 DEF FormsInv, KeyedCalls
        <5> QED
          BY <1>8, <3>2, <5>1, <5>2, GroupScreenAssumption DEF AllControls
      <4> QED
        BY <1>1, <1>2, <3>2, <4>1 DEF Changed, AllControls
    <3> QED
      BY <3>1, <3>2
  <2>2. server'.invite + Cardinality(Rotations') <= Len(Links)
    BY <1>2, <1>5, <2>1 DEF LinkInv
  <2>3. calls[i].control = "rotate" =>
          /\ calls'[i].phase = "answered"
          /\ calls'[i].answer \in Answers \ {"ok"}
    BY <1>1, <1>8, RefusalAnswers DEF Answer, Answers, RouteAnswers, Keyed
  <2> QED
    BY <1>2, <1>3, <1>6, <2>1, <2>2, <2>3 DEF LinkInv
<1> QED
  BY <1>7, <1>8

\* Requests with a key rotate nothing.
LEMMA LinkServed ==
    ASSUME LinkInv, NEW i \in CallIds, OneServed(i), calls[i].control \in Keyed, UNCHANGED server
    PROVE  LinkInv'
<1>1. /\ \A j \in CallIds \ {i} : calls'[j] = calls[j]
      /\ calls'[i].control # "rotate" /\ calls[i].control # "rotate"
  BY DEF OneServed, Kept, Keyed
<1>2. Rotations' = Rotations
  BY <1>1 DEF Rotations
<1>3. \A j \in CallIds \ {i} : FreshLink(j) => FreshLink(j)'
  BY <1>1 DEF FreshLink
<1> QED
  BY <1>1, <1>2, <1>3 DEF LinkInv

\* The others rotate only when a link is left beside those of the requests.
LEMMA LinkElsewhere == ASSUME FormsInv, LinkInv, Elsewhere PROVE LinkInv'
<1>1. /\ DOMAIN server = {"alive", "version", "name", "invite", "role", "other"}
      /\ Len(Links) \in Nat /\ server.invite \in Nat \ {0}
  BY GroupScreenAssumption DEF LinkInv, FormsInv, Shape
<1>2. UNCHANGED calls
  BY DEF Elsewhere
<1>3. Rotations' = Rotations /\ \A j \in CallIds : FreshLink(j)' = FreshLink(j)
  BY <1>2 DEF Rotations, FreshLink
<1>4. \/ server'.invite = server.invite
      \/ server'.invite = server.invite + 1 /\ MayRotate
  BY <1>1 DEF Elsewhere
<1>5. Rotations \in SUBSET CallIds /\ Cardinality(Rotations) \in Nat
  BY FewRotations DEF Rotations
<1>6. CASE server'.invite = server.invite
  BY <1>2, <1>3, <1>6 DEF LinkInv
<1>7. CASE server'.invite = server.invite + 1 /\ MayRotate
  <2> DEFINE Rotating == {j \in Flying : calls[j].control = "rotate"}
  <2>1. server.invite + Cardinality(Rotating) < Len(Links)
    BY <1>7 DEF MayRotate
  <2>2. Rotations \subseteq Rotating /\ Rotating \in SUBSET CallIds
    BY DEF Rotations, Flying
  <2> HIDE DEF Rotating
  <2>3. Cardinality(Rotating) \in Nat /\ Cardinality(Rotations) <= Cardinality(Rotating)
    BY <2>2, FewRotations, FS_Subset
  <2>4. server'.invite + Cardinality(Rotations') <= Len(Links) /\ server'.invite \in Nat \ {0}
    BY <1>1, <1>3, <1>5, <1>7, <2>1, <2>3
  <2>5. \A j \in CallIds : calls[j].floor \in 1 .. server.invite => calls[j].floor \in 1 .. server'.invite
    BY <1>1, <1>7
  <2> QED
    BY <1>2, <1>3, <2>4, <2>5 DEF LinkInv
<1> QED
  BY <1>4, <1>6, <1>7

\* Every step keeps a link for each rotation on its way.
LEMMA LinkStep == ASSUME FormsInv, LinkInv, [Next]_vars PROVE LinkInv'
<1>1. Shape
  BY DEF FormsInv
<1>2. CASE Sending
  BY <1>2, SendingDeparts, LinkDeparts
<1>3. CASE Quiet
  BY <1>1, <1>3, QuietGoesOn, LinkKept
<1>4. CASE UNCHANGED vars
  BY <1>1, <1>4, UnchangedGoOn, LinkKept DEF vars
<1>5. ASSUME NEW i \in CallIds, GiveUp(i) \/ Refused(i) \/ Accepted(i) \/ Settled(i) \/ Vanish(i)
      PROVE  LinkInv'
  BY <1>1, <1>5, EndingGoesOn, LinkKept
<1>6. ASSUME NEW result, ReadDetail(result) \/ ReadRoster(result) PROVE LinkInv'
  BY <1>1, <1>6, ReadsGoOn, LinkKept
<1>7. ASSUME NEW i \in CallIds, LookUp(i) \/ Record(i) PROVE LinkInv'
  BY <1>7, LookUpServes, RecordServes, LinkServed
<1> QED
  BY <1>2, <1>3, <1>4, <1>5, <1>6, <1>7, LinkRun, LinkElsewhere, StepKinds

\* No step puts a link back that a rotation has replaced.
LEMMA NotStale ==
    ASSUME FormsInv, LinkInv, LinkShownIsFresh, [Next]_vars
    PROVE  LinkShownIsFresh'
<1>1. Shape
  BY DEF FormsInv
<1>2. ASSUME NEW i \in CallIds, Settled(i) PROVE UNCHANGED made
  <2>1. calls[i].control = "rotate" /\ calls[i].answer \in {Links[n] : n \in 1 .. calls[i].floor} => FALSE
    <3> SUFFICES ASSUME calls[i].control = "rotate", NEW n \in 1 .. calls[i].floor,
                        calls[i].answer = Links[n]
                 PROVE  FALSE
      OBVIOUS
    <3>1. calls[i].floor \in 1 .. server.invite /\ FreshLink(i)
      BY <1>2 DEF Settled, LinkInv
    <3>2. PICK m \in DOMAIN Links : m > calls[i].floor /\ Links[m] = Links[n]
      BY <3>1 DEF FreshLink
    <3>3. /\ server.invite \in Nat /\ Cardinality(Rotations) \in Nat
          /\ server.invite + Cardinality(Rotations) <= Len(Links)
      BY FewRotations DEF LinkInv, Rotations
    <3>4. Len(Links) \in Nat /\ DOMAIN Links = 1 .. Len(Links)
      BY GroupScreenAssumption
    <3>5. n \in DOMAIN Links /\ m # n
      BY <3>1, <3>2, <3>3, <3>4
    <3> QED
      BY <3>2, <3>5, GroupScreenAssumption
  <2> QED
    BY <1>2, <2>1 DEF Settled
<1>3. ASSUME NEW i \in CallIds, LookUp(i) \/ Run(i) \/ Record(i) \/ GiveUp(i) \/ Refused(i)
                              \/ Accepted(i) \/ Vanish(i)
      PROVE  made'.stale = made.stale
  <2>1. DOMAIN made = {"once", "raced", "twice", "blind", "stale"}
    BY <1>1 DEF Shape
  <2> QED
    BY <1>3, <2>1 DEF LookUp, Run, Record, GiveUp, Refused, Accepted, Vanish
<1>4. CASE Sending
  BY <1>4, SendingDeparts DEF Departs, LinkShownIsFresh
<1>5. CASE Quiet
  BY <1>1, <1>5, QuietGoesOn DEF LinkShownIsFresh
<1>6. CASE Elsewhere \/ UNCHANGED vars
  BY <1>6 DEF Elsewhere, vars, LinkShownIsFresh
<1>7. ASSUME NEW result, ReadDetail(result) \/ ReadRoster(result) PROVE UNCHANGED made
  BY <1>7 DEF ReadDetail, ReadRoster
<1> QED
  BY <1>2, <1>3, <1>4, <1>5, <1>6, <1>7, StepKinds DEF LinkShownIsFresh

\* A link that is shown after a rotation came into force after the press: a rotation has
\* a key of its own, so it is never answered with the link of an earlier one
\* (RotateInviteAction.tsx).
THEOREM LinkShownIsFreshHolds == Spec => []LinkShownIsFresh
<1>1. Init => LinkShownIsFresh
  BY DEF Init, LinkShownIsFresh
<1> QED
  BY <1>1, FormsInit, FormsStep, LinkInit, LinkStep, NotStale, PTL DEF Spec

-----------------------------------------------------------------------------
(* Types.  A control is pending while it observes a request, and no two    *)
(* requests are observed by one control.                                   *)

Heard(i) == calls[i].phase # "none" /\ calls[i].client = "observed"

Pending ==
    /\ \A i, j \in CallIds : i # j /\ Heard(i) /\ Heard(j) => calls[i].control # calls[j].control
    /\ \A c \in Controls : ctl[c].status = "pending" <=> \E i \in CallIds : Heard(i) /\ calls[i].control = c

\* The requests that may still change the group, each with a version left for it; a
\* request to join the group that the user is in changes nothing.
BoundInv ==
    /\ Highest \in Nat /\ server.version <= Highest
    /\ Controls # {"join"} \/ server.role = "none" => server.version + Cardinality(Unserved) <= Highest
    /\ server.role \in {"owner", "member", "none"}

\* No control is pending at first.
LEMMA PendingInit == Init => Pending
<1> SUFFICES ASSUME Init PROVE Pending
  OBVIOUS
<1>1. calls = [i \in CallIds |-> NoCall] /\ \A c \in Controls : ctl[c].status = "idle"
  BY DEF Init, NewControl, Controls
<1>2. \A i \in CallIds : ~Heard(i)
  BY <1>1, NoCallIsNone DEF Heard, NoCallFields
<1> QED
  BY <1>1, <1>2 DEF Pending

\* Requests are heard by who heard them before, and the controls stay as they are.
LEMMA PendingKept ==
    ASSUME Pending, DOMAIN ctl' = DOMAIN ctl,
           \A c \in Controls : ctl'[c].status = "pending" <=> ctl[c].status = "pending",
           \A i \in CallIds : (Heard(i)' <=> Heard(i)) /\ (Heard(i) => calls'[i].control = calls[i].control)
    PROVE  Pending'
<1>1. Controls' = Controls
  BY DEF Controls
<1> QED
  BY <1>1 DEF Pending

\* Some controls are reset, and hear nothing more.
LEMMA PendingReset ==
    ASSUME Pending, DOMAIN ctl' = DOMAIN ctl, NEW S,
           \A c \in Controls : IF c \in S THEN ctl'[c].status # "pending"
                              ELSE ctl'[c].status = "pending" <=> ctl[c].status = "pending",
           \A i \in CallIds : /\ Heard(i)' <=> Heard(i) /\ calls[i].control \notin S
                              /\ Heard(i)' => calls'[i].control = calls[i].control
    PROVE  Pending'
<1>1. Controls' = Controls
  BY DEF Controls
<1>2. \A i, j \in CallIds : i # j /\ Heard(i)' /\ Heard(j)' => calls'[i].control # calls'[j].control
  BY DEF Pending
<1>3. ASSUME NEW c \in Controls
      PROVE  ctl'[c].status = "pending" <=> \E i \in CallIds : Heard(i)' /\ calls'[i].control = c
  <2>1. CASE c \in S
    BY <2>1
  <2>2. CASE c \notin S
    <3>1. ctl'[c].status = "pending" <=> \E i \in CallIds : Heard(i) /\ calls[i].control = c
      BY <2>2 DEF Pending
    <3>2. ASSUME NEW i \in CallIds
          PROVE  Heard(i)' /\ calls'[i].control = c <=> Heard(i) /\ calls[i].control = c
      BY <2>2
    <3> QED
      BY <3>1, <3>2
  <2> QED
    BY <2>1, <2>2
<1> QED
  BY <1>1, <1>2, <1>3 DEF Pending

\* A control that sends is pending, and it was not before.
LEMMA PendingDeparts ==
    ASSUME Pending, NEW c \in Controls, NEW i \in CallIds, Departs(c, i)
    PROVE  Pending'
<1>1. /\ ~Heard(i) /\ Heard(i)' /\ calls'[i].control = c /\ Controls' = Controls
      /\ \A j \in CallIds \ {i} : calls'[j] = calls[j] /\ (Heard(j)' <=> Heard(j))
      /\ ctl'[c].status = "pending" /\ ctl[c].status # "pending"
      /\ \A d \in Controls \ {c} : ctl'[d] = ctl[d]
  BY DEF Departs, Heard, Controls
<1>2. \A j \in CallIds : Heard(j) => calls[j].control # c
  BY <1>1 DEF Pending
<1> QED
  BY <1>1, <1>2 DEF Pending

\* The requests of the controls that are detached go on unheard.
LEMMA DetachedHeard ==
    ASSUME Shape, NEW S, calls' = Detached(calls, S), NEW i \in CallIds
    PROVE  /\ Heard(i)' <=> Heard(i) /\ calls[i].control \notin S
           /\ calls'[i].control = calls[i].control
BY DEF Shape, Detached, Heard, CallShape

\* Typing, opening and closing panels leave a pending control its request.
LEMMA PendingQuiet == ASSUME Shape, Pending, Quiet PROVE Pending'
<1>1. \A c \in Controls : DOMAIN ctl[c] = ControlShape
  BY DEF Shape
<1>2. ASSUME NEW c \in Controls, NEW control, ctl' = [ctl EXCEPT ![c] = control], UNCHANGED calls,
             control.status = "pending" <=> ctl[c].status = "pending"
      PROVE  Pending'
  <2>1. /\ DOMAIN ctl' = DOMAIN ctl
        /\ \A d \in Controls : ctl'[d].status = "pending" <=> ctl[d].status = "pending"
    BY <1>2 DEF Controls
  <2> QED
    BY <1>2, <2>1, PendingKept DEF Heard
<1>3. ASSUME NEW c \in Controls, NEW control, ctl' = [ctl EXCEPT ![c] = control],
             calls' = Detached(calls, {c}), control.status # "pending"
      PROVE  Pending'
  <2>1. /\ DOMAIN ctl' = DOMAIN ctl /\ ctl'[c] = control
        /\ \A d \in Controls \ {c} : ctl'[d] = ctl[d]
    BY <1>3 DEF Controls
  <2>2. \A d \in Controls : IF d \in {c} THEN ctl'[d].status # "pending"
                            ELSE ctl'[d].status = "pending" <=> ctl[d].status = "pending"
    BY <1>3, <2>1
  <2> QED
    BY <1>3, <2>1, <2>2, DetachedHeard, PendingReset
<1>4. CASE OpenRename
  <2>1. /\ "rename" \in Controls /\ ctl["rename"].status # "pending" /\ UNCHANGED calls
        /\ ctl' = [ctl EXCEPT !["rename"] = [ctl["rename"] EXCEPT !.open = TRUE, !.typed = detail.read.name,
                                                                  !.status = "idle"]]
    BY <1>4 DEF OpenRename, Idle, Mounted, Only
  <2> QED
    BY <1>1, <1>2, <2>1 DEF ControlShape
<1>5. CASE CloseRename
  <2>1. /\ "rename" \in Controls /\ ctl["rename"].status # "pending" /\ UNCHANGED calls
        /\ ctl' = [ctl EXCEPT !["rename"] = [ctl["rename"] EXCEPT !.open = FALSE, !.typed = "none",
                                                                  !.status = "idle"]]
    BY <1>5 DEF CloseRename, Idle, Mounted, Only
  <2> QED
    BY <1>1, <1>2, <2>1 DEF ControlShape
<1>6. CASE RetryJoin
  <2>1. /\ "join" \in Controls /\ ctl["join"].status = "notice" /\ UNCHANGED calls
        /\ ctl' = [ctl EXCEPT !["join"] = [ctl["join"] EXCEPT !.status = "idle", !.held = FALSE]]
    BY <1>6 DEF RetryJoin, Mounted, Only
  <2> QED
    BY <1>1, <1>2, <2>1 DEF ControlShape
<1>7. ASSUME NEW n \in Names, TypeName(n) PROVE Pending'
  <2>1. /\ "rename" \in Controls /\ UNCHANGED calls
        /\ ctl' = [ctl EXCEPT !["rename"] = [ctl["rename"] EXCEPT !.typed = n]]
    BY <1>7 DEF TypeName, Mounted, Only
  <2> QED
    BY <1>1, <1>2, <2>1 DEF ControlShape
<1>8. ASSUME NEW n \in Names, EditCreation(n) PROVE Pending'
  <2>1. /\ "create" \in Controls /\ calls' = Detached(calls, {"create"})
        /\ ctl' = [ctl EXCEPT !["create"] = [ctl["create"] EXCEPT !.typed = n, !.status = "idle"]]
    BY <1>8 DEF EditCreation, Mounted, Only
  <2>2. [ctl["create"] EXCEPT !.typed = n, !.status = "idle"].status # "pending"
    BY <1>1, <2>1 DEF ControlShape
  <2> QED
    BY <1>3, <2>1, <2>2
<1>9. ASSUME NEW c \in Controls, OpenPanel(c) PROVE Pending'
  <2>1. /\ calls' = Detached(calls, {c})
        /\ ctl' = [ctl EXCEPT ![c] = [ctl[c] EXCEPT !.open = TRUE, !.status = "idle",
                                         !.typed = IF c = "delete" THEN detail.read.name ELSE "none"]]
    BY <1>9 DEF OpenPanel, Only
  <2>2. [ctl[c] EXCEPT !.open = TRUE, !.status = "idle",
                       !.typed = IF c = "delete" THEN detail.read.name ELSE "none"].status # "pending"
    BY <1>1 DEF ControlShape
  <2> QED
    BY <1>3, <2>1, <2>2
<1>10. ASSUME NEW c \in Controls, CancelPanel(c) PROVE Pending'
  <2>1. /\ calls' = Detached(calls, {c})
        /\ ctl' = [ctl EXCEPT ![c] = [NewControl EXCEPT !.refreshing = ctl[c].refreshing]]
    BY <1>10 DEF CancelPanel, Only
  <2>2. [NewControl EXCEPT !.refreshing = ctl[c].refreshing].status # "pending"
    BY DEF NewControl
  <2> QED
    BY <1>3, <2>1, <2>2
<1>11. ASSUME NEW c \in Controls, PressRefresh(c) PROVE Pending'
  <2>1. UNCHANGED calls /\ ctl' = [ctl EXCEPT ![c] = [ctl[c] EXCEPT !.refreshing = TRUE]]
    BY <1>11 DEF PressRefresh, Only
  <2> QED
    BY <1>1, <1>2, <2>1 DEF ControlShape
<1> QED
  BY <1>4, <1>5, <1>6, <1>7, <1>8, <1>9, <1>10, <1>11 DEF Quiet

\* The ending that a control hears is the end of its request for it.
LEMMA PendingEnding ==
    ASSUME FormsInv, Pending, NEW i \in CallIds, GiveUp(i) \/ Refused(i) \/ Accepted(i) \/ Settled(i) \/ Vanish(i)
    PROVE  Pending'
<1> DEFINE c == calls[i].control
<1>1. /\ DOMAIN calls = CallIds /\ DOMAIN calls[i] = CallShape
      /\ \A d \in Controls : DOMAIN ctl[d] = ControlShape
      /\ NoCall.phase = "none"
  BY NoCallIsNone DEF FormsInv, Shape, NoCallFields
<1>2. CASE Accepted(i)
  <2>1. /\ UNCHANGED ctl /\ calls[i].phase # "none" /\ NextRead(c) # "none"
        /\ calls' = [calls EXCEPT ![i] = [calls[i] EXCEPT !.phase = NextRead(c)]]
    BY <1>2 DEF Accepted, Move, NextRead
  <2>2. /\ \A j \in CallIds \ {i} : calls'[j] = calls[j]
        /\ calls'[i].phase # "none" /\ calls'[i].client = calls[i].client /\ calls'[i].control = c
    BY <1>1, <2>1 DEF CallShape
  <2> QED
    BY <2>1, <2>2, PendingKept DEF Heard
<1>3. CASE Vanish(i)
  <2>1. UNCHANGED ctl /\ calls[i].client = "deaf" /\ calls' = [calls EXCEPT ![i] = NoCall]
    BY <1>3 DEF Vanish, Move
  <2>2. (\A j \in CallIds \ {i} : calls'[j] = calls[j]) /\ calls'[i].phase = "none"
    BY <1>1, <2>1
  <2> QED
    BY <2>1, <2>2, PendingKept DEF Heard
<1>4. CASE GiveUp(i) \/ Refused(i) \/ Settled(i)
  <2>1. /\ calls[i].phase # "none" /\ \A j \in CallIds \ {i} : calls'[j] = calls[j]
        /\ ~Heard(i)'
    <3>1. CASE GiveUp(i)
      BY <1>1, <3>1 DEF GiveUp, Move, Heard, CallShape
    <3>2. CASE Settled(i)
      BY <1>1, <3>2 DEF Settled, Move, Heard
    <3>3. CASE Refused(i)
      <4>1. CASE calls' = [calls EXCEPT ![i] = NoCall]
        BY <1>1, <3>3, <4>1 DEF Refused, Heard
      <4>2. CASE calls' = [calls EXCEPT ![i] = [calls[i] EXCEPT !.phase = "roster", !.client = "unobserved"]]
        <5>1. calls'[i] = [calls[i] EXCEPT !.phase = "roster", !.client = "unobserved"]
          BY <1>1, <4>2
        <5>2. calls'[i].client = "unobserved"
          BY <1>1, <5>1 DEF CallShape
        <5> QED
          BY <1>1, <3>3, <4>2, <5>2 DEF Refused, Heard
      <4> QED
        BY <3>3, <4>1, <4>2 DEF Refused, Move
    <3> QED
      BY <1>4, <3>1, <3>2, <3>3
  <2>2. c \in Controls
    BY <2>1 DEF FormsInv, KeyedCalls, Flying
  <2>3. CASE calls[i].client # "observed"
    <3>1. UNCHANGED ctl
      BY <1>4, <2>3 DEF GiveUp, Refused, Settled, Ended
    <3> QED
      BY <2>1, <2>3, <3>1, PendingKept DEF Heard
  <2>4. CASE calls[i].client = "observed"
    <3>1. PICK control : control.status # "pending" /\ ctl' = [ctl EXCEPT ![c] = control]
      <4>1. \A status : Failed(ctl[c], c, status).status = status
        BY <1>1, <2>2 DEF Failed, ControlShape
      <4>2. Outcome(calls[i]) # "pending"
        BY DEF Outcome
      <4>3. CASE GiveUp(i)
        BY <2>4, <4>1, <4>3 DEF GiveUp, Ended, Observer
      <4>4. CASE Refused(i)
        <5>1. CASE Outcome(calls[i]) = "gone"
          <6>1. [NewControl EXCEPT !.held = ctl[c].held].status = "idle"
            BY DEF NewControl
          <6> QED
            BY <2>4, <4>4, <5>1, <6>1 DEF Refused, Ended, Observer
        <5>2. CASE Outcome(calls[i]) # "gone"
          BY <2>4, <4>1, <4>2, <4>4, <5>2 DEF Refused, Ended, Observer
        <5> QED
          BY <5>1, <5>2
      <4>5. CASE Settled(i)
        <5>1. PICK shown, held :
                ctl' = [ctl EXCEPT ![c] = [ctl[c] EXCEPT !.status = "idle", !.open = FALSE,
                                                         !.link = shown, !.held = held]]
          BY <2>4, <4>5 DEF Settled, Ended, Observer
        <5>2. [ctl[c] EXCEPT !.status = "idle", !.open = FALSE, !.link = shown, !.held = held].status = "idle"
          BY <1>1, <2>2 DEF ControlShape
        <5> QED
          BY <5>1, <5>2
      <4> QED
        BY <1>4, <4>3, <4>4, <4>5
    <3>2. /\ DOMAIN ctl' = DOMAIN ctl /\ ctl'[c].status # "pending"
          /\ \A d \in Controls \ {c} : ctl'[d] = ctl[d]
      BY <2>2, <3>1 DEF Controls
    <3>3. Heard(i) /\ \A j \in CallIds \ {i} : Heard(j) => calls[j].control # c
      BY <2>1, <2>4 DEF Pending, Heard
    <3>4. \A j \in CallIds : /\ Heard(j)' <=> Heard(j) /\ calls[j].control \notin {c}
                             /\ Heard(j)' => calls'[j].control = calls[j].control
      BY <2>1, <3>3 DEF Heard
    <3>5. \A d \in Controls : IF d \in {c} THEN ctl'[d].status # "pending"
                              ELSE ctl'[d].status = "pending" <=> ctl[d].status = "pending"
      BY <3>2
    <3> QED
      BY <3>2, <3>4, <3>5, PendingReset
  <2> QED
    BY <2>3, <2>4
<1> QED
  BY <1>2, <1>3, <1>4

\* A refresh that ends resets the control that asked for it.
LEMMA PendingRead ==
    ASSUME Shape, Pending, NEW result, ReadDetail(result) \/ ReadRoster(result)
    PROVE  Pending'
<1>1. CASE ReadRoster(result)
  <2>1. UNCHANGED ctl /\ calls' = AfterRead("roster", "detail")
    BY <1>1 DEF ReadRoster
  <2>2. \A i \in CallIds : (Heard(i)' <=> Heard(i)) /\ calls'[i].control = calls[i].control
    BY <2>1 DEF Shape, AfterRead, Heard, CallShape
  <2> QED
    BY <2>1, <2>2, PendingKept
<1>2. CASE ReadDetail(result)
  <2>1. ctl' = Refreshed /\ calls' = Detached(AfterRead("detail", "settled"), Refreshing)
    BY <1>2 DEF ReadDetail
  <2>2. \A i \in CallIds : /\ Heard(i)' <=> Heard(i) /\ calls[i].control \notin Refreshing
                           /\ calls'[i].control = calls[i].control
    BY <2>1 DEF Shape, AfterRead, Detached, Heard, CallShape
  <2>3. /\ DOMAIN ctl' = DOMAIN ctl
        /\ \A c \in Controls : IF c \in Refreshing THEN ctl'[c].status # "pending" ELSE ctl'[c] = ctl[c]
    BY <2>1 DEF Shape, Refreshed, Refreshing, ControlShape, Controls
  <2> QED
    BY <2>2, <2>3, PendingReset
<1> QED
  BY <1>1, <1>2

\* Every step keeps one request for one pending control.
LEMMA PendingStep == ASSUME FormsInv, Pending, [Next]_vars PROVE Pending'
<1>1. Shape
  BY DEF FormsInv
<1>2. CASE Sending
  BY <1>2, SendingDeparts, PendingDeparts
<1>3. CASE Elsewhere \/ UNCHANGED vars
  <2>1. UNCHANGED <<ctl, calls>>
    BY <1>3 DEF Elsewhere, vars
  <2> QED
    BY <2>1, PendingKept DEF Heard
<1>4. ASSUME NEW i \in CallIds, LookUp(i) \/ Run(i) \/ Record(i) PROVE Pending'
  <2>1. /\ OneServed(i) /\ calls[i].phase # "none" /\ calls'[i].phase # "none"
    BY <1>4, LookUpServes, RunServes, RecordServes
  <2>2. /\ UNCHANGED ctl /\ \A j \in CallIds \ {i} : calls'[j] = calls[j]
        /\ calls'[i].control = calls[i].control /\ calls'[i].client = calls[i].client
    BY <2>1 DEF OneServed, Kept
  <2> QED
    BY <2>1, <2>2, PendingKept DEF Heard
<1> QED
  BY <1>1, <1>2, <1>3, <1>4, PendingQuiet, PendingEnding, PendingRead, StepKinds

\* The controls of a page: the page behind a link and the form are alone on theirs.
LEMMA PageControls ==
    ASSUME FormsInv
    PROVE  /\ Controls \subseteq AllControls /\ Controls # {}
           /\ "join" \in Controls => Controls = {"join"}
<1>1. PICK page \in Pages : Controls = page.works
  BY DEF FormsInv, Shape
<1>2. \/ page.works \in {{"create"}, {"join"}}
      \/ page.works \in (SUBSET (AllControls \ {"create", "join"})) \ {{}}
  BY GroupScreenAssumption
<1>3. CASE page.works \in {{"create"}, {"join"}}
  BY <1>1, <1>3 DEF AllControls
<1>4. CASE page.works \in (SUBSET (AllControls \ {"create", "join"})) \ {{}}
  BY <1>1, <1>4
<1> QED
  BY <1>2, <1>3, <1>4

\* The highest number of a body is a number.
LEMMA HighestIsNat == ASSUME FormsInv PROVE Highest \in Nat \ {0}
<1> DEFINE T == {MaxVersion[c] : c \in Controls}
<1>1. T \subseteq Nat \ {0} /\ T # {}
  BY PageControls, GroupScreenAssumption
<1>2. \E m \in T : \A k \in T : m <= k
  BY <1>1, LeastExists
<1>3. Highest \in T
  <2>1. Highest = CHOOSE n \in T : \A m \in T : n <= m
    BY DEF Highest
  <2> HIDE DEF T
  <2> QED
    BY <1>2, <2>1
<1> QED
  BY <1>1, <1>3

\* The requests that are not yet served are finitely many.
LEMMA UnservedSize ==
    /\ Unserved = {i \in CallIds : calls[i].phase \in {"sent", "admitted"}}
    /\ IsFiniteSet(Unserved) /\ Cardinality(Unserved) \in Nat
<1>1. Unserved = {i \in CallIds : calls[i].phase \in {"sent", "admitted"}}
  BY DEF Unserved, Flying
<1>2. Unserved \in SUBSET CallIds
  BY <1>1
<1> QED
  BY <1>1, <1>2, FewRotations

\* The group starts with a version within the bound.
LEMMA BoundInit == Init => BoundInv
<1> SUFFICES ASSUME Init PROVE BoundInv
  OBVIOUS
<1>1. PICK page \in Pages : server.version = 1 /\ server.role = page.role
  BY DEF Init
<1>2. calls = [i \in CallIds |-> NoCall]
  BY DEF Init
<1>3. Unserved = {} /\ Cardinality({}) = 0
  BY <1>2, NoCallIsNone, UnservedSize, FS_EmptySet DEF NoCallFields
<1>4. Highest \in Nat \ {0}
  BY FormsInit, HighestIsNat
<1> QED
  BY <1>1, <1>3, <1>4, GroupScreenAssumption DEF BoundInv

\* The controls of a page are the same in all its states.
LEMMA HighestStays == ASSUME DOMAIN ctl' = DOMAIN ctl PROVE Controls' = Controls /\ Highest' = Highest
BY DEF Controls, Highest

\* No request is added to those that are to be served.
LEMMA BoundKept ==
    ASSUME FormsInv, BoundInv, DOMAIN ctl' = DOMAIN ctl, UNCHANGED server, DOMAIN calls' = CallIds,
           \A i \in CallIds : calls'[i].phase \in {"sent", "admitted"} => calls[i].phase \in {"sent", "admitted"}
    PROVE  BoundInv'
<1>1. Unserved' = {i \in CallIds : calls'[i].phase \in {"sent", "admitted"}}
  BY DEF Unserved, Flying
<1>2. Unserved' \subseteq Unserved
  BY <1>1, UnservedSize
<1>3. Cardinality(Unserved') <= Cardinality(Unserved) /\ Cardinality(Unserved') \in Nat
      /\ Cardinality(Unserved) \in Nat
  BY <1>2, UnservedSize, FS_Subset, FS_CardinalityType
<1>4. server.version \in Nat
  BY DEF FormsInv, NameInv
<1> QED
  BY <1>3, <1>4, HighestStays DEF BoundInv

\* A request departs while there is room for what it may change.
LEMMA BoundDeparts ==
    ASSUME FormsInv, BoundInv, NEW c \in Controls, NEW i \in CallIds, Departs(c, i)
    PROVE  BoundInv'
<1>1. /\ calls[i].phase = "none" /\ calls'[i].phase = "sent" /\ UNCHANGED server
      /\ \A j \in CallIds \ {i} : calls'[j] = calls[j]
      /\ MayChange \/ (c = "join" /\ server.role # "none")
      /\ DOMAIN ctl' = DOMAIN ctl
  BY DEF Departs
<1>2. Unserved' = {j \in CallIds : calls'[j].phase \in {"sent", "admitted"}}
  BY DEF Unserved, Flying
<1>3. Unserved' = Unserved \cup {i} /\ i \notin Unserved
  BY <1>1, <1>2, UnservedSize
<1>4. Cardinality(Unserved') = Cardinality(Unserved) + 1 /\ Cardinality(Unserved) \in Nat
  BY <1>3, UnservedSize, FS_AddElement
<1>5. server.version \in Nat /\ Highest \in Nat
  BY HighestIsNat DEF FormsInv, NameInv
<1>6. CASE MayChange
  <2>1. server.version + Cardinality(Unserved) < Highest
    BY <1>6 DEF MayChange
  <2> QED
    BY <1>1, <1>4, <1>5, <2>1, HighestStays DEF BoundInv
<1>7. CASE c = "join" /\ server.role # "none"
  BY <1>1, <1>7, PageControls, HighestStays DEF BoundInv
<1> QED
  BY <1>1, <1>6, <1>7

\* A request that changes the group uses the version that was left for it.
LEMMA BoundRun ==
    ASSUME FormsInv, BoundInv, NEW i \in CallIds, Run(i)
    PROVE  BoundInv'
<1>1. /\ OneServed(i) /\ i \in Flying /\ ServerMoves
      /\ calls[i].phase = IF HasKey(calls[i]) THEN "admitted" ELSE "sent"
      /\ calls'[i].phase = IF HasKey(calls[i]) THEN "ran" ELSE "answered"
      /\ server' = IF Refusal(calls[i]) = "ok" THEN Changed(calls[i]) ELSE server
  BY RunServes
<1>2. DOMAIN ctl' = DOMAIN ctl /\ DOMAIN calls' = CallIds /\ \A j \in CallIds \ {i} : calls'[j] = calls[j]
  BY <1>1 DEF OneServed
<1>3. CASE Refusal(calls[i]) # "ok"
  BY <1>1, <1>2, <1>3, BoundKept
<1>4. CASE Refusal(calls[i]) = "ok"
  <2>1. calls[i].control \in Controls
    BY <1>1 DEF FormsInv, KeyedCalls
  <2>2. Controls # {"join"} \/ server.role = "none"
    <3> SUFFICES ASSUME Controls = {"join"}, server.role # "none" PROVE FALSE
      OBVIOUS
    <3>1. calls[i].control = "join"
      BY <2>1
    <3>2. Refusal(calls[i]) = JoinRefusal(calls[i])
      BY <3>1 DEF Refusal
    <3> QED
      BY <1>4, <3>2 DEF JoinRefusal
  <2>3. /\ server'.role \in {"owner", "member", "none"}
        /\ Controls # {"join"} \/ server'.role = "none" => Controls # {"join"} \/ server.role = "none"
    BY <1>1, <1>4, <2>1, <2>2, PageControls DEF Changed, AllControls, BoundInv, FormsInv, Shape
  <2>4. Unserved' = {j \in CallIds : calls'[j].phase \in {"sent", "admitted"}}
    BY DEF Unserved, Flying
  <2>5. Unserved' = Unserved \ {i} /\ i \in Unserved
    BY <1>1, <1>2, <2>4, UnservedSize
  <2>6. Cardinality(Unserved') = Cardinality(Unserved) - 1 /\ Cardinality(Unserved) \in Nat
        /\ Cardinality(Unserved') \in Nat
    <3>1. IsFiniteSet(Unserved \ {i}) /\ Cardinality(Unserved \ {i}) = Cardinality(Unserved) - 1
      BY <2>5, UnservedSize, FS_RemoveElement
    <3> QED
      BY <2>5, <3>1, UnservedSize, FS_CardinalityType
  <2>7. /\ server.version \in Nat /\ Highest \in Nat
        /\ server'.version = server.version \/ server'.version = server.version + 1
    BY <1>1, HighestIsNat DEF FormsInv, NameInv, ServerMoves
  <2>8. server.version + Cardinality(Unserved) <= Highest
    BY <2>2 DEF BoundInv
  <2>9. server'.version + Cardinality(Unserved') <= Highest
    BY <2>6, <2>7, <2>8
  <2>10. server'.version <= Highest
    BY <2>6, <2>7, <2>9
  <2>11. Highest' = Highest /\ Controls' = Controls
    BY <1>2, HighestStays
  <2> QED
    BY <2>3, <2>7, <2>9, <2>10, <2>11 DEF BoundInv
<1> QED
  BY <1>3, <1>4

\* Another user acts while there is room for what the requests may change.
LEMMA BoundElsewhere == ASSUME FormsInv, BoundInv, Elsewhere PROVE BoundInv'
<1>1. /\ ServerMoves /\ UNCHANGED <<ctl, calls>>
      /\ server.version + Cardinality(Unserved) + 1 < Highest
  BY ElsewhereMoves DEF Elsewhere
<1>2. Unserved' = Unserved /\ Highest' = Highest /\ Controls' = Controls
  BY <1>1, HighestStays DEF Unserved, Flying
<1>3. /\ server.version \in Nat /\ Highest \in Nat /\ Cardinality(Unserved) \in Nat
      /\ server'.version = server.version \/ server'.version = server.version + 1
  BY <1>1, HighestIsNat, UnservedSize DEF FormsInv, NameInv, ServerMoves
<1>4. server'.role \in {"owner", "member", "none"}
  BY DEF Elsewhere, BoundInv, FormsInv, Shape
<1>5. server'.version + Cardinality(Unserved) <= Highest
  BY <1>1, <1>3
<1>6. server'.version <= Highest
  BY <1>3, <1>5
<1> QED
  BY <1>2, <1>3, <1>4, <1>5, <1>6 DEF BoundInv

\* Every step keeps room for what the requests may change.
LEMMA BoundStep == ASSUME FormsInv, BoundInv, [Next]_vars PROVE BoundInv'
<1>1. Shape
  BY DEF FormsInv
<1>2. CallsGoOn => \A i \in CallIds :
         calls'[i].phase \in {"sent", "admitted"} => calls[i].phase \in {"sent", "admitted"}
  BY NoCallIsNone DEF CallsGoOn, Onward, NoCallFields
<1>3. CASE Sending
  BY <1>3, SendingDeparts, BoundDeparts
<1>4. CASE Quiet
  BY <1>1, <1>2, <1>4, QuietGoesOn, QuietControls, BoundKept DEF ControlsKept, CallsGoOn
<1>5. CASE UNCHANGED vars
  BY <1>1, <1>2, <1>5, UnchangedGoOn, BoundKept DEF vars, CallsGoOn
<1>6. ASSUME NEW i \in CallIds, GiveUp(i) \/ Refused(i) \/ Accepted(i) \/ Settled(i) \/ Vanish(i)
      PROVE  BoundInv'
  BY <1>1, <1>2, <1>6, EndingGoesOn, EndingControls, BoundKept DEF ControlsKept, CallsGoOn
<1>7. ASSUME NEW result, ReadDetail(result) \/ ReadRoster(result) PROVE BoundInv'
  BY <1>1, <1>2, <1>7, ReadsGoOn, ReadControls, BoundKept DEF ControlsKept, CallsGoOn
<1>8. ASSUME NEW i \in CallIds, LookUp(i) \/ Record(i) PROVE BoundInv'
  <2>1. OneServed(i) /\ UNCHANGED server /\ (calls'[i].phase \in {"sent", "admitted"} => calls[i].phase = "sent")
    BY <1>8, LookUpServes, RecordServes
  <2> QED
    BY <2>1, BoundKept DEF OneServed
<1> QED
  BY <1>3, <1>4, <1>5, <1>6, <1>7, <1>8, BoundRun, BoundElsewhere, StepKinds

\* Every variable has its type whatever is sent, lost or read late; a control is pending
\* exactly while it observes a request, so none spins for a request that is over or that
\* it was detached from (RotateInviteAction.tsx, GroupDetail.tsx).
THEOREM TypeCorrect == Spec => []TypeOK
<1>1. FormsInv /\ LinkInv /\ Pending /\ BoundInv => TypeOK
  <2> SUFFICES ASSUME FormsInv, LinkInv, Pending, BoundInv PROVE TypeOK
    OBVIOUS
  <2>1. server.version \in 1 .. Highest
    BY DEF FormsInv, NameInv, BoundInv
  <2>2. server.invite \in DOMAIN Links
    <3>1. Cardinality(Rotations) \in Nat /\ Len(Links) \in Nat /\ DOMAIN Links = 1 .. Len(Links)
      BY FewRotations, GroupScreenAssumption DEF Rotations
    <3> QED
      BY <3>1 DEF LinkInv
  <2>3. detail.read.tag \in 0 .. server.version /\ server.role \in {"owner", "member", "none"}
    BY DEF FormsInv, NameInv, BoundInv
  <2>4. \A i \in CallIds : calls[i].phase \in Phases /\ calls[i].gen \in 0 .. MaxAttempts
    BY DEF FormsInv, KeyedCalls
  <2>5. \A c \in Controls : (ctl[c].status = "pending") =
          (\E i \in Flying : calls[i].control = c /\ calls[i].client = "observed")
    <3>1. \A i \in CallIds : i \in Flying <=> calls[i].phase # "none"
      BY DEF Flying
    <3>2. Flying \subseteq CallIds
      BY DEF Flying
    <3> SUFFICES ASSUME NEW c \in Controls
                 PROVE  ctl[c].status = "pending" <=>
                           \E i \in Flying : calls[i].control = c /\ calls[i].client = "observed"
      OBVIOUS
    <3> QED
      BY <3>1, <3>2 DEF Pending, Heard
  <2> QED
    BY <2>1, <2>2, <2>3, <2>4, <2>5 DEF TypeOK
<1> QED
  BY <1>1, FormsInit, FormsStep, LinkInit, LinkStep, PendingInit, PendingStep, BoundInit, BoundStep,
     PTL DEF Spec
=============================================================================
