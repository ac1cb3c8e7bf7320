------------------------ MODULE ProposalScreens_proofs ------------------------
(***************************************************************************)
(* A tag vouches for its body on the proposals board, for any proposals,   *)
(* controls, requests on their way and number of changes.                  *)
(*                                                                         *)
(* The page is read in two statements, and the client changes it itself    *)
(* when a vote is answered.  The argument is that of the availability      *)
(* board, with one more step: what the client has made up carries tag 0,   *)
(* which no version is.                                                    *)
(***************************************************************************)
EXTENDS ProposalScreens, TLAPS, WellFoundedInduction

-----------------------------------------------------------------------------
(* The middleware.                                                         *)

\* Only a key without a record lets a request run the route, as long as no record
\* has an answer that reads like that.
LEMMA RunsWithoutRecord ==
    ASSUME NEW table, NEW key, NEW request, \A r \in table : r.answer # "run",
           LookedUp(table, key, request) = "run"
    PROVE  RecordsOf(table, key) = {}
<1> SUFFICES ASSUME RecordsOf(table, key) # {} PROVE FALSE
  OBVIOUS
<1>1. PICK r \in table : r.answer = "run" \/ "reuse" = "run"
  BY DEF LookedUp, RecordsOf
<1> QED
  BY <1>1

\* The middleware keeps every record, has one of the key afterwards, and adds none
\* of another key.
LEMMA StoredRecords ==
    ASSUME NEW table, NEW key, NEW request, NEW answer
    PROVE  LET after == Stored(table, key, request, answer)
           IN /\ table \subseteq after
              /\ \A r \in after : r \in table \/ (r.key = key /\ r.answer = answer)
              /\ RecordsOf(after, key) # {}
              /\ \A k : k # key => RecordsOf(after, k) = RecordsOf(table, k)
<1> DEFINE new == [key |-> key, request |-> request, answer |-> answer]
           after == Stored(table, key, request, answer)
<1>1. after = IF RecordsOf(table, key) = {} THEN table \cup {new} ELSE table
  BY DEF Stored
<1>2. new.key = key /\ new.answer = answer
  OBVIOUS
<1> HIDE DEF new, after
<1> QED
  BY <1>1, <1>2 DEF RecordsOf, after

\* A set of numbers has a least element: the slot a new request takes is free.
LEMMA LeastExists ==
    ASSUME NEW T, T \subseteq Nat, T # {}
    PROVE  \E m \in T : \A k \in T : m <= k
<1> DEFINE R == OpToRel(<, Nat)
<1>1. IsWellFoundedOn(R, Nat)
  BY NatLessThanWellFounded
<1>2. \A x, y \in Nat : y < x => <<y, x>> \in R
  BY DEF OpToRel
<1> HIDE DEF R
<1>3. PICK m \in T : \A k \in T : ~ (<<k, m>> \in R)
  BY <1>1, WFMin
<1>4. \A k \in T : m <= k
  <2> SUFFICES ASSUME NEW k \in T PROVE ~ (k < m)
    OBVIOUS
  <2>1. k \in Nat /\ m \in Nat
    OBVIOUS
  <2> QED
    BY <1>2, <1>3, <2>1
<1> QED
  BY <1>4

-----------------------------------------------------------------------------
(* The invariant.                                                          *)

\* The fields of the records that carry tags.
Shape ==
    /\ DOMAIN server = {"state", "live", "used", "limit", "votes", "version"}
    /\ DOMAIN cache = {"page", "group"}
    /\ DOMAIN pageRead = {"phase", "sent", "tag", "rows"}

\* No tag is ahead of the version, and 0 is the tag of nothing.
TagsBehind ==
    /\ server.version \in Nat \ {0} /\ cache.page.tag \in Nat
    /\ cache.group.tag \in Nat /\ pageRead.tag \in Nat
    /\ cache.page.tag <= server.version /\ cache.group.tag <= server.version
    /\ pageRead.tag <= server.version

\* Rows that were read under the current version are the current ones.
ReadVouches ==
    pageRead.phase = "answered" /\ pageRead.tag = server.version
        => pageRead.rows = Page(server)

IInv == Shape /\ TagsBehind /\ TagVouches /\ ReadVouches

-----------------------------------------------------------------------------

\* The page opens with an empty cache: no tag vouches for anything.
LEMMA ScreensInit == Init => IInv
<1> SUFFICES ASSUME Init PROVE IInv
  OBVIOUS
<1>1. PICK screen \in Screens :
        server = [state |-> "open", live |-> First, used |-> First, limit |-> screen[2],
                  votes |-> [p \in Proposals |-> "none"], version |-> 1]
  BY DEF Init
<1>2. /\ DOMAIN server = {"state", "live", "used", "limit", "votes", "version"}
      /\ server.version = 1 /\ server.state = "open"
  BY <1>1
<1>3. /\ cache = [page |-> [tag |-> 1, rows |-> Page(server)],
                  group |-> [tag |-> 1, state |-> "open"]]
      /\ pageRead = [phase |-> "idle", sent |-> 0, tag |-> 0, rows |-> <<>>]
  BY DEF Init, NoRead
<1> HIDE DEF Init
<1> QED
  BY <1>2, <1>3 DEF IInv, Shape, TagsBehind, TagVouches, ReadVouches

\* A step that leaves the server, the tags and what they stand for.
LEMMA Untouched ==
    ASSUME IInv, UNCHANGED <<server, cache, pageRead>>
    PROVE  IInv'
BY DEF IInv, Shape, TagsBehind, TagVouches, ReadVouches, Page

\* A change of the server leaves every tag behind.
LEMMA Bumped ==
    ASSUME IInv, DOMAIN server' = DOMAIN server, server'.version = server.version + 1,
           UNCHANGED <<cache, pageRead>>
    PROVE  IInv'
BY DEF IInv, Shape, TagsBehind, TagVouches, ReadVouches

\* What an operation does to the group: nothing, or a change with the next version.
LEMMA ServedBumps ==
    ASSUME Shape, NEW c, NEW op, Served(server, c, op) # server
    PROVE  /\ DOMAIN Served(server, c, op) = DOMAIN server
           /\ Served(server, c, op).version = server.version + 1
<1>1. Served(server, c, op) = [Changed(server, c, op) EXCEPT !.version = server.version + 1]
  BY DEF Served
<1>2. DOMAIN Changed(server, c, op) = DOMAIN server
  BY DEF Changed
<1> QED
  BY <1>1, <1>2 DEF Shape

\* A change of the group leaves every tag behind.
LEMMA ServerMoves ==
    ASSUME IInv, NEW c, NEW op, server' = Served(server, c, op),
           UNCHANGED <<cache, pageRead>>
    PROVE  IInv'
<1>1. CASE server' = server
  BY <1>1, Untouched
<1>2. CASE server' # server
  BY <1>2, Bumped, ServedBumps DEF IInv
<1> QED
  BY <1>1, <1>2

\* A read that starts, or whose predecessor is given up, has no tag yet.
LEMMA ReadReplaced ==
    ASSUME IInv, UNCHANGED server, DOMAIN cache' = DOMAIN cache,
           DOMAIN pageRead' = {"phase", "sent", "tag", "rows"},
           pageRead'.tag = 0, pageRead'.phase # "answered",
           cache'.page.tag \in Nat, cache'.page.tag <= server.version,
           cache'.page.tag = server.version => cache'.page.rows = Page(server),
           cache'.group.tag \in Nat, cache'.group.tag <= server.version,
           cache'.group.tag = server.version => cache'.group.state = server.state
    PROVE  IInv'
<1>1. Page(server') = Page(server)
  BY DEF Page
<1> QED
  BY <1>1 DEF IInv, Shape, TagsBehind, TagVouches, ReadVouches

\* A read of the page carries no tag before its answer.
LEMMA ReadPageTag ==
    ASSUME NEW sent
    PROVE  /\ DOMAIN ReadPage(sent) = {"phase", "sent", "tag", "rows"}
           /\ ReadPage(sent).tag = 0 /\ ReadPage(sent).phase # "answered"
BY DEF ReadPage, NoRead

\* The page is read again over the same cache.
LEMMA Reread ==
    ASSUME IInv, UNCHANGED <<server, cache>>, NEW sent, pageRead' = ReadPage(sent)
    PROVE  IInv'
BY ReadPageTag, ReadReplaced DEF IInv, TagsBehind, TagVouches

-----------------------------------------------------------------------------
(* One lemma per group of actions.                                         *)

LEMMA SendStep == ASSUME IInv, NEW c, NEW op, Send(c, op) PROVE IInv'
BY Untouched DEF Send

\* A press changes neither a cached body nor the group.
LEMMA StepOfUser == ASSUME IInv, User PROVE IInv'
<1>1. CASE \E c \in Controls : CancelPanel(c)
  BY <1>1, Untouched DEF CancelPanel
<1> QED
  BY <1>1, SendStep DEF User, Withdraw, RetryVote, Choose, PressDelete, PressConfirm,
     PressUnconfirm, ProposeSuggestion, SubmitManual

\* Run is the one step of a request that changes the group.
LEMMA StepOfRequest == ASSUME IInv, NEW i, LookUp(i) \/ Run(i) \/ Record(i) \/ Vanish(i)
                       PROVE  IInv'
<1>1. CASE Run(i)
  BY <1>1, ServerMoves DEF Run
<1>2. CASE LookUp(i) \/ Record(i) \/ Vanish(i)
  BY <1>2, Untouched DEF LookUp, Record, Vanish
<1> QED
  BY <1>1, <1>2

\* The vote that is spliced into the page takes the tag off it.
LEMMA StepOfVote == ASSUME IInv, NEW i, VoteAccepted(i) PROVE IInv'
<1> DEFINE page == IF calls[i].op = "withdraw" THEN cache.page
                   ELSE Spliced(cache.page, Subject(ControlOf(calls[i])), calls[i].op)
<1>1. /\ UNCHANGED server /\ cache' = [cache EXCEPT !.page = page]
      /\ pageRead' = ReadPage(page.tag)
  BY DEF VoteAccepted, Accepted
<1>2. page = cache.page \/ page.tag = 0
  BY DEF Spliced
<1> HIDE DEF page
<1>3. DOMAIN cache' = DOMAIN cache /\ cache'.page = page /\ cache'.group = cache.group
  BY <1>1 DEF IInv, Shape
<1>4. /\ page.tag \in Nat /\ page.tag <= server.version
      /\ page.tag = server.version => page.rows = Page(server)
  BY <1>2 DEF IInv, TagsBehind, TagVouches
<1> QED
  BY <1>1, <1>3, <1>4, ReadPageTag, ReadReplaced DEF IInv, TagsBehind, TagVouches

\* A success that splices votes into the page takes its tag away.
LEMMA StepOfEnding == ASSUME IInv, NEW i, GiveUp(i) \/ Refused(i) \/ Acceptance(i) \/ Settled(i)
                      PROVE  IInv'
<1>1. CASE GiveUp(i) \/ Settled(i) \/ ConfirmationAccepted(i)
  BY <1>1, Untouched DEF GiveUp, Settled, ConfirmationAccepted, Accepted
<1>2. CASE Refused(i)
  <2>1. /\ UNCHANGED <<server, cache>>
        /\ pageRead' = ReadPage(cache.page.tag) \/ UNCHANGED pageRead
    BY <1>2 DEF Refused
  <2> QED
    BY <2>1, Untouched, Reread
<1>3. CASE ProposalAccepted(i)
  BY <1>3, Reread DEF ProposalAccepted, Accepted
<1> QED
  BY <1>1, <1>2, <1>3, StepOfVote DEF Acceptance

\* The group is read in one instant.
LEMMA StepOfGroup == ASSUME IInv, ReadGroup PROVE IInv'
<1>1. /\ UNCHANGED server
      /\ cache' = [cache EXCEPT !.group = [tag |-> server.version, state |-> server.state]]
      /\ pageRead' = ReadPage(cache.page.tag) \/ UNCHANGED pageRead
  BY DEF ReadGroup, Rendered
<1>2. /\ DOMAIN cache' = DOMAIN cache /\ cache'.page = cache.page
      /\ cache'.group.tag = server.version /\ cache'.group.state = server.state
  BY <1>1 DEF IInv, Shape
<1>3. CASE pageRead' = ReadPage(cache.page.tag)
  BY <1>1, <1>2, <1>3, ReadPageTag, ReadReplaced DEF IInv, TagsBehind, TagVouches
<1>4. CASE UNCHANGED pageRead
  BY <1>1, <1>2, <1>4 DEF IInv, Shape, TagsBehind, TagVouches, ReadVouches, Page
<1> QED
  BY <1>1, <1>3, <1>4

\* The version is read before the rows: rows of a later version have an earlier tag.
LEMMA StepOfLoad == ASSUME IInv, LoadPage \/ AnswerPage PROVE IInv'
<1>1. CASE LoadPage
  <2>1. /\ DOMAIN pageRead' = DOMAIN pageRead /\ pageRead'.phase = "loaded"
        /\ pageRead'.tag = server.version /\ UNCHANGED <<server, cache>>
    BY <1>1 DEF LoadPage, IInv, Shape
  <2> QED
    BY <2>1 DEF IInv, Shape, TagsBehind, TagVouches, ReadVouches, Page
<1>2. CASE AnswerPage
  <2>1. /\ DOMAIN pageRead' = DOMAIN pageRead /\ pageRead'.tag = pageRead.tag
        /\ pageRead'.rows = Page(server) /\ UNCHANGED <<server, cache>>
    BY <1>2 DEF AnswerPage, IInv, Shape
  <2> QED
    BY <2>1 DEF IInv, Shape, TagsBehind, TagVouches, ReadVouches, Page
<1> QED
  BY <1>1, <1>2

\* A 304 leaves the page, a 200 brings rows with the tag that vouches for them.
LEMMA StepOfDelivery == ASSUME IInv, DeliverPage PROVE IInv'
<1> DEFINE page == IF pageRead.tag = pageRead.sent THEN cache.page
                   ELSE [tag |-> pageRead.tag, rows |-> pageRead.rows]
<1>1. /\ UNCHANGED server /\ cache' = [cache EXCEPT !.page = page]
      /\ pageRead' = NoRead /\ pageRead.phase = "answered"
  BY DEF DeliverPage, Rendered
<1>2. /\ page.tag \in Nat /\ page.tag <= server.version
      /\ page.tag = server.version => page.rows = Page(server)
  BY <1>1 DEF IInv, TagsBehind, TagVouches, ReadVouches
<1> HIDE DEF page
<1>3. DOMAIN cache' = DOMAIN cache /\ cache'.page = page /\ cache'.group = cache.group
  BY <1>1 DEF IInv, Shape
<1>4. /\ DOMAIN pageRead' = {"phase", "sent", "tag", "rows"}
      /\ pageRead'.tag = 0 /\ pageRead'.phase # "answered"
  BY <1>1 DEF NoRead
<1> QED
  BY <1>1, <1>2, <1>3, <1>4, ReadReplaced DEF IInv, TagsBehind, TagVouches

\* Each statement of a read, and its answer, keeps the tags honest.
LEMMA StepOfRead == ASSUME IInv, Reads PROVE IInv'
<1>1. CASE StartPage \/ LoseGroup
  BY <1>1, Reread DEF StartPage, LoseGroup
<1>2. CASE LosePage
  <2>1. /\ DOMAIN pageRead' = {"phase", "sent", "tag", "rows"}
        /\ pageRead'.tag = 0 /\ pageRead'.phase # "answered"
        /\ UNCHANGED <<server, cache>>
    BY <1>2 DEF LosePage, NoRead
  <2> QED
    BY <2>1, ReadReplaced DEF IInv, TagsBehind, TagVouches
<1> QED
  BY <1>1, <1>2, StepOfGroup, StepOfLoad, StepOfDelivery DEF Reads

\* What other users and the middleware do leaves the tags behind, or alone.
LEMMA StepOfOthers == ASSUME IInv, Others PROVE IInv'
BY ServerMoves DEF Others, Elsewhere

\* Every step of the page keeps the tags honest.
LEMMA ScreensStep == ASSUME IInv, [Next]_vars PROVE IInv'
<1>1. CASE UNCHANGED vars
  BY <1>1, Untouched DEF vars
<1> QED
  BY <1>1, StepOfUser, StepOfRequest, StepOfEnding, StepOfRead, StepOfOthers
  DEF Next, Requests, Endings

\* A cached page, or group, whose tag is the current version is the current one, votes
\* spliced into it included: a 304 never confirms what the client made up
\* (voteMutations.ts, spliceProposal).
THEOREM TagVouchesHolds == Spec => []TagVouches
<1>1. IInv => TagVouches
  BY DEF IInv
<1> QED
  BY <1>1, ScreensInit, ScreensStep, PTL DEF Spec

-----------------------------------------------------------------------------
(* A key changes the group once, for any number of requests with it: what  *)
(* the middleware knows about a key between the lookup and the record.     *)

CallFields ==
    /\ DOMAIN calls = CallIds
    /\ \A i \in CallIds : DOMAIN calls[i] = {"phase", "key", "op", "answer", "client"}
    /\ DOMAIN effects = {"once", "twice", "raced"}

\* Requests between the lookup that let them run and the record.
Past(i) == calls[i].phase \in {"admitted", "ran"}

\* An answer is never taken for the leave to run.
AnswersAreAnswers ==
    /\ \A r \in records : r.answer # "run"
    /\ \A i \in CallIds : calls[i].phase = "ran" => calls[i].answer # "run"

\* Requests of one key race only when that is noted.
OneAtATime ==
    \A i, j \in CallIds :
        i # j /\ Past(i) /\ Past(j) /\ calls[i].key = calls[j].key
            => calls[i].key \in effects.raced

\* A record keeps further requests out.
RecordShuts ==
    \A i \in CallIds : Past(i) /\ RecordsOf(records, calls[i].key) # {}
        => calls[i].key \in effects.raced

\* A change is on record, or the request that made it is about to store one.
ChangeIsKept ==
    \A k \in effects.once \ effects.raced :
        \/ RecordsOf(records, k) # {}
        \/ \E i \in CallIds : calls[i].phase = "ran" /\ calls[i].key = k

KeysInv == CallFields /\ AnswersAreAnswers /\ OneAtATime /\ RecordShuts /\ ChangeIsKept /\ OncePerKey

\* No key has a record, and none has had an effect.
LEMMA KeysInit == Init => KeysInv
<1> SUFFICES ASSUME Init PROVE KeysInv
  OBVIOUS
<1>1. /\ records = {} /\ calls = [i \in CallIds |-> NoCall]
      /\ effects = [once |-> {}, twice |-> {}, raced |-> {}]
  BY DEF Init
<1>2. /\ DOMAIN NoCall = {"phase", "key", "op", "answer", "client"}
      /\ NoCall.phase = "none"
  BY DEF NoCall
<1> HIDE DEF Init
<1> QED
  BY <1>1, <1>2 DEF KeysInv, CallFields, AnswersAreAnswers, OneAtATime, RecordShuts,
     ChangeIsKept, OncePerKey, Past

\* A step that starts or ends no request and stores nothing.
CallsAsBefore ==
    /\ DOMAIN calls' = CallIds
    /\ \A i \in CallIds :
          /\ DOMAIN calls'[i] = {"phase", "key", "op", "answer", "client"}
          /\ Past(i)' \/ calls[i].phase = "ran" =>
                /\ calls'[i].phase = calls[i].phase /\ calls'[i].key = calls[i].key
                /\ calls'[i].answer = calls[i].answer

\* A step that runs nothing and stores nothing keeps what is known of the keys.
LEMMA KeysCalm ==
    ASSUME KeysInv, UNCHANGED <<records, effects>>, CallsAsBefore
    PROVE  KeysInv'
BY DEF KeysInv, CallsAsBefore, CallFields, AnswersAreAnswers, OneAtATime, RecordShuts,
   ChangeIsKept, OncePerKey, Past, RecordsOf

\* Forgetting the keys that no control and no request has any more.
LEMMA KeysForgotten ==
    ASSUME KeysInv, CallsAsBefore, NEW S,
           \A i \in CallIds : calls[i].phase # "none" => calls[i].key \in S,
           records' = {r \in records : r.key \in S},
           effects' = [h \in DOMAIN effects |-> effects[h] \cap S]
    PROVE  KeysInv'
<1>1. /\ DOMAIN effects' = {"once", "twice", "raced"}
      /\ effects'.once = effects.once \cap S /\ effects'.twice = effects.twice \cap S
      /\ effects'.raced = effects.raced \cap S
  BY DEF KeysInv, CallFields
<1>2. \A i \in CallIds : Past(i)' => Past(i) /\ calls'[i].key = calls[i].key /\ calls[i].key \in S
  BY DEF CallsAsBefore, Past
<1>3. CallFields' /\ AnswersAreAnswers'
  BY <1>1 DEF KeysInv, CallFields, CallsAsBefore, AnswersAreAnswers, Past
<1>4. OneAtATime'
  BY <1>1, <1>2 DEF KeysInv, OneAtATime
<1>5. RecordShuts'
  BY <1>1, <1>2 DEF KeysInv, RecordShuts, RecordsOf
<1>6. ChangeIsKept'
  <2> SUFFICES ASSUME NEW k \in effects'.once \ effects'.raced
               PROVE  \/ RecordsOf(records', k) # {}
                      \/ \E i \in CallIds : calls'[i].phase = "ran" /\ calls'[i].key = k
    BY DEF ChangeIsKept, RecordsOf
  <2>1. k \in effects.once \ effects.raced /\ k \in S
    BY <1>1
  <2>2. CASE RecordsOf(records, k) # {}
    BY <2>1, <2>2 DEF RecordsOf
  <2>3. CASE \E i \in CallIds : calls[i].phase = "ran" /\ calls[i].key = k
    BY <2>3 DEF CallsAsBefore
  <2> QED
    BY <2>1, <2>2, <2>3 DEF KeysInv, ChangeIsKept
<1>7. OncePerKey'
  BY <1>1 DEF KeysInv, OncePerKey
<1> QED
  BY <1>3, <1>4, <1>5, <1>6, <1>7 DEF KeysInv

\* The lookup admits a request only when its key has no record.
LEMMA KeysLookUp == ASSUME KeysInv, NEW i \in CallIds, LookUp(i) PROVE KeysInv'
<1> DEFINE key == calls[i].key
           found == LookedUp(records, key, calls[i].op)
           racing == \E j \in Twins(i) : Past(j)
<1>1. /\ calls[i].phase = "sent" /\ UNCHANGED records
      /\ calls' = [calls EXCEPT ![i] =
           IF found = "run" THEN [calls[i] EXCEPT !.phase = "admitted"]
           ELSE [calls[i] EXCEPT !.phase = "answered", !.answer = found]]
      /\ effects' = IF found = "run" /\ racing
                    THEN [effects EXCEPT !.raced = @ \cup {key}] ELSE effects
  BY DEF LookUp, Move, Past
<1>2. CallFields
  BY DEF KeysInv
<1>3. CASE found # "run"
  <2>1. CallsAsBefore /\ UNCHANGED effects
    BY <1>1, <1>2, <1>3 DEF CallsAsBefore, CallFields, Past
  <2> QED
    BY <1>1, <2>1, KeysCalm
<1>4. CASE found = "run"
  <2>1. RecordsOf(records, key) = {}
    BY <1>4, RunsWithoutRecord DEF KeysInv, AnswersAreAnswers
  <2>2. /\ calls'[i].phase = "admitted" /\ calls'[i].key = key
        /\ \A j \in CallIds \ {i} : calls'[j] = calls[j]
        /\ CallFields'
    BY <1>1, <1>2, <1>4 DEF CallFields
  <2>3. /\ effects'.once = effects.once /\ effects'.twice = effects.twice
        /\ effects.raced \subseteq effects'.raced /\ effects'.raced \subseteq effects.raced \cup {key}
        /\ racing => key \in effects'.raced
    BY <1>1, <1>2, <1>4 DEF CallFields
  <2>4. \A j \in CallIds \ {i} : Past(j) /\ calls[j].key = key => racing
    BY DEF Twins, Flying, Past
  <2> HIDE DEF racing, key, found
  <2>5. AnswersAreAnswers'
    BY <1>1, <2>2 DEF KeysInv, AnswersAreAnswers
  <2>6. OneAtATime'
    BY <2>2, <2>3, <2>4 DEF KeysInv, OneAtATime, Past
  <2>7. RecordShuts'
    BY <1>1, <2>1, <2>2, <2>3 DEF KeysInv, RecordShuts, Past
  <2>8. ChangeIsKept' /\ OncePerKey'
    BY <1>1, <2>2, <2>3 DEF KeysInv, ChangeIsKept, OncePerKey
  <2> QED
    BY <2>2, <2>5, <2>6, <2>7, <2>8 DEF KeysInv
<1> QED
  BY <1>3, <1>4

\* A route that changes the group leaves the change to its record.
LEMMA KeysRun == ASSUME KeysInv, NEW i \in CallIds, Run(i) PROVE KeysInv'
<1> DEFINE key == calls[i].key
           refusal == Refusal(server, ControlOf(calls[i]), calls[i].op)
<1>1. /\ calls[i].phase = "admitted" /\ UNCHANGED records
      /\ calls' = [calls EXCEPT ![i] = [calls[i] EXCEPT !.phase = "ran", !.answer = refusal]]
      /\ \/ effects' = effects
         \/ effects' = [effects EXCEPT !.once = @ \cup {key},
                          !.twice = IF key \in effects.once THEN @ \cup {key} ELSE @]
  BY DEF Run, Move
<1>2. refusal # "run"
  BY DEF Refusal
<1> HIDE DEF refusal
<1>3. CallFields
  BY DEF KeysInv
<1>4. /\ calls'[i].phase = "ran" /\ calls'[i].key = key /\ calls'[i].answer = refusal
      /\ \A j \in CallIds \ {i} : calls'[j] = calls[j]
      /\ CallFields'
  BY <1>1, <1>3 DEF CallFields
<1>5. /\ effects'.raced = effects.raced /\ effects.once \subseteq effects'.once
      /\ effects'.once \subseteq effects.once \cup {key}
      /\ effects'.twice \subseteq effects.twice \cup (effects.once \cap {key})
  <2>1. CASE effects' = effects
    BY <2>1
  <2>2. CASE effects' = [effects EXCEPT !.once = @ \cup {key},
                           !.twice = IF key \in effects.once THEN @ \cup {key} ELSE @]
    <3>1. /\ effects'.raced = effects.raced /\ effects'.once = effects.once \cup {key}
          /\ effects'.twice = IF key \in effects.once THEN effects.twice \cup {key}
                              ELSE effects.twice
      BY <1>3, <2>2 DEF CallFields
    <3> HIDE DEF key
    <3> QED
      BY <3>1
  <2> QED
    BY <1>1, <2>1, <2>2
<1>6. key \in effects.once => key \in effects.raced
  <2> SUFFICES ASSUME key \in effects.once \ effects.raced PROVE FALSE
    OBVIOUS
  <2>1. RecordsOf(records, key) = {}
    BY <1>1 DEF KeysInv, RecordShuts, Past
  <2>2. PICK j \in CallIds : calls[j].phase = "ran" /\ calls[j].key = key
    BY <2>1 DEF KeysInv, ChangeIsKept
  <2> QED
    BY <1>1, <2>2 DEF KeysInv, OneAtATime, Past
<1> HIDE DEF key
<1>7. AnswersAreAnswers'
  BY <1>1, <1>2, <1>4 DEF KeysInv, AnswersAreAnswers
<1>8. OneAtATime' /\ RecordShuts'
  BY <1>1, <1>4, <1>5 DEF KeysInv, OneAtATime, RecordShuts, Past, key
<1>9. ChangeIsKept'
  BY <1>1, <1>4, <1>5 DEF KeysInv, ChangeIsKept
<1>10. OncePerKey'
  BY <1>5, <1>6 DEF KeysInv, OncePerKey
<1> QED
  BY <1>4, <1>7, <1>8, <1>9, <1>10 DEF KeysInv

\* The record is stored by the request that ran, before another can be admitted.
LEMMA KeysRecord == ASSUME KeysInv, NEW i \in CallIds, Record(i) PROVE KeysInv'
<1> DEFINE key == calls[i].key
<1>1. /\ calls[i].phase = "ran" /\ UNCHANGED effects
      /\ records' = Stored(records, key, calls[i].op, calls[i].answer)
  BY DEF Record
<1>2. CallFields
  BY DEF KeysInv
<1>3. /\ calls'[i].phase = "answered"
      /\ \A j \in CallIds \ {i} : calls'[j] = calls[j]
      /\ CallFields'
  BY <1>1, <1>2 DEF Record, Move, CallFields
<1>4. calls[i].answer # "run"
  BY <1>1 DEF KeysInv, AnswersAreAnswers
<1>5. /\ \A r \in records' : r \in records \/ r.answer = calls[i].answer
      /\ RecordsOf(records', key) # {}
      /\ \A k : k # key => RecordsOf(records', k) = RecordsOf(records, k)
  BY <1>1, StoredRecords
<1>6. AnswersAreAnswers'
  BY <1>3, <1>4, <1>5 DEF KeysInv, AnswersAreAnswers
<1>7. OneAtATime'
  BY <1>1, <1>3 DEF KeysInv, OneAtATime, Past
<1>8. RecordShuts'
  <2> SUFFICES ASSUME NEW j \in CallIds, Past(j)', RecordsOf(records', calls'[j].key) # {}
               PROVE  calls[j].key \in effects.raced
    BY <1>1, <1>3 DEF RecordShuts, RecordsOf, Past
  <2>1. j # i /\ Past(j) /\ calls'[j] = calls[j]
    BY <1>3 DEF Past
  <2>2. CASE calls[j].key = key
    BY <1>1, <2>1, <2>2 DEF KeysInv, OneAtATime, Past
  <2>3. CASE calls[j].key # key
    <3>1. RecordsOf(records, calls[j].key) # {}
      BY <1>5, <2>1, <2>3
    <3> QED
      BY <2>1, <3>1 DEF KeysInv, RecordShuts
  <2> QED
    BY <2>2, <2>3
<1>9. ChangeIsKept'
  <2> SUFFICES ASSUME NEW k \in effects.once \ effects.raced
               PROVE  \/ RecordsOf(records', k) # {}
                      \/ \E j \in CallIds : calls'[j].phase = "ran" /\ calls'[j].key = k
    BY <1>1 DEF ChangeIsKept, RecordsOf
  <2>1. CASE k = key
    BY <1>5, <2>1
  <2>2. CASE k # key
    <3>1. \/ RecordsOf(records, k) # {}
          \/ \E j \in CallIds \ {i} : calls[j].phase = "ran" /\ calls[j].key = k
      BY <2>2 DEF KeysInv, ChangeIsKept
    <3> QED
      BY <1>3, <1>5, <2>2, <3>1
  <2> QED
    BY <2>1, <2>2
<1>10. OncePerKey'
  BY <1>1 DEF KeysInv, OncePerKey
<1> QED
  BY <1>3, <1>6, <1>7, <1>8, <1>9, <1>10 DEF KeysInv

\* A request that dies between its lookup and its record is noted.
LEMMA KeysVanish == ASSUME KeysInv, NEW i \in CallIds, Vanish(i) PROVE KeysInv'
<1> DEFINE key == calls[i].key
<1>1. /\ UNCHANGED records /\ calls' = [calls EXCEPT ![i] = NoCall]
      /\ effects' = IF Past(i) THEN [effects EXCEPT !.raced = @ \cup {key}] ELSE effects
  BY DEF Vanish, Move, Past
<1>2. CallFields
  BY DEF KeysInv
<1>3. /\ calls'[i].phase = "none"
      /\ \A j \in CallIds \ {i} : calls'[j] = calls[j]
      /\ CallFields'
  BY <1>1, <1>2 DEF CallFields, NoCall
<1>4. /\ effects'.once = effects.once /\ effects'.twice = effects.twice
      /\ effects.raced \subseteq effects'.raced
      /\ Past(i) => key \in effects'.raced
  BY <1>1, <1>2 DEF CallFields
<1> HIDE DEF key
<1>5. AnswersAreAnswers' /\ OneAtATime' /\ RecordShuts' /\ OncePerKey'
  BY <1>1, <1>3, <1>4 DEF KeysInv, AnswersAreAnswers, OneAtATime, RecordShuts, OncePerKey, Past
<1>6. ChangeIsKept'
  BY <1>1, <1>3, <1>4 DEF KeysInv, ChangeIsKept, Past, key
<1> QED
  BY <1>3, <1>5, <1>6 DEF KeysInv

\* A new request has run nothing yet.
LEMMA KeysSend == ASSUME KeysInv, NEW c, NEW op, Send(c, op) PROVE KeysInv'
<1> DEFINE call == [phase |-> "sent", key |-> KeyOf(c, op), op |-> op,
                    answer |-> "none", client |-> "observed"]
           i == CHOOSE j \in CallIds \ Flying(calls) :
                  \A k \in CallIds \ Flying(calls) : j <= k
<1>1. UNCHANGED <<records, effects>> /\ calls' = [calls EXCEPT ![i] = call]
  BY DEF Send
<1>2. CallFields
  BY DEF KeysInv
<1>3. \A j \in CallIds : calls'[j] = calls[j] \/ calls'[j] = call
  BY <1>1, <1>2 DEF CallFields
<1>4. i \in CallIds /\ calls[i].phase = "none"
  <2>1. CallIds \ Flying(calls) # {} /\ CallIds \subseteq Nat
    BY ScreenAssumption DEF Send, Flying
  <2>2. \E j \in CallIds \ Flying(calls) : \A k \in CallIds \ Flying(calls) : j <= k
    BY <2>1, LeastExists
  <2>3. i \in CallIds \ Flying(calls)
    BY <2>2
  <2> QED
    BY <2>3 DEF Flying
<1> HIDE DEF i
<1>5. /\ call.phase = "sent" /\ DOMAIN call = {"phase", "key", "op", "answer", "client"}
  OBVIOUS
<1> HIDE DEF call
<1>6. CallsAsBefore
  BY <1>1, <1>2, <1>3, <1>4, <1>5 DEF CallsAsBefore, CallFields, Past
<1> QED
  BY <1>1, <1>6, KeysCalm

\* A press sends a request or sends none.
LEMMA KeysUser == ASSUME KeysInv, User PROVE KeysInv'
<1>1. CASE \E c \in Controls : CancelPanel(c)
  <2>1. CallsAsBefore /\ UNCHANGED <<records, effects>>
    BY <1>1 DEF CancelPanel, CallsAsBefore, KeysInv, CallFields
  <2> QED
    BY <2>1, KeysCalm
<1> QED
  BY <1>1, KeysSend DEF User, Withdraw, RetryVote, Choose, PressDelete, PressConfirm,
     PressUnconfirm, ProposeSuggestion, SubmitManual

\* The end of a request forgets nothing about its key.
LEMMA KeysEnding ==
    ASSUME KeysInv, NEW i \in CallIds, GiveUp(i) \/ Refused(i) \/ Acceptance(i) \/ Settled(i)
    PROVE  KeysInv'
<1>1. UNCHANGED <<records, effects>>
  BY DEF GiveUp, Refused, Acceptance, VoteAccepted, ProposalAccepted, ConfirmationAccepted,
     Accepted, Settled
<1>2. CallFields /\ DOMAIN NoCall = {"phase", "key", "op", "answer", "client"} /\ NoCall.phase = "none"
  BY DEF KeysInv, NoCall
<1>3. CASE GiveUp(i)
  BY <1>1, <1>2, <1>3, KeysCalm DEF GiveUp, Move, CallsAsBefore, CallFields
<1>4. CASE Refused(i) \/ Settled(i)
  <2>1. calls' = [calls EXCEPT ![i] = NoCall] /\ calls[i].phase \in {"answered", "settled"}
    BY <1>4 DEF Refused, Settled, Move
  <2>2. CallsAsBefore
    BY <1>2, <2>1 DEF CallsAsBefore, CallFields, Past
  <2> QED
    BY <1>1, <2>2, KeysCalm
<1>5. CASE Acceptance(i)
  <2>1. PICK next \in {"page", "group"} : Accepted(i, next)
    BY <1>5 DEF Acceptance, VoteAccepted, ProposalAccepted, ConfirmationAccepted
  <2>2. CallsAsBefore
    BY <1>2, <2>1 DEF Accepted, Move, CallsAsBefore, CallFields, Past
  <2> QED
    BY <1>1, <2>2, KeysCalm
<1> QED
  BY <1>3, <1>4, <1>5

\* What waits for a read goes on; requests on the server are not touched.
LEMMA AwaitedCalls ==
    ASSUME CallFields, NEW from \in {"page", "group"}, NEW to \in {"page", "settled"}
    PROVE  LET cs == Awaited(from, to)
           IN /\ DOMAIN cs = CallIds
              /\ \A i \in CallIds :
                    /\ DOMAIN cs[i] = {"phase", "key", "op", "answer", "client"}
                    /\ cs[i].key = calls[i].key /\ cs[i].answer = calls[i].answer
                    /\ cs[i].phase = calls[i].phase
                       \/ (cs[i].phase = to /\ calls[i].phase = from)
BY DEF Awaited, CallFields

\* Rendering forgets the keys of the controls it unmounts, but for requests that go on.
LEMMA KeysRendered ==
    ASSUME KeysInv, NEW reads, NEW from \in {"page", "group"}, NEW to \in {"page", "settled"},
           Rendered(reads, ctl, Awaited(from, to))
    PROVE  KeysInv'
<1> DEFINE cs == Awaited(from, to)
           gone == {c \in DOMAIN ctl : ~Mounted(c, reads)}
           fresh == [c \in DOMAIN ctl |->
                       IF c \in gone THEN NewControl(UnusedGen(c, cs)) ELSE ctl[c]]
           Known(key) == \/ key[3] = fresh[key[1]].gen /\ key[1] \notin gone
                         \/ \E i \in Flying(cs) : cs[i].key = key
           sent == {calls[i].key : i \in CallIds}
           keys == {r.key : r \in records} \cup sent \cup (UNION {effects[h] : h \in DOMAIN effects})
           S == {k \in keys : Known(k)}
<1>1. /\ calls' = [i \in CallIds |->
            IF cs[i].client = "observed" /\ ControlOf(cs[i]) \in gone
            THEN [cs[i] EXCEPT !.client = "unobserved"] ELSE cs[i]]
      /\ records' = {r \in records : Known(r.key)}
      /\ effects' = [h \in DOMAIN effects |-> {k \in effects[h] : Known(k)}]
  BY DEF Rendered
<1>2. CallFields
  BY DEF KeysInv
<1>3. /\ DOMAIN cs = CallIds
      /\ \A i \in CallIds :
            /\ DOMAIN cs[i] = {"phase", "key", "op", "answer", "client"}
            /\ cs[i].key = calls[i].key /\ cs[i].answer = calls[i].answer
            /\ cs[i].phase = calls[i].phase \/ (cs[i].phase = to /\ calls[i].phase = from)
  BY <1>2, AwaitedCalls
<1> HIDE DEF cs, gone, fresh
<1>4. \A i \in CallIds : calls[i].phase # "none" => calls[i].key \in S
  <2> SUFFICES ASSUME NEW i \in CallIds, calls[i].phase # "none" PROVE calls[i].key \in S
    OBVIOUS
  <2>1. i \in Flying(cs) /\ cs[i].key = calls[i].key
    BY <1>3 DEF Flying
  <2>2. calls[i].key \in sent
    OBVIOUS
  <2>3. Known(calls[i].key)
    BY <2>1
  <2> HIDE DEF sent, Known
  <2>4. calls[i].key \in keys
    BY <2>2
  <2> HIDE DEF keys
  <2> QED
    BY <2>3, <2>4
<1>5. CallsAsBefore
  BY <1>1, <1>3 DEF CallsAsBefore, Past
<1>6. records' = {r \in records : r.key \in S}
  BY <1>1
<1>7. effects' = [h \in DOMAIN effects |-> effects[h] \cap S]
  BY <1>1
<1> HIDE DEF S
<1> QED
  BY <1>4, <1>5, <1>6, <1>7, KeysForgotten

\* Reads know no keys.
LEMMA KeysRead == ASSUME KeysInv, Reads PROVE KeysInv'
<1>1. CASE ReadGroup \/ DeliverPage
  BY <1>1, KeysRendered DEF ReadGroup, DeliverPage
<1>2. CASE LoseGroup \/ LosePage
  <2>1. PICK from \in {"page", "group"}, to \in {"page", "settled"} : calls' = Awaited(from, to)
    BY <1>2 DEF LoseGroup, LosePage
  <2>2. CallFields
    BY DEF KeysInv
  <2>3. CallsAsBefore
    BY <2>1, <2>2, AwaitedCalls DEF CallsAsBefore, Past
  <2>4. UNCHANGED <<records, effects>>
    BY <1>2 DEF LoseGroup, LosePage
  <2> QED
    BY <2>3, <2>4, KeysCalm
<1>3. CASE StartPage \/ LoadPage \/ AnswerPage
  <2>1. UNCHANGED <<records, effects, calls>>
    BY <1>3 DEF StartPage, LoadPage, AnswerPage
  <2> QED
    BY <2>1, KeysCalm DEF CallsAsBefore, KeysInv, CallFields
<1> QED
  BY <1>1, <1>2, <1>3 DEF Reads

\* Every step keeps what is known of the keys.
LEMMA KeysStep == ASSUME KeysInv, [Next]_vars PROVE KeysInv'
<1>1. CASE Others \/ UNCHANGED vars
  <2>1. UNCHANGED <<records, effects, calls>>
    BY <1>1 DEF Others, Elsewhere, vars
  <2> QED
    BY <2>1, KeysCalm DEF CallsAsBefore, KeysInv, CallFields
<1> QED
  BY <1>1, KeysUser, KeysLookUp, KeysRun, KeysRecord, KeysVanish, KeysEnding, KeysRead
  DEF Next, Requests, Endings

\* A retry is the same request: whatever the user presses and the network loses, a
\* key changes the group a second time only when two of its requests were past the
\* lookup at one time or one died before its record (idempotency.py).
THEOREM OncePerKeyHolds == Spec => []OncePerKey
<1>1. KeysInv => OncePerKey
  BY DEF KeysInv
<1> QED
  BY <1>1, KeysInit, KeysStep, PTL DEF Spec
=============================================================================
