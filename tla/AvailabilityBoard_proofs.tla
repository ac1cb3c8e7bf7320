----------------------- MODULE AvailabilityBoard_proofs -----------------------
(***************************************************************************)
(* Three proofs about the availability screen, for any members, cells,     *)
(* windows and number of changes: a tag vouches for its body, unsaved work *)
(* is never overwritten, and "saved" is true of the stored answer.         *)
(*                                                                         *)
(* TagVouches speaks of what is in the cache.  It is inductive once the    *)
(* read on its way is described as well: a read that has loaded the slots, *)
(* or the whole matrix, under the current version has the current ones,    *)
(* and no tag is ahead of the version.  Any change of the server then      *)
(* leaves every tag behind, because it bumps the version.                  *)
(***************************************************************************)
EXTENDS AvailabilityBoard, TLAPS

\* The fields of the records that carry tags.
Shape ==
    /\ DOMAIN server = {"slots", "marks", "responded", "state", "version", "by"}
    /\ DOMAIN cache = {"me", "meMissed", "matrix", "group"}
    /\ DOMAIN matrixRead = {"phase", "sent", "tag", "body"}

\* No tag is ahead of the version.
TagsBehind ==
    /\ server.version \in Nat /\ cache.matrix.tag \in Nat
    /\ cache.group.tag \in Nat /\ matrixRead.tag \in Nat
    /\ cache.matrix.tag <= server.version /\ cache.group.tag <= server.version
    /\ matrixRead.tag <= server.version

\* What a read on its way holds under the current version is current.
ReadVouches ==
    matrixRead.tag = server.version =>
        /\ matrixRead.phase = "loaded" => matrixRead.body = server.slots
        /\ matrixRead.phase = "answered" /\ ~NotModified =>
              matrixRead.body = Matrix(server, server.slots)

IInv == Shape /\ TagsBehind /\ TagVouches /\ ReadVouches

-----------------------------------------------------------------------------

\* The screen opens with an empty cache: no tag vouches for anything.
LEMMA BoardInit == Init => IInv
BY DEF Init, NoMatrixRead, IInv, Shape, TagsBehind, TagVouches, ReadVouches

\* A step that touches neither the server, nor the tags and what they stand for.
LEMMA Untouched ==
    ASSUME IInv, UNCHANGED <<server, matrixRead>>, DOMAIN cache' = DOMAIN cache,
           cache'.matrix = cache.matrix, cache'.group = cache.group
    PROVE  IInv'
BY DEF IInv, Shape, TagsBehind, TagVouches, ReadVouches, Matrix, NotModified

\* A change of the server: every tag is behind it.
LEMMA Bumped ==
    ASSUME IInv, DOMAIN server' = DOMAIN server, server'.version = server.version + 1,
           UNCHANGED <<cache, matrixRead>>
    PROVE  IInv'
BY DEF IInv, Shape, TagsBehind, TagVouches, ReadVouches

\* A read that starts, or that replaces another: it carries no tag yet.
LEMMA ReadStarted ==
    ASSUME IInv, UNCHANGED <<server, cache>>,
           DOMAIN matrixRead' = {"phase", "sent", "tag", "body"},
           matrixRead'.tag = 0, matrixRead'.phase \in {"idle", "sent"}
    PROVE  IInv'
<1>1. Shape' /\ TagsBehind' /\ ReadVouches'
  BY DEF IInv, Shape, TagsBehind, ReadVouches
<1>2. TagVouches'
  BY DEF IInv, TagVouches, Matrix
<1> QED
  BY <1>1, <1>2 DEF IInv

\* Starting a read of the matrix.
LEMMA ReadSent ==
    ASSUME IInv, UNCHANGED <<server, cache>>,
           matrixRead' = MatrixAgain
    PROVE  IInv'
<1>1. DOMAIN matrixRead' = {"phase", "sent", "tag", "body"}
  BY DEF MatrixAgain, NoMatrixRead
<1>2. matrixRead'.tag = 0 /\ matrixRead'.phase = "sent"
  BY DEF MatrixAgain, NoMatrixRead
<1> QED
  BY <1>1, <1>2, ReadStarted

\* A press or a navigation changes neither a cached body nor the server.
LEMMA StepOfUser == ASSUME IInv, User PROVE IInv'
<1>1. CASE ReloadGrid
  BY <1>1, ReadSent DEF ReloadGrid
<1>2. ASSUME ~ReloadGrid PROVE UNCHANGED <<server, cache, matrixRead>>
  BY <1>2 DEF User, PressKey, Drag, Apply, Discard, PressSave, Reopen
<1> QED
  BY <1>1, <1>2, Untouched

\* What a save stores bumps the version.
LEMMA StoredBumps ==
    ASSUME IInv, NEW sv, NEW by, server' = Stored(sv, by), UNCHANGED <<cache, matrixRead>>
    PROVE  IInv'
<1>1. CASE sv.recorded = "none" /\ SaveAnswer(sv) = "saved"
  <2>1. DOMAIN server' = DOMAIN server /\ server'.version = server.version + 1
    BY <1>1 DEF Stored, IInv, Shape
  <2> QED
    BY <2>1, Bumped
<1>2. CASE ~(sv.recorded = "none" /\ SaveAnswer(sv) = "saved")
  BY <1>2, Untouched DEF Stored
<1> QED
  BY <1>1, <1>2

\* The steps of a save that change the server, or what is read of it.
LEMMA StepOfSave == ASSUME IInv, Saving PROVE IInv'
<1>1. CASE HandleSave \/ HandleLeft
  BY <1>1, StoredBumps DEF HandleSave, HandleLeft
<1>2. CASE SaveAccepted
  BY <1>2, ReadSent DEF SaveAccepted, Invalidated
<1>3. CASE SaveLost \/ SaveRefused \/ SaveSettled
  BY <1>3, Untouched DEF SaveLost, SaveRefused, SaveSettled
<1>4. CASE EndLeft
  BY <1>4, Untouched, ReadSent DEF EndLeft, Invalidated
<1> QED
  BY <1>1, <1>2, <1>3, <1>4 DEF Saving

\* The reads of the own selection.
LEMMA StepOfMe ==
    ASSUME IInv, StartMe \/ AnswerMe \/ DeliverMe \/ LoseMe
    PROVE  IInv'
<1>1. /\ UNCHANGED <<server, matrixRead>> /\ DOMAIN cache' = DOMAIN cache
      /\ cache'.matrix = cache.matrix /\ cache'.group = cache.group
  BY DEF StartMe, AnswerMe, DeliverMe, LoseMe, IInv, Shape
<1> QED
  BY <1>1, Untouched

\* The slots are read under the version that becomes the tag.
LEMMA StepOfLoad == ASSUME IInv, LoadMatrix PROVE IInv'
<1>1. /\ DOMAIN matrixRead' = DOMAIN matrixRead /\ matrixRead'.phase = "loaded"
      /\ matrixRead'.tag = server.version /\ matrixRead'.body = server.slots
      /\ UNCHANGED <<server, cache>>
  BY DEF LoadMatrix, IInv, Shape
<1> QED
  BY <1>1 DEF IInv, Shape, TagsBehind, TagVouches, ReadVouches, Matrix

\* The rows are read later: under the same version they go with the same slots.
LEMMA StepOfAnswer == ASSUME IInv, AnswerMatrix PROVE IInv'
<1>1. /\ DOMAIN matrixRead' = DOMAIN matrixRead /\ matrixRead'.phase = "answered"
      /\ matrixRead'.tag = matrixRead.tag /\ matrixRead'.sent = matrixRead.sent
      /\ ~NotModified => matrixRead'.body = Matrix(server, matrixRead.body)
      /\ UNCHANGED <<server, cache>> /\ matrixRead.phase = "loaded"
  BY DEF AnswerMatrix, IInv, Shape
<1> QED
  BY <1>1 DEF IInv, Shape, TagsBehind, TagVouches, ReadVouches, Matrix, NotModified

\* A 304 leaves the cache, a 200 brings a body with the tag that vouches for it.
LEMMA StepOfDelivery == ASSUME IInv, DeliverMatrix PROVE IInv'
<1> DEFINE read == IF NotModified THEN cache.matrix
                   ELSE [tag |-> matrixRead.tag, body |-> matrixRead.body]
<1>1. /\ DOMAIN cache' = DOMAIN cache /\ cache'.group = cache.group
      /\ cache'.matrix = read /\ UNCHANGED server
      /\ matrixRead' = [phase |-> "idle", sent |-> 0, tag |-> 0, body |-> NoRead]
      /\ matrixRead.phase = "answered"
  BY DEF DeliverMatrix, NoMatrixRead, IInv, Shape
<1>2. /\ read.tag \in Nat /\ read.tag <= server.version
      /\ read.tag = server.version => read.body = Matrix(server, server.slots)
  BY <1>1 DEF IInv, TagsBehind, TagVouches, ReadVouches
<1> HIDE DEF read
<1>3. Matrix(server', server'.slots) = Matrix(server, server.slots)
  BY <1>1 DEF Matrix
<1> QED
  BY <1>1, <1>2, <1>3 DEF IInv, Shape, TagsBehind, TagVouches, ReadVouches

\* The read of the group takes the state and the version of one row.
LEMMA StepOfGroup == ASSUME IInv, ReadGroup PROVE IInv'
<1>1. /\ DOMAIN cache' = DOMAIN cache /\ cache'.matrix = cache.matrix
      /\ cache'.group = [tag |-> server.version, state |-> server.state]
      /\ UNCHANGED <<server, matrixRead>>
  BY DEF ReadGroup, IInv, Shape
<1>2. cache'.group.tag = server.version /\ cache'.group.state = server.state
  BY <1>1
<1> QED
  BY <1>1, <1>2
  DEF IInv, Shape, TagsBehind, TagVouches, ReadVouches, Matrix, NotModified

\* Each statement of a read, and its answer, keeps the tags honest.
LEMMA StepOfRead == ASSUME IInv, Reading PROVE IInv'
<1>1. CASE StartMatrix
  BY <1>1, ReadSent DEF StartMatrix
<1>2. CASE LoseMatrix
  <2>1. /\ DOMAIN matrixRead' = {"phase", "sent", "tag", "body"}
        /\ matrixRead'.tag = 0 /\ matrixRead'.phase = "idle"
        /\ UNCHANGED <<server, cache>>
    BY <1>2 DEF LoseMatrix, NoMatrixRead
  <2> QED
    BY <2>1, ReadStarted
<1> QED
  BY <1>1, <1>2, StepOfMe, StepOfLoad, StepOfAnswer, StepOfDelivery, StepOfGroup
  DEF Reading

\* Whatever the others do bumps the version.
LEMMA StepElsewhere == ASSUME IInv, Elsewhere PROVE IInv'
<1>1. ASSUME NEW s, DOMAIN s = DOMAIN server, s.version = server.version, ServerStep(s)
      PROVE  IInv'
  BY <1>1, Bumped DEF ServerStep, IInv, Shape
<1>2. CASE \E m \in Members, sel \in Answers : AnswerElsewhere(m, sel)
  BY <1>1, <1>2 DEF AnswerElsewhere, IInv, Shape
<1>3. CASE ConfirmOrReopen
  BY <1>1, <1>3 DEF ConfirmOrReopen, IInv, Shape
<1>4. CASE \E w \in Windows : MoveWindow(w)
  BY <1>1, <1>4 DEF MoveWindow, IInv, Shape
<1> QED
  BY <1>2, <1>3, <1>4 DEF Elsewhere

\* Every step of the screen keeps the tags honest.
LEMMA BoardStep == ASSUME IInv, [Next]_vars PROVE IInv'
<1>1. CASE UNCHANGED vars
  BY <1>1, Untouched DEF vars
<1> QED
  BY <1>1, StepOfUser, StepOfSave, StepOfRead, StepElsewhere DEF Next

\* A cached matrix, or group, whose tag is the current version is the current one:
\* a 304 never confirms a stale grid (get_availability_matrix, conditional.ts).
THEOREM TagVouchesHolds == Spec => []TagVouches
<1>1. IInv => TagVouches
  BY DEF IInv
<1> QED
  BY <1>1, BoardInit, BoardStep, PTL DEF Spec

-----------------------------------------------------------------------------
(* Unsaved work.                                                           *)

BoardShape ==
    DOMAIN board = {"selection", "baseline", "fresh", "confirmedByServer", "status"}

\* Rendering keeps the fields of the board, and the marks when some are unsaved.
LEMMA RenderedKeeps ==
    ASSUME NEW b, NEW me,
           DOMAIN b = {"selection", "baseline", "fresh", "confirmedByServer", "status"}
    PROVE  /\ DOMAIN Rendered(b, me) = DOMAIN b
           /\ Dirty(b) => Rendered(b, me) = b
BY DEF Rendered

\* The board starts with the fields it always has.
LEMMA BoardShapeInit == Init => BoardShape
BY DEF Init, NewBoard, BoardShape

\* The end of a save keeps the fields of the board and its marks.
LEMMA EndedKeeps ==
    ASSUME BoardShape, NEW status, Ended(status)
    PROVE  BoardShape' /\ board'.selection = board.selection
BY DEF BoardShape, Ended

\* Marking, switching and saving keep the fields of the board.
LEMMA BoardShapeOfUser == ASSUME BoardShape, User PROVE BoardShape'
<1>1. ASSUME NEW first, NEW cells, Apply(first, cells) PROVE BoardShape'
  BY <1>1, RenderedKeeps DEF Apply, BoardShape
<1>2. CASE Discard
  BY <1>2, RenderedKeeps DEF Discard, BoardShape
<1>3. CASE PressSave
  BY <1>3 DEF PressSave, BoardShape
<1>4. CASE Reopen
  <2>1. DOMAIN NewBoard =
          {"selection", "baseline", "fresh", "confirmedByServer", "status"}
    BY DEF NewBoard
  <2> QED
    BY <1>4, <2>1, RenderedKeeps DEF Reopen, BoardShape
<1>5. CASE ReloadGrid
  BY <1>5 DEF ReloadGrid, BoardShape
<1> QED
  BY <1>1, <1>2, <1>3, <1>4, <1>5 DEF User, PressKey, Drag

\* A read of the own selection: the only thing but the user and the end of a save
\* that can change the marks, and it does not while some are unsaved.
LEMMA MeKeeps ==
    ASSUME BoardShape, DeliverMe
    PROVE  BoardShape' /\ (Dirty(board) => board'.selection = board.selection)
<1> DEFINE b == [board EXCEPT !.fresh = @ \/ meRead.body # cache.me]
<1>1. board' = Rendered(b, meRead.body)
  BY DEF DeliverMe
<1>2. /\ DOMAIN b = DOMAIN board /\ b.selection = board.selection
      /\ b.baseline = board.baseline
  BY DEF BoardShape
<1> HIDE DEF b
<1>3. Dirty(board) => Dirty(b)
  BY <1>2 DEF Dirty
<1> QED
  BY <1>1, <1>2, <1>3, RenderedKeeps DEF BoardShape

\* Every other step leaves the board alone.
LEMMA BoardUntouched ==
    ASSUME Next
    PROVE  \/ User \/ SaveSettled \/ DeliverMe
           \/ \E status : Ended(status)
           \/ UNCHANGED board
<1>1. HandleSave \/ SaveAccepted \/ HandleLeft \/ EndLeft => UNCHANGED board
  BY DEF HandleSave, SaveAccepted, HandleLeft, EndLeft
<1>2. SaveLost \/ SaveRefused => \E status : Ended(status)
  BY DEF SaveLost, SaveRefused
<1>3. Reading => DeliverMe \/ UNCHANGED board
  BY DEF Reading, StartMe, AnswerMe, LoseMe, StartMatrix, LoadMatrix, AnswerMatrix,
         DeliverMatrix, LoseMatrix, ReadGroup
<1>4. Elsewhere => UNCHANGED board
  BY DEF Elsewhere, AnswerElsewhere, ConfirmOrReopen, MoveWindow, ServerStep
<1> QED
  BY <1>1, <1>2, <1>3, <1>4 DEF Next, Saving

\* Every step keeps the fields of the board.
LEMMA BoardShapeStep == ASSUME BoardShape, [Next]_vars PROVE BoardShape'
<1>1. CASE User
  BY <1>1, BoardShapeOfUser
<1>2. CASE SaveSettled
  <2> DEFINE b == [board EXCEPT !.status = "saved", !.selection = save.body,
                                !.baseline = save.body]
  <2>1. board' = Rendered(b, cache.me)
    BY <1>2 DEF SaveSettled
  <2>2. DOMAIN b = DOMAIN board
    OBVIOUS
  <2> HIDE DEF b
  <2> QED
    BY <2>1, <2>2, RenderedKeeps DEF BoardShape
<1>3. CASE \E status : Ended(status)
  BY <1>3, EndedKeeps
<1>4. CASE DeliverMe
  BY <1>4, MeKeeps
<1>5. CASE UNCHANGED board
  BY <1>5 DEF BoardShape
<1> QED
  BY <1>1, <1>2, <1>3, <1>4, <1>5, BoardUntouched DEF vars

\* Unsaved marks change only by the user's hand or when the save of them ends
\* (AvailabilityBoard.tsx, the seeding of the grid).
THEOREM WorkKeptHolds == Spec => WorkKept
<1>1. ASSUME BoardShape, [Next]_vars
      PROVE  [Dirty(board) /\ board'.selection # board.selection
                 => User \/ SaveSettled]_vars
  <2>1. (\E status : Ended(status)) => board'.selection = board.selection
    BY <1>1, EndedKeeps
  <2>2. DeliverMe => (Dirty(board) => board'.selection = board.selection)
    BY <1>1, MeKeeps
  <2> QED
    BY <1>1, <2>1, <2>2, BoardUntouched
<1> QED
  BY <1>1, BoardShapeInit, BoardShapeStep, PTL DEF Spec, WorkKept

-----------------------------------------------------------------------------
(* The message of a save.                                                  *)

(***************************************************************************)
(* SavedMessageTrueAfterRead compares the screen with the server.  Between *)
(* them are the save on its way, the answer recorded for its key, the read *)
(* of the own selection on its way, and the cached one; the invariant says *)
(* of each what it has to do with the marks stored last, for as long as    *)
(* the board stored them.                                                  *)
(***************************************************************************)

Mine == server.marks[Me]
ByBoard == server.by = "board"

SaveFields == {"phase", "body", "recorded", "awaits"}
BoardFields == {"selection", "baseline", "fresh", "confirmedByServer", "status"}
Shapes ==
    /\ DOMAIN server = {"slots", "marks", "responded", "state", "version", "by"}
    /\ DOMAIN cache = {"me", "meMissed", "matrix", "group"}
    /\ DOMAIN board = BoardFields
    /\ DOMAIN save = SaveFields /\ DOMAIN left = SaveFields
    /\ DOMAIN idem = {"body", "answer"} /\ DOMAIN meRead = {"phase", "body", "joined"}

MarksTyped ==
    /\ server.marks \in [Members -> Selection]
    /\ board.selection \in Selection /\ board.baseline \in Selection
    /\ save.body \in Selection /\ left.body \in Selection
    /\ cache.me \in Selection \cup {NoRead} /\ meRead.body \in Selection \cup {NoRead}

\* The answer recorded for a key is of the body that the key was minted for.
KeyTrue ==
    /\ idem.answer = "saved" /\ ByBoard => idem.body = Mine
    /\ save.phase # "idle" => idem.body = save.body

\* A save that was recorded as saved stored its body.
SaveTrue ==
    /\ save.phase # "idle" /\ save.recorded = "saved" /\ ByBoard => save.body = Mine
    /\ save.phase = "settling" => save.recorded = "saved"
    /\ board.status = "saved" => save.phase = "idle"

\* A read of the own selection that was answered after the save has the marks stored:
\* every one that no invalidation has joined.
AfterSave == board.status = "saved" \/ save.phase = "settling"
ReadTrue ==
    AfterSave /\ ByBoard /\ meRead.phase = "answered" /\ ~meRead.joined => meRead.body = Mine

\* So has the cache, unless the read that the save asks for was missed.
CacheTrue ==
    /\ board.status = "saved" \/ (save.phase = "settling" /\ "me" \notin save.awaits)
    /\ ByBoard /\ ~cache.meMissed
    => cache.me = Mine

\* The baseline is what was saved or what was read, unless a read waits to be applied,
\* and then something is unsaved.
BaselineTrue ==
    board.status = "saved" /\ ByBoard => board.fresh \/ board.baseline \in {Mine, cache.me}
Seeded == board.fresh /\ cache.me # NoRead => Dirty(board)

SavedInv ==
    /\ Shapes /\ MarksTyped /\ KeyTrue /\ SaveTrue /\ ReadTrue /\ CacheTrue /\ BaselineTrue
    /\ Seeded

\* What the run checks follows.
LEMMA SavedImplies == SavedInv => SavedMessageTrueAfterRead
<1> SUFFICES ASSUME SavedInv, ~cache.meMissed, board.status = "saved", ~Dirty(board),
                    server.by = "board"
             PROVE  board.selection = server.marks[Me]
  BY DEF SavedMessageTrueAfterRead, SavedMessageTrue
<1>1. cache.me = Mine
  BY DEF SavedInv, CacheTrue, ByBoard
<1>2. Mine \in Selection
  BY DEF SavedInv, MarksTyped, Mine, Members
<1>3. cache.me # NoRead
  BY <1>1, <1>2, BoardAssumption DEF Selection
<1>4. ~board.fresh
  BY <1>3 DEF SavedInv, Seeded
<1>5. board.baseline = Mine
  BY <1>1, <1>4 DEF SavedInv, BaselineTrue, ByBoard
<1> QED
  BY <1>5 DEF Dirty, Mine

\* At the start nothing is saved and nothing is read.
LEMMA SavedInit == Init => SavedInv
<1> SUFFICES ASSUME Init PROVE SavedInv
  OBVIOUS
<1>1. PICK sel \in Answers :
        server = [slots |-> Cells, marks |-> [m \in Members |-> sel],
                  responded |-> Members, state |-> "open", version |-> 1, by |-> "other"]
  BY DEF Init
<1>2. sel \in Selection /\ Empty \in Selection
  BY BoardAssumption DEF Selection, Empty, CellStates
<1>3. Shapes
  BY <1>1 DEF Init, NewBoard, NoSave, NoMeRead, NoKey, Shapes, BoardFields, SaveFields
<1>4. MarksTyped
  BY <1>1, <1>2 DEF Init, NewBoard, NoSave, NoMeRead, MarksTyped
<1>5. KeyTrue /\ SaveTrue /\ ReadTrue /\ CacheTrue /\ BaselineTrue /\ Seeded
  BY DEF Init, NewBoard, NoSave, NoMeRead, NoKey, KeyTrue, SaveTrue, ReadTrue, AfterSave, CacheTrue,
         BaselineTrue, Seeded
<1> QED
  BY <1>3, <1>4, <1>5 DEF SavedInv

\* Rendering: it seeds both the marks and the baseline, or changes nothing, and leaves
\* no read to be applied while nothing is unsaved.
LEMMA RenderedSeeds ==
    ASSUME NEW b, NEW me, DOMAIN b = BoardFields
    PROVE  /\ DOMAIN Rendered(b, me) = BoardFields /\ Rendered(b, me).status = b.status
           /\ \/ Rendered(b, me) = b
              \/ /\ me # NoRead /\ b.fresh /\ ~Rendered(b, me).fresh
                 /\ Rendered(b, me).baseline = me /\ Rendered(b, me).selection = me
           /\ Rendered(b, me).fresh /\ me # NoRead => Dirty(Rendered(b, me))
BY DEF Rendered, BoardFields

\* Steps that change nothing that the invariant speaks of: the reads of the matrix and of
\* the group, and the start of a read of the own selection.
LEMMA SavedKept ==
    ASSUME SavedInv, UNCHANGED <<server, board, left, idem>>,
           DOMAIN cache' = DOMAIN cache, cache'.me = cache.me,
           cache'.meMissed = cache.meMissed,
           \/ save' = save
           \/ save' = [save EXCEPT !.awaits = @ \ {"matrix"}],
           \/ meRead' = meRead
           \/ meRead' = [meRead EXCEPT !.phase = "sent"]
    PROVE  SavedInv'
<1>1. /\ DOMAIN save' = DOMAIN save /\ save'.phase = save.phase /\ save'.body = save.body
      /\ save'.recorded = save.recorded
      /\ "me" \notin save'.awaits => "me" \notin save.awaits
  BY DEF SavedInv, Shapes, SaveFields
<1>2. /\ DOMAIN meRead' = DOMAIN meRead /\ meRead'.body = meRead.body
      /\ meRead'.joined = meRead.joined
      /\ meRead'.phase = "answered" => meRead.phase = "answered"
  BY DEF SavedInv, Shapes
<1>3. Shapes' /\ MarksTyped'
  BY <1>1, <1>2 DEF SavedInv, Shapes, MarksTyped
<1>4. KeyTrue' /\ SaveTrue'
  BY <1>1 DEF SavedInv, KeyTrue, SaveTrue, ByBoard, Mine
<1>5. ReadTrue' /\ CacheTrue'
  BY <1>1, <1>2 DEF SavedInv, ReadTrue, AfterSave, CacheTrue, ByBoard, Mine
<1>6. BaselineTrue' /\ Seeded'
  BY DEF SavedInv, BaselineTrue, Seeded, ByBoard, Mine
<1> QED
  BY <1>3, <1>4, <1>5, <1>6 DEF SavedInv

\* A change of the server by the others keeps the marks of this member, or they are no
\* longer the board's.
LEMMA SavedElsewhere == ASSUME SavedInv, Elsewhere PROVE SavedInv'
<1>1. Me \in Members /\ DOMAIN server = {"slots", "marks", "responded", "state", "version", "by"}
      /\ server.marks \in [Members -> Selection]
  BY DEF Members, SavedInv, Shapes, MarksTyped
<1>2. UNCHANGED <<cache, board, save, left, idem, meRead>>
  BY DEF Elsewhere, AnswerElsewhere, ConfirmOrReopen, MoveWindow, ServerStep
<1> DEFINE Kept ==
      /\ DOMAIN server' = DOMAIN server /\ server'.marks \in [Members -> Selection]
      /\ server'.by = "board" => server.by = "board" /\ server'.marks[Me] = server.marks[Me]
<1>3. Kept
  <2>1. ASSUME NEW m \in Members, NEW sel \in Answers, AnswerElsewhere(m, sel)
        PROVE  Kept
    <3>1. /\ DOMAIN server' = DOMAIN server /\ server'.marks = [server.marks EXCEPT ![m] = sel]
          /\ server'.by = IF m = Me THEN "other" ELSE server.by
      BY <1>1, <2>1 DEF AnswerElsewhere, ServerStep
    <3>2. sel \in Selection
      BY BoardAssumption DEF Selection
    <3> QED
      BY <1>1, <3>1, <3>2
  <2>2. CASE ConfirmOrReopen
    BY <1>1, <2>2 DEF ConfirmOrReopen, ServerStep
  <2>3. ASSUME NEW w \in Windows, MoveWindow(w) PROVE Kept
    <3> DEFINE cut(x) == ApplyState(x, Cells \ w, "unselected")
    <3>1. /\ DOMAIN server' = DOMAIN server
          /\ server'.marks = [m \in Members |-> cut(server.marks[m])]
          /\ server'.by = IF Selected(Mine) \subseteq w THEN server.by ELSE "other"
      BY <1>1, <2>3 DEF MoveWindow, ServerStep, Mine
    <3>2. ASSUME NEW x \in Selection
          PROVE  cut(x) \in Selection /\ (Selected(x) \subseteq w => cut(x) = x)
      BY DEF ApplyState, Selection, Selected, CellStates
    <3> HIDE DEF cut
    <3> QED
      BY <1>1, <3>1, <3>2 DEF Mine
  <2> QED
    BY <2>1, <2>2, <2>3 DEF Elsewhere
<1>4. Shapes' /\ MarksTyped'
  BY <1>2, <1>3 DEF SavedInv, Shapes, MarksTyped
<1>5. KeyTrue' /\ SaveTrue'
  BY <1>2, <1>3 DEF SavedInv, KeyTrue, SaveTrue, ByBoard, Mine
<1>6. ReadTrue' /\ CacheTrue'
  BY <1>2, <1>3 DEF SavedInv, ReadTrue, AfterSave, CacheTrue, ByBoard, Mine
<1>7. BaselineTrue' /\ Seeded'
  BY <1>2, <1>3 DEF SavedInv, BaselineTrue, Seeded, ByBoard, Mine, Dirty
<1> QED
  BY <1>4, <1>5, <1>6, <1>7 DEF SavedInv

\* A step of the user that changes the board only, and renders it: the baseline and the
\* status stay, unless a read is seeded.
LEMMA SavedRendered ==
    ASSUME SavedInv, NEW b, DOMAIN b = BoardFields, b.selection \in Selection,
           b.baseline = board.baseline, b.fresh = board.fresh, b.status = board.status,
           board' = Rendered(b, cache.me),
           UNCHANGED <<server, cache, save, left, idem, meRead>>
    PROVE  SavedInv'
<1>1. /\ DOMAIN board' = BoardFields /\ board'.status = board.status
      /\ \/ board' = b
         \/ /\ cache.me # NoRead /\ ~board'.fresh
            /\ board'.baseline = cache.me /\ board'.selection = cache.me
      /\ board'.fresh /\ cache.me # NoRead => Dirty(board')
  BY RenderedSeeds
<1>2. Shapes'
  BY <1>1 DEF SavedInv, Shapes
<1>3. MarksTyped'
  BY <1>1 DEF SavedInv, MarksTyped
<1>4. KeyTrue' /\ SaveTrue'
  BY <1>1 DEF SavedInv, KeyTrue, SaveTrue, ByBoard, Mine
<1>5. ReadTrue' /\ CacheTrue'
  BY <1>1 DEF SavedInv, ReadTrue, AfterSave, CacheTrue, ByBoard, Mine
<1>6. BaselineTrue'
  BY <1>1 DEF SavedInv, BaselineTrue, ByBoard, Mine
<1>7. Seeded'
  BY <1>1 DEF Seeded
<1> QED
  BY <1>2, <1>3, <1>4, <1>5, <1>6, <1>7 DEF SavedInv

\* Steps of the user: editing, discarding, saving, leaving and coming back.
LEMMA SavedUser == ASSUME SavedInv, User PROVE SavedInv'
<1>1. /\ DOMAIN board = BoardFields /\ board.selection \in Selection
      /\ board.baseline \in Selection
  BY DEF SavedInv, Shapes, MarksTyped
<1>2. ASSUME NEW c \in Cells, NEW cells, Apply(c, cells) PROVE SavedInv'
  <2> DEFINE sel == ApplyState(board.selection, cells, NextState(board.selection[c]))
             b == [board EXCEPT !.selection = sel]
  <2>1. NextState(board.selection[c]) \in CellStates
    BY <1>1 DEF Selection, NextState, CellStates
  <2>2. sel \in Selection
    BY <1>1, <2>1 DEF Selection, ApplyState
  <2>3. board' = Rendered(b, cache.me) /\ UNCHANGED <<server, cache, save, left, idem, meRead>>
    BY <1>2 DEF Apply
  <2> HIDE DEF sel
  <2>4. /\ DOMAIN b = BoardFields /\ b.selection = sel /\ b.baseline = board.baseline
        /\ b.fresh = board.fresh /\ b.status = board.status
    BY <1>1 DEF BoardFields
  <2> HIDE DEF b
  <2> QED
    BY <2>2, <2>3, <2>4, SavedRendered
<1>3. CASE Discard
  <2> DEFINE b == [board EXCEPT !.selection = board.baseline]
  <2>1. board' = Rendered(b, cache.me) /\ UNCHANGED <<server, cache, save, left, idem, meRead>>
    BY <1>3 DEF Discard
  <2>2. /\ DOMAIN b = BoardFields /\ b.selection \in Selection /\ b.baseline = board.baseline
        /\ b.fresh = board.fresh /\ b.status = board.status
    BY <1>1 DEF BoardFields
  <2> HIDE DEF b
  <2> QED
    BY <2>1, <2>2, SavedRendered
<1>4. CASE PressSave
  <2>1. PICK key :
          /\ \/ key = idem /\ idem.body = board.selection
             \/ key = [body |-> board.selection, answer |-> "none"]
          /\ idem' = key
          /\ save' = [NoSave EXCEPT !.phase = "sent", !.body = board.selection,
                                    !.recorded = key.answer]
    BY <1>4 DEF PressSave
  <2>2. /\ save.phase = "idle" /\ board' = [board EXCEPT !.status = "pending"]
        /\ UNCHANGED <<server, cache, left, meRead>>
    BY <1>4 DEF PressSave, Pending
  <2>3. /\ DOMAIN idem' = {"body", "answer"} /\ idem'.body = board.selection
        /\ idem'.answer = "none" \/ (idem'.answer = idem.answer /\ idem'.body = idem.body)
    BY <2>1 DEF SavedInv, Shapes
  <2>4. /\ DOMAIN save' = SaveFields /\ save'.phase = "sent"
        /\ save'.body = board.selection /\ save'.recorded = idem'.answer
    BY <2>1 DEF NoSave, SaveFields
  <2>5. /\ DOMAIN board' = BoardFields /\ board'.status = "pending"
        /\ board'.selection = board.selection /\ board'.baseline = board.baseline
        /\ board'.fresh = board.fresh
    BY <1>1, <2>2 DEF BoardFields
  <2>6. Shapes' /\ MarksTyped'
    BY <1>1, <2>2, <2>3, <2>4, <2>5 DEF SavedInv, Shapes, MarksTyped
  <2>7. KeyTrue' /\ SaveTrue'
    BY <2>2, <2>3, <2>4, <2>5 DEF SavedInv, KeyTrue, SaveTrue, ByBoard, Mine
  <2>8. ReadTrue' /\ CacheTrue' /\ BaselineTrue'
    BY <2>4, <2>5 DEF ReadTrue, AfterSave, CacheTrue, BaselineTrue
  <2>9. Seeded'
    BY <2>2, <2>5 DEF SavedInv, Seeded, Dirty
  <2> QED
    BY <2>6, <2>7, <2>8, <2>9 DEF SavedInv
<1>5. CASE Reopen
  <2>1. /\ board' = Rendered(NewBoard, cache.me) /\ idem' = NoKey /\ save' = NoSave
        /\ left' = save \/ left' = left
        /\ meRead' = IF meRead.phase = "idle" THEN [meRead EXCEPT !.phase = "sent"] ELSE meRead
        /\ UNCHANGED <<server, cache>>
    BY <1>5 DEF Reopen
  <2>2. /\ DOMAIN NewBoard = BoardFields /\ NewBoard.status = "idle"
        /\ NewBoard.selection = Empty /\ NewBoard.baseline = Empty /\ Empty \in Selection
    BY DEF NewBoard, BoardFields, Selection, Empty, CellStates
  <2>3. /\ DOMAIN board' = BoardFields /\ board'.status = "idle"
        /\ \/ board' = NewBoard
           \/ cache.me # NoRead /\ board'.baseline = cache.me /\ board'.selection = cache.me
        /\ board'.fresh /\ cache.me # NoRead => Dirty(board')
    BY <2>1, <2>2, RenderedSeeds
  <2>4. /\ DOMAIN save' = SaveFields /\ save'.body \in Selection /\ save'.phase = "idle"
        /\ DOMAIN left' = SaveFields /\ left'.body \in Selection
    BY <2>1, <2>2 DEF NoSave, SaveFields, SavedInv, Shapes, MarksTyped
  <2>5. /\ DOMAIN idem' = {"body", "answer"} /\ idem'.answer = "none"
    BY <2>1 DEF NoKey
  <2>6. /\ DOMAIN meRead' = DOMAIN meRead /\ meRead'.body = meRead.body
        /\ meRead'.phase = "answered" => meRead.phase = "answered"
    BY <2>1 DEF SavedInv, Shapes
  <2>7. Shapes'
    BY <2>1, <2>3, <2>4, <2>5, <2>6 DEF SavedInv, Shapes
  <2>8. MarksTyped'
    BY <2>1, <2>2, <2>3, <2>4, <2>6 DEF SavedInv, MarksTyped
  <2>9. KeyTrue' /\ SaveTrue'
    BY <2>1, <2>3, <2>4, <2>5 DEF SavedInv, KeyTrue, SaveTrue, ByBoard, Mine
  <2>10. ReadTrue' /\ CacheTrue'
    BY <2>1, <2>3, <2>4, <2>6 DEF SavedInv, ReadTrue, AfterSave, CacheTrue, ByBoard, Mine
  <2>11. BaselineTrue' /\ Seeded'
    BY <2>1, <2>3 DEF BaselineTrue, Seeded
  <2> QED
    BY <2>7, <2>8, <2>9, <2>10, <2>11 DEF SavedInv
<1>6. CASE ReloadGrid
  <2>1. /\ DOMAIN board' = BoardFields /\ board'.status = "idle"
        /\ board'.selection = board.selection /\ board'.baseline = board.baseline
        /\ board'.fresh = board.fresh /\ UNCHANGED <<server, cache, save, left, idem, meRead>>
    BY <1>1, <1>6 DEF ReloadGrid, BoardFields
  <2>2. Shapes' /\ MarksTyped'
    BY <2>1 DEF SavedInv, Shapes, MarksTyped
  <2>3. KeyTrue' /\ SaveTrue'
    BY <2>1 DEF SavedInv, KeyTrue, SaveTrue, ByBoard, Mine
  <2>4. ReadTrue' /\ CacheTrue' /\ BaselineTrue' /\ Seeded'
    BY <2>1 DEF SavedInv, ReadTrue, AfterSave, CacheTrue, BaselineTrue, Seeded, Dirty,
                ByBoard, Mine
  <2> QED
    BY <2>2, <2>3, <2>4 DEF SavedInv
<1> QED
  BY <1>2, <1>3, <1>4, <1>5, <1>6 DEF User, PressKey, Drag

\* The end of a save that failed: the message is another.
LEMMA SavedEnded ==
    ASSUME SavedInv, NEW status, status # "saved", Ended(status), save.phase # "idle",
           UNCHANGED <<server, cache, left, idem, meRead>>
    PROVE  SavedInv'
<1>1. board.status # "saved"
  BY DEF SavedInv, SaveTrue
<1>2. /\ DOMAIN board' = BoardFields /\ board'.status # "saved"
      /\ board'.selection = board.selection /\ board'.baseline = board.baseline
      /\ board'.fresh = board.fresh
  BY <1>1 DEF Ended, SavedInv, Shapes, BoardFields
<1>3. /\ DOMAIN save' = SaveFields
      /\ save'.phase = "idle" /\ save'.body = Empty /\ Empty \in Selection
  BY DEF Ended, NoSave, SaveFields, Empty, Selection, CellStates
<1>4. Shapes' /\ MarksTyped'
  BY <1>2, <1>3 DEF SavedInv, Shapes, MarksTyped
<1>5. KeyTrue' /\ SaveTrue'
  BY <1>2, <1>3 DEF SavedInv, KeyTrue, SaveTrue, ByBoard, Mine
<1>6. ReadTrue' /\ CacheTrue' /\ BaselineTrue'
  BY <1>2, <1>3 DEF ReadTrue, AfterSave, CacheTrue, BaselineTrue
<1>7. Seeded'
  BY <1>2 DEF SavedInv, Seeded, Dirty
<1> QED
  BY <1>4, <1>5, <1>6, <1>7 DEF SavedInv

\* What a save leaves on the server: a new answer is that of its body, and otherwise
\* nothing has changed.
LEMMA StoredMarks ==
    ASSUME SavedInv, NEW sv, sv.body \in Selection, NEW by, server' = Stored(sv, by)
    PROVE  /\ DOMAIN server' = DOMAIN server /\ server'.marks \in [Members -> Selection]
           /\ \/ /\ sv.recorded = "none" /\ SaveAnswer(sv) = "saved"
                 /\ server'.marks[Me] = sv.body /\ server'.by = by
              \/ ~(sv.recorded = "none" /\ SaveAnswer(sv) = "saved") /\ server' = server
<1>1. CASE sv.recorded = "none" /\ SaveAnswer(sv) = "saved"
  <2>1. server' = [server EXCEPT !.marks[Me] = sv.body, !.by = by,
                                 !.responded = @ \cup {Me}, !.version = @ + 1]
    BY <1>1 DEF Stored
  <2>2. /\ DOMAIN server' = DOMAIN server /\ server'.by = by
        /\ server'.marks = [server.marks EXCEPT ![Me] = sv.body]
    BY <2>1 DEF SavedInv, Shapes
  <2>3. Me \in Members /\ server.marks \in [Members -> Selection]
    BY DEF Members, SavedInv, MarksTyped
  <2> QED
    BY <1>1, <2>2, <2>3
<1>2. CASE ~(sv.recorded = "none" /\ SaveAnswer(sv) = "saved")
  BY <1>2 DEF Stored, SavedInv, MarksTyped
<1> QED
  BY <1>1, <1>2

\* The server handles a save, or replays the answer of its key: what is answered as saved
\* is what is stored.
LEMMA SavedHandled == ASSUME SavedInv, HandleSave PROVE SavedInv'
<1> DEFINE answer == SaveAnswer(save)
<1>1. /\ save.phase = "sent" /\ save' = [save EXCEPT !.phase = "answered", !.recorded = answer]
      /\ idem' = [idem EXCEPT !.answer = answer] /\ server' = Stored(save, "board")
      /\ UNCHANGED <<cache, board, left, meRead>>
  BY DEF HandleSave
<1>2. /\ DOMAIN save' = DOMAIN save /\ save'.phase = "answered" /\ save'.recorded = answer
      /\ save'.body = save.body
  BY <1>1 DEF SavedInv, Shapes, SaveFields
<1>3. DOMAIN idem' = DOMAIN idem /\ idem'.body = idem.body /\ idem'.answer = answer
  BY <1>1 DEF SavedInv, Shapes
<1>4. /\ DOMAIN server' = DOMAIN server /\ server'.marks \in [Members -> Selection]
      /\ \/ /\ save.recorded = "none" /\ answer = "saved"
            /\ server'.marks[Me] = save.body
         \/ ~(save.recorded = "none" /\ answer = "saved") /\ server' = server
  <2>1. save.body \in Selection
    BY DEF SavedInv, MarksTyped
  <2> QED
    BY <1>1, <2>1, StoredMarks
<1>5. answer = "saved" /\ server'.by = "board" => server'.marks[Me] = save.body
  <2> SUFFICES ASSUME answer = "saved", server'.by = "board"
               PROVE  server'.marks[Me] = save.body
    OBVIOUS
  <2>1. CASE save.recorded = "none"
    BY <2>1, <1>4
  <2>2. CASE save.recorded # "none"
    <3>1. save.recorded = "saved" /\ server' = server
      BY <2>2, <1>4 DEF SaveAnswer
    <3> QED
      BY <3>1, <1>1 DEF SavedInv, SaveTrue, ByBoard, Mine
  <2> QED
    BY <2>1, <2>2
<1>6. board.status # "saved"
  BY <1>1 DEF SavedInv, SaveTrue
<1> HIDE DEF answer
<1>7. Shapes' /\ MarksTyped'
  BY <1>1, <1>2, <1>3, <1>4 DEF SavedInv, Shapes, MarksTyped
<1>8. KeyTrue'
  BY <1>1, <1>2, <1>3, <1>5 DEF SavedInv, KeyTrue, ByBoard, Mine
<1>9. SaveTrue'
  BY <1>1, <1>2, <1>5, <1>6 DEF SaveTrue, ByBoard, Mine
<1>10. ReadTrue' /\ CacheTrue' /\ BaselineTrue'
  BY <1>1, <1>2, <1>6 DEF ReadTrue, AfterSave, CacheTrue, BaselineTrue
<1>11. Seeded'
  BY <1>1 DEF SavedInv, Seeded
<1> QED
  BY <1>7, <1>8, <1>9, <1>10, <1>11 DEF SavedInv

\* The save of a component that was left: what it stores is no longer the board's.
LEMMA SavedHandledLeft == ASSUME SavedInv, HandleLeft PROVE SavedInv'
<1>1. /\ server' = Stored(left, "other") /\ UNCHANGED <<cache, board, save, idem, meRead>>
      /\ left' = NoSave
         \/ left' = [left EXCEPT !.phase = "answered", !.recorded = "saved"]
  BY DEF HandleLeft
<1>2. left.body \in Selection /\ DOMAIN left = SaveFields
  BY DEF SavedInv, MarksTyped, Shapes
<1>3. DOMAIN left' = SaveFields /\ left'.body \in Selection
  <2>1. CASE left' = NoSave
    BY <2>1 DEF NoSave, SaveFields, Empty, Selection, CellStates
  <2>2. CASE left' = [left EXCEPT !.phase = "answered", !.recorded = "saved"]
    <3>1. DOMAIN left' = DOMAIN left /\ left'.body = left.body
      BY <1>2, <2>2 DEF SaveFields
    <3> QED
      BY <1>2, <3>1
  <2> QED
    BY <1>1, <2>1, <2>2
<1>4. /\ DOMAIN server' = DOMAIN server /\ server'.marks \in [Members -> Selection]
      /\ ByBoard' => server' = server
  BY <1>1, <1>2, StoredMarks DEF ByBoard
<1>5. Shapes' /\ MarksTyped'
  BY <1>1, <1>3, <1>4 DEF SavedInv, Shapes, MarksTyped
<1>6. KeyTrue' /\ SaveTrue'
  BY <1>1, <1>4 DEF SavedInv, KeyTrue, SaveTrue, ByBoard, Mine
<1>7. ReadTrue' /\ CacheTrue'
  BY <1>1, <1>4 DEF SavedInv, ReadTrue, AfterSave, CacheTrue, ByBoard, Mine
<1>8. BaselineTrue' /\ Seeded'
  BY <1>1, <1>4 DEF SavedInv, BaselineTrue, Seeded, ByBoard, Mine, Dirty
<1> QED
  BY <1>5, <1>6, <1>7, <1>8 DEF SavedInv

\* An invalidation cancels the read of the own selection that is on its way, or joins it:
\* every read answered from now on, that is not marked as joined, sees the marks stored.
LEMMA InvalidatedReads ==
    ASSUME SavedInv, Invalidated
    PROVE  /\ DOMAIN meRead' = {"phase", "body", "joined"}
           /\ meRead'.body \in Selection \cup {NoRead}
           /\ meRead'.phase # "answered" \/ meRead'.joined
BY DEF Invalidated, NoMeRead, SavedInv, Shapes, MarksTyped

\* The answer is that it was saved, and the queries are invalidated.
LEMMA SavedAccepted == ASSUME SavedInv, SaveAccepted PROVE SavedInv'
<1>1. /\ save.phase = "answered" /\ save.recorded = "saved"
      /\ save' = [save EXCEPT !.phase = "settling", !.awaits = {"me", "matrix"}]
      /\ Invalidated /\ UNCHANGED <<server, cache, board, left, idem>>
  BY DEF SaveAccepted
<1>2. /\ DOMAIN save' = DOMAIN save /\ save'.phase = "settling" /\ save'.recorded = "saved"
      /\ save'.body = save.body /\ "me" \in save'.awaits
  BY <1>1 DEF SavedInv, Shapes, SaveFields
<1>3. /\ DOMAIN meRead' = {"phase", "body", "joined"}
      /\ meRead'.body \in Selection \cup {NoRead}
      /\ meRead'.phase # "answered" \/ meRead'.joined
  BY <1>1, InvalidatedReads
<1>4. board.status # "saved"
  BY <1>1 DEF SavedInv, SaveTrue
<1>5. Shapes' /\ MarksTyped'
  BY <1>1, <1>2, <1>3 DEF SavedInv, Shapes, MarksTyped
<1>6. KeyTrue' /\ SaveTrue'
  BY <1>1, <1>2, <1>4 DEF SavedInv, KeyTrue, SaveTrue, ByBoard, Mine
<1>7. ReadTrue' /\ CacheTrue' /\ BaselineTrue'
  BY <1>1, <1>2, <1>3, <1>4 DEF ReadTrue, CacheTrue, BaselineTrue
<1>8. Seeded'
  BY <1>1 DEF SavedInv, Seeded
<1> QED
  BY <1>5, <1>6, <1>7, <1>8 DEF SavedInv

\* The save of a component that was left ends: at most the queries are invalidated.
LEMMA SavedEndLeft == ASSUME SavedInv, EndLeft PROVE SavedInv'
<1>1. left' = NoSave /\ UNCHANGED <<server, cache, board, save, idem>>
  BY DEF EndLeft
<1>2. DOMAIN left' = SaveFields /\ left'.body \in Selection
  BY <1>1 DEF NoSave, SaveFields, Empty, Selection, CellStates
<1>3. /\ DOMAIN meRead' = {"phase", "body", "joined"}
      /\ meRead'.body \in Selection \cup {NoRead}
      /\ meRead' = meRead \/ meRead'.phase # "answered" \/ meRead'.joined
  <2>1. UNCHANGED meRead \/ Invalidated
    BY DEF EndLeft
  <2> QED
    BY <2>1, InvalidatedReads DEF SavedInv, Shapes, MarksTyped
<1>4. Shapes' /\ MarksTyped'
  BY <1>1, <1>2, <1>3 DEF SavedInv, Shapes, MarksTyped
<1>5. KeyTrue' /\ SaveTrue' /\ ReadTrue'
  BY <1>1, <1>3 DEF SavedInv, KeyTrue, SaveTrue, ReadTrue, AfterSave, ByBoard, Mine
<1>6. CacheTrue' /\ BaselineTrue' /\ Seeded'
  BY <1>1 DEF SavedInv, CacheTrue, BaselineTrue, Seeded, ByBoard, Mine
<1> QED
  BY <1>4, <1>5, <1>6 DEF SavedInv

\* The save ends: its body becomes the marks and the baseline, and a read that waited is
\* applied over them.
LEMMA SavedSettled == ASSUME SavedInv, SaveSettled PROVE SavedInv'
<1>1. /\ save.phase = "settling" /\ save.awaits = {} /\ save' = NoSave
      /\ UNCHANGED <<server, cache, left, idem, meRead>>
  BY DEF SaveSettled
<1>2. /\ DOMAIN save' = SaveFields
      /\ save'.phase = "idle" /\ save'.body = Empty /\ Empty \in Selection
  BY <1>1 DEF NoSave, SaveFields, Empty, Selection, CellStates
<1>3. board.status # "saved"
  BY <1>1 DEF SavedInv, SaveTrue
<1>4. /\ KeyTrue' /\ SaveTrue'
  BY <1>1, <1>2 DEF SavedInv, KeyTrue, SaveTrue, ByBoard, Mine
<1>5. ReadTrue' /\ CacheTrue'
  <2>1. "me" \notin save.awaits
    BY <1>1
  <2> QED
    BY <1>1, <1>2, <2>1 DEF SavedInv, ReadTrue, AfterSave, CacheTrue, ByBoard, Mine
<1> DEFINE b == [board EXCEPT !.status = "saved", !.selection = save.body,
                              !.baseline = save.body]
<1>6. board' = Rendered(b, cache.me)
  BY DEF SaveSettled
<1>7. /\ DOMAIN b = BoardFields /\ b.selection = save.body /\ b.baseline = save.body
      /\ b.fresh = board.fresh /\ b.status = "saved"
  BY DEF SavedInv, Shapes, BoardFields
<1> HIDE DEF b
<1>8. /\ DOMAIN board' = BoardFields
      /\ \/ board' = b
         \/ cache.me # NoRead /\ board'.baseline = cache.me /\ board'.selection = cache.me
      /\ board'.fresh /\ cache.me # NoRead => Dirty(board')
  BY <1>6, <1>7, RenderedSeeds
<1>9. ByBoard => save.body = Mine
  BY <1>1 DEF SavedInv, SaveTrue
<1>10. Shapes'
  BY <1>1, <1>2, <1>8 DEF SavedInv, Shapes
<1>11. MarksTyped'
  BY <1>1, <1>2, <1>7, <1>8 DEF SavedInv, MarksTyped
<1>12. BaselineTrue'
  BY <1>1, <1>7, <1>8, <1>9 DEF BaselineTrue, ByBoard, Mine
<1>13. Seeded'
  BY <1>1, <1>8 DEF Seeded
<1> QED
  BY <1>4, <1>5, <1>10, <1>11, <1>12, <1>13 DEF SavedInv

\* The server answers a read of the own selection with the marks it stores.
LEMMA SavedAnswered == ASSUME SavedInv, AnswerMe PROVE SavedInv'
<1>1. /\ meRead' = [NoMeRead EXCEPT !.phase = "answered", !.body = Mine]
      /\ UNCHANGED <<server, cache, board, save, left, idem>>
  BY DEF AnswerMe, Mine
<1>2. /\ DOMAIN meRead' = {"phase", "body", "joined"} /\ meRead'.body = Mine
      /\ Mine \in Selection
  BY <1>1 DEF NoMeRead, SavedInv, MarksTyped, Mine, Members
<1>3. Shapes' /\ MarksTyped'
  BY <1>1, <1>2 DEF SavedInv, Shapes, MarksTyped
<1>4. KeyTrue' /\ SaveTrue' /\ ReadTrue'
  BY <1>1, <1>2 DEF SavedInv, KeyTrue, SaveTrue, ReadTrue, ByBoard, Mine
<1>5. CacheTrue' /\ BaselineTrue' /\ Seeded'
  BY <1>1 DEF SavedInv, CacheTrue, BaselineTrue, Seeded, ByBoard, Mine
<1> QED
  BY <1>3, <1>4, <1>5 DEF SavedInv

\* A read of the own selection arrives: it is cached, and it waits to be applied when it
\* brings something else.
LEMMA SavedDelivered == ASSUME SavedInv, DeliverMe PROVE SavedInv'
<1> DEFINE body == meRead.body
           b == [board EXCEPT !.fresh = @ \/ body # cache.me]
<1>1. /\ meRead.phase = "answered" /\ cache' = [cache EXCEPT !.me = body, !.meMissed = meRead.joined]
      /\ board' = Rendered(b, body) /\ meRead' = NoMeRead
      /\ save' = [save EXCEPT !.awaits = @ \ {"me"}] /\ UNCHANGED <<server, left, idem>>
  BY DEF DeliverMe, Awaited
<1>2. DOMAIN cache' = DOMAIN cache /\ cache'.me = body /\ cache'.meMissed = meRead.joined
  BY <1>1 DEF SavedInv, Shapes
<1>3. /\ DOMAIN save' = DOMAIN save /\ save'.phase = save.phase /\ save'.body = save.body
      /\ save'.recorded = save.recorded
  BY <1>1 DEF SavedInv, Shapes, SaveFields
<1>4. /\ DOMAIN b = BoardFields /\ b.selection = board.selection /\ b.baseline = board.baseline
      /\ b.fresh <=> (board.fresh \/ body # cache.me)
      /\ b.status = board.status
  BY DEF SavedInv, Shapes, BoardFields
<1> HIDE DEF b
<1>5. /\ DOMAIN board' = BoardFields /\ board'.status = board.status
      /\ \/ board' = b
         \/ /\ body # NoRead /\ ~board'.fresh
            /\ board'.baseline = body /\ board'.selection = body
      /\ board'.fresh /\ body # NoRead => Dirty(board')
  BY <1>1, <1>4, RenderedSeeds
<1>6. /\ DOMAIN meRead' = {"phase", "body", "joined"} /\ meRead'.phase = "idle"
      /\ meRead'.body = NoRead
  BY <1>1 DEF NoMeRead
<1>7. AfterSave /\ ByBoard /\ ~meRead.joined => body = Mine
  BY <1>1 DEF SavedInv, ReadTrue
<1>8. Shapes'
  BY <1>1, <1>2, <1>3, <1>5, <1>6 DEF SavedInv, Shapes
<1>9. MarksTyped'
  BY <1>1, <1>2, <1>3, <1>4, <1>5, <1>6 DEF SavedInv, MarksTyped
<1>10. KeyTrue' /\ SaveTrue'
  BY <1>1, <1>3, <1>5 DEF SavedInv, KeyTrue, SaveTrue, ByBoard, Mine
<1>11. ReadTrue' /\ CacheTrue'
  BY <1>1, <1>2, <1>3, <1>5, <1>6, <1>7 DEF ReadTrue, CacheTrue, AfterSave, ByBoard, Mine
<1>12. BaselineTrue'
  <2> SUFFICES ASSUME board.status = "saved", ByBoard
               PROVE  board'.fresh \/ board'.baseline \in {Mine, body}
    BY <1>1, <1>2, <1>5 DEF BaselineTrue, ByBoard, Mine
  <2>1. board.fresh \/ board.baseline \in {Mine, cache.me}
    BY DEF SavedInv, BaselineTrue
  <2>2. b.fresh \/ body = cache.me
    BY <1>4
  <2> QED
    BY <1>4, <1>5, <2>1, <2>2
<1>13. Seeded'
  BY <1>2, <1>5 DEF Seeded
<1> QED
  BY <1>8, <1>9, <1>10, <1>11, <1>12, <1>13 DEF SavedInv

\* A read of the own selection fails: when a save waits for it, nothing is claimed of the
\* cache until the next.
LEMMA SavedLostRead == ASSUME SavedInv, LoseMe PROVE SavedInv'
<1>1. /\ cache' = [cache EXCEPT !.meMissed = @ \/ save.phase = "settling"]
      /\ meRead' = NoMeRead
      /\ save' = [save EXCEPT !.awaits = @ \ {"me"}] /\ UNCHANGED <<server, board, left, idem>>
  BY DEF LoseMe, Awaited
<1>2. /\ DOMAIN cache' = DOMAIN cache /\ cache'.me = cache.me
      /\ ~cache'.meMissed => ~cache.meMissed /\ save.phase # "settling"
  BY <1>1 DEF SavedInv, Shapes
<1>3. /\ DOMAIN save' = DOMAIN save /\ save'.phase = save.phase /\ save'.body = save.body
      /\ save'.recorded = save.recorded
  BY <1>1 DEF SavedInv, Shapes, SaveFields
<1>4. /\ DOMAIN meRead' = {"phase", "body", "joined"} /\ meRead'.phase = "idle"
      /\ meRead'.body = NoRead
  BY <1>1 DEF NoMeRead
<1>5. Shapes' /\ MarksTyped'
  BY <1>1, <1>2, <1>3, <1>4 DEF SavedInv, Shapes, MarksTyped
<1>6. KeyTrue' /\ SaveTrue'
  BY <1>1, <1>3 DEF SavedInv, KeyTrue, SaveTrue, ByBoard, Mine
<1>7. ReadTrue' /\ CacheTrue'
  BY <1>1, <1>2, <1>3, <1>4 DEF SavedInv, ReadTrue, CacheTrue, ByBoard, Mine
<1>8. BaselineTrue' /\ Seeded'
  BY <1>1, <1>2 DEF SavedInv, BaselineTrue, Seeded, ByBoard, Mine
<1> QED
  BY <1>5, <1>6, <1>7, <1>8 DEF SavedInv

\* The steps of a save.
LEMMA SavedSaving == ASSUME SavedInv, Saving PROVE SavedInv'
<1>1. CASE SaveLost
  BY <1>1, SavedEnded DEF SaveLost
<1>2. CASE SaveRefused
  BY <1>2, SavedEnded DEF SaveRefused
<1> QED
  BY <1>1, <1>2, SavedHandled, SavedAccepted, SavedSettled, SavedHandledLeft, SavedEndLeft
  DEF Saving

\* The reads.
LEMMA SavedReading == ASSUME SavedInv, Reading PROVE SavedInv'
<1>1. CASE StartMatrix \/ LoadMatrix \/ AnswerMatrix
  BY <1>1, SavedKept DEF StartMatrix, LoadMatrix, AnswerMatrix
<1>2. CASE StartMe
  BY <1>2, SavedKept DEF StartMe
<1>3. CASE DeliverMatrix \/ LoseMatrix
  <2>1. /\ UNCHANGED <<server, board, left, idem, meRead>> /\ DOMAIN cache' = DOMAIN cache
        /\ cache'.me = cache.me /\ cache'.meMissed = cache.meMissed
        /\ save' = [save EXCEPT !.awaits = @ \ {"matrix"}]
    BY <1>3 DEF DeliverMatrix, LoseMatrix, Awaited, SavedInv, Shapes
  <2> QED
    BY <2>1, SavedKept
<1>4. CASE ReadGroup
  <2>1. /\ UNCHANGED <<server, board, save, left, idem, meRead>> /\ DOMAIN cache' = DOMAIN cache
        /\ cache'.me = cache.me /\ cache'.meMissed = cache.meMissed
    BY <1>4 DEF ReadGroup, SavedInv, Shapes
  <2> QED
    BY <2>1, SavedKept
<1> QED
  BY <1>1, <1>2, <1>3, <1>4, SavedAnswered, SavedDelivered, SavedLostRead DEF Reading

\* Every step keeps the invariant.
LEMMA SavedStep == ASSUME SavedInv, [Next]_vars PROVE SavedInv'
<1>1. CASE UNCHANGED vars
  BY <1>1, SavedKept DEF vars
<1> QED
  BY <1>1, SavedUser, SavedSaving, SavedReading, SavedElsewhere DEF Next

\* "Availability saved." is true unless the read of the own selection that it asks for was
\* missed: what the screen shows is what the server stores, unless another tab, a new
\* window or a save left behind has changed it since (AvailabilityBoard.tsx and the
\* idempotency middleware).
THEOREM SavedMessageHolds == Spec => []SavedMessageTrueAfterRead
BY SavedInit, SavedStep, SavedImplies, PTL DEF Spec
=============================================================================
