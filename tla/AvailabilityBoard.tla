--------------------------- MODULE AvailabilityBoard ---------------------------
(***************************************************************************)
(* The availability screen of one member (AvailabilityBoard.tsx) over the  *)
(* query cache and the server.                                             *)
(*                                                                         *)
(* The screen shows three reads: the member's own stored selection, the    *)
(* matrix of everybody's answers and the group.  The matrix and the group  *)
(* are polled with the ETag of the cached body; the own selection is read  *)
(* when the screen opens, when the window gets the focus and after a save. *)
(* Edits stay on the screen until Save sends the whole selection under an  *)
(* idempotency key.  Reads, saves, other members and another tab of the    *)
(* same member interleave freely; requests and answers may be lost.        *)
(*                                                                         *)
(* React renders after every change of state, and rendering may seed the   *)
(* grid: Rendered is therefore part of every action that changes what the  *)
(* screen shows.                                                           *)
(***************************************************************************)
EXTENDS AvailabilityModel

CONSTANTS
    Cells,          \* the slots of the widest window
    Windows,        \* the windows the owner may set, as sets of slots
    Me, Others,     \* this member and the other members
    Answers,        \* the selections others, and other tabs, may store
    NoRead,         \* a query that has no data yet
    MaxVersion      \* bounds the changes of the group

Members == Others \cup {Me}

ASSUME BoardAssumption ==
    /\ Me \notin Others
    /\ Windows \subseteq SUBSET Cells /\ Cells \in Windows
    /\ Answers \subseteq [Cells -> CellStates] /\ NoRead \notin [Cells -> CellStates]
    /\ MaxVersion \in Nat

VARIABLES
    server,     \* the group and the availability rows
    cache,      \* the query cache
    board,      \* the state of the component
    save,       \* the mutation of the component
    left,       \* the save of a component that was left before it ended
    idem,       \* the key of the last saved body, and the answer recorded for it
    meRead,     \* the read of the own selection that is on its way
    matrixRead  \* the conditional read of the matrix that is on its way

vars == <<server, cache, board, save, left, idem, meRead, matrixRead>>

Selection == [Cells -> CellStates]
Empty == [c \in Cells |-> "unselected"]
SaveAnswers == {"saved", "confirmed", "stale-slots"}

Matrix(s, slots) == MatrixOf(slots, s.marks, s.responded)

NewBoard == [selection |-> Empty, baseline |-> Empty, fresh |-> TRUE,
             confirmedByServer |-> FALSE,
             status |-> "idle"]
NoSave == [phase |-> "idle", body |-> Empty, recorded |-> "none", awaits |-> {}]
NoMeRead == [phase |-> "idle", body |-> NoRead, joined |-> FALSE]
NoKey == [body |-> NoRead, answer |-> "none"]
NoMatrixRead == [phase |-> "idle", sent |-> 0, tag |-> 0, body |-> NoRead]

Init ==
    /\ \E sel \in Answers :
         server = [slots |-> Cells, marks |-> [m \in Members |-> sel],
                   responded |-> Members, state |-> "open", version |-> 1, by |-> "other"]
    /\ cache = [me |-> NoRead, meMissed |-> FALSE,
                matrix |-> [tag |-> 0, body |-> NoRead],
                group |-> [tag |-> 1, state |-> "open"]]
    /\ board = NewBoard
    /\ save = NoSave /\ left = NoSave
    /\ idem = NoKey
    /\ meRead = [NoMeRead EXCEPT !.phase = "sent"]
    /\ matrixRead = [NoMatrixRead EXCEPT !.phase = "sent"]

Dirty(b) == b.selection # b.baseline
Pending == save.phase # "idle"
ReadOnly == cache.group.state = "confirmed" \/ board.confirmedByServer
Shown == cache.matrix.body # NoRead
MatrixAgain == [NoMatrixRead EXCEPT !.phase = "sent", !.sent = cache.matrix.tag]

\* Mutant of Rendered: a read is applied whatever is on the screen.
RenderedAlways(b, me) ==
    IF me # NoRead /\ b.fresh
    THEN [b EXCEPT !.fresh = FALSE, !.baseline = me, !.selection = me]
    ELSE b

\* What rendering does to the state: a read that has not seeded the grid yet
\* (b.fresh) seeds it as soon as nothing is unsaved.
Rendered(b, me) ==
    IF me # NoRead /\ b.fresh /\ ~Dirty(b)
    THEN [b EXCEPT !.fresh = FALSE, !.baseline = me, !.selection = me]
    ELSE b

-----------------------------------------------------------------------------
(* The user.                                                               *)

\* All the cells take one state, the one that the first of them is moving to.
Apply(first, cells) ==
    /\ Shown /\ ~ReadOnly /\ ~Pending
    /\ cells \subseteq cache.matrix.body.slots
    /\ board' = Rendered([board EXCEPT !.selection =
                   ApplyState(@, cells, NextState(@[first]))], cache.me)
    /\ UNCHANGED <<server, cache, save, left, idem, meRead, matrixRead>>

\* A press on cell c, and the drag that crosses the cells.
Drag(c, cells) == c \in cells /\ Apply(c, cells)

\* Space or Enter on the focused cell.
PressKey(c) == Apply(c, {c})

Discard ==
    /\ Shown /\ ~ReadOnly /\ ~Pending /\ Dirty(board)
    /\ board' = Rendered([board EXCEPT !.selection = board.baseline], cache.me)
    /\ UNCHANGED <<server, cache, save, left, idem, meRead, matrixRead>>

\* Bounds the changes of the group, those that saves on their way may make included.
Changes ==
    server.version + (IF save.phase = "sent" THEN 1 ELSE 0)
                   + (IF left.phase = "sent" THEN 1 ELSE 0) < MaxVersion

\* save(): the Save button, or Retry on the notice of a failed save.  The key is
\* kept while the body is the one it was minted for.
PressSave ==
    /\ ~Pending
    /\ \/ Shown /\ ~ReadOnly /\ Dirty(board)
       \/ board.status = "notice"
    /\ Changes
    /\ LET key == IF idem.body = board.selection THEN idem
                  ELSE [body |-> board.selection, answer |-> "none"]
       IN /\ idem' = key
          /\ save' = [NoSave EXCEPT !.phase = "sent", !.body = board.selection,
                                    !.recorded = key.answer]
    /\ board' = [board EXCEPT !.status = "pending"]
    /\ UNCHANGED <<server, cache, left, meRead, matrixRead>>

\* A save that still matters when its component is gone: nobody is told of a refusal.
GoesOn == save.phase = "sent" \/ (save.phase = "answered" /\ save.recorded = "saved")

\* Leaving the screen, through the blocker when something is unsaved, and opening
\* it again: the component starts afresh over the cache it left, and opening reads
\* everything again.  A save on its way goes on without it, beside the ones that the
\* new component sends (bound: one such save at a time).
Reopen ==
    /\ GoesOn => left.phase = "idle"
    /\ board' = Rendered(NewBoard, cache.me)
    /\ idem' = NoKey
    /\ save' = NoSave
    /\ left' = IF GoesOn THEN save ELSE left
    /\ meRead' = IF meRead.phase = "idle" THEN [meRead EXCEPT !.phase = "sent"] ELSE meRead
    /\ UNCHANGED <<server, cache, matrixRead>>

\* "Reload the grid" after slot_not_in_window.
ReloadGrid ==
    /\ board.status = "stale-slots"
    /\ board' = [board EXCEPT !.status = "idle"]
    /\ matrixRead' = MatrixAgain
    /\ UNCHANGED <<server, cache, save, left, idem, meRead>>

-----------------------------------------------------------------------------
(* A save: the request, the middleware and the handler, the answer.        *)

\* The idempotency middleware replays the answer recorded for the key; otherwise
\* the handler runs and its answer is recorded.
SaveAnswer(sv) ==
    IF sv.recorded # "none" THEN sv.recorded
    ELSE IF server.state = "confirmed" THEN "confirmed"
    ELSE IF OrphanedSlots(sv.body, server.slots) # {} THEN "stale-slots"
    ELSE "saved"

Stored(sv, by) ==
    IF sv.recorded = "none" /\ SaveAnswer(sv) = "saved"
    THEN [server EXCEPT !.marks[Me] = sv.body, !.by = by,
                        !.responded = @ \cup {Me}, !.version = @ + 1]
    ELSE server

HandleSave ==
    /\ save.phase = "sent"
    /\ save' = [save EXCEPT !.phase = "answered", !.recorded = SaveAnswer(save)]
    /\ idem' = [idem EXCEPT !.answer = SaveAnswer(save)]
    /\ server' = Stored(save, "board")
    /\ UNCHANGED <<cache, board, left, meRead, matrixRead>>

\* The mutation ends, and the component learns how.
Ended(status) ==
    /\ save' = NoSave
    /\ board' = [board EXCEPT !.status = status,
                              !.confirmedByServer = @ \/ status = "confirmed"]

\* The request or its answer is lost, or the server answers with a 5xx.
SaveLost ==
    /\ save.phase \in {"sent", "answered"}
    /\ Ended("notice")
    /\ UNCHANGED <<server, cache, left, idem, meRead, matrixRead>>

SaveRefused ==
    /\ save.phase = "answered" /\ save.recorded # "saved"
    /\ Ended(save.recorded)
    /\ UNCHANGED <<server, cache, left, idem, meRead, matrixRead>>

\* Mutant of Invalidated: every read that is on its way is joined.
InvalidatedJoining ==
    /\ meRead' = IF meRead.phase = "idle" THEN [NoMeRead EXCEPT !.phase = "sent"]
                 ELSE meRead
    /\ matrixRead' = IF matrixRead.phase = "idle" THEN MatrixAgain ELSE matrixRead

\* The success handler of the mutation invalidates the matrix and, under the same
\* prefix, the own selection.  A read on its way is cancelled and sent again when its
\* query has data; the first read of a query is joined, and it may have been answered
\* before the save.  (The screen shows the matrix, so that one has data.)
Invalidated ==
    /\ meRead' = IF meRead.phase # "idle" /\ cache.me = NoRead
                 THEN [meRead EXCEPT !.joined = meRead.phase = "answered"]
                 ELSE [NoMeRead EXCEPT !.phase = "sent"]
    /\ matrixRead' = MatrixAgain

\* Both are read before the mutation ends.
SaveAccepted ==
    /\ save.phase = "answered" /\ save.recorded = "saved"
    /\ save' = [save EXCEPT !.phase = "settling", !.awaits = {"me", "matrix"}]
    /\ Invalidated
    /\ UNCHANGED <<server, cache, board, left, idem>>

\* The answer becomes the selection and the baseline; seeded (b.fresh) stays.
SaveSettled ==
    /\ save.phase = "settling" /\ save.awaits = {}
    /\ save' = NoSave
    /\ board' = Rendered([board EXCEPT !.status = "saved", !.selection = save.body,
                                       !.baseline = save.body], cache.me)
    /\ UNCHANGED <<server, cache, left, idem, meRead, matrixRead>>

\* The save of a component that was left: it is handled like any other, and for this
\* screen it is one of the writes from elsewhere.
HandleLeft ==
    /\ left.phase = "sent"
    /\ left' = IF SaveAnswer(left) = "saved"
               THEN [left EXCEPT !.phase = "answered", !.recorded = "saved"]
               ELSE NoSave
    /\ server' = Stored(left, "other")
    /\ UNCHANGED <<cache, board, save, idem, meRead, matrixRead>>

\* Its end: nobody is told, but the queries are invalidated all the same.
EndLeft ==
    /\ left.phase # "idle"
    /\ left' = NoSave
    /\ \/ UNCHANGED <<meRead, matrixRead>>
       \/ left.phase = "answered" /\ Invalidated
    /\ UNCHANGED <<server, cache, board, save, idem>>

-----------------------------------------------------------------------------
(* The reads.  One request per query is on its way at a time.              *)

Awaited(query) == save' = [save EXCEPT !.awaits = @ \ {query}]

\* The window gets the focus.
StartMe ==
    /\ meRead.phase = "idle"
    /\ meRead' = [meRead EXCEPT !.phase = "sent"]
    /\ UNCHANGED <<server, cache, board, save, left, idem, matrixRead>>

AnswerMe ==
    /\ meRead.phase = "sent"
    /\ meRead' = [NoMeRead EXCEPT !.phase = "answered", !.body = server.marks[Me]]
    /\ UNCHANGED <<server, cache, board, save, left, idem, matrixRead>>

\* An equal body keeps the identity of the cached one, so it seeds nothing.  A read
\* that an invalidation joined after it was answered may miss the save (meMissed).
DeliverMe ==
    /\ meRead.phase = "answered"
    /\ cache' = [cache EXCEPT !.me = meRead.body, !.meMissed = meRead.joined]
    /\ board' = Rendered([board EXCEPT !.fresh = @ \/ meRead.body # cache.me], meRead.body)
    /\ meRead' = NoMeRead
    /\ Awaited("me")
    /\ UNCHANGED <<server, left, idem, matrixRead>>

\* A read that fails.  It changes nothing on the server, so a request that is lost
\* looks like an answer that is lost.  The one that a save waits for is missed.
LoseMe ==
    /\ meRead.phase = "answered"
    /\ cache' = [cache EXCEPT !.meMissed = @ \/ save.phase = "settling"]
    /\ meRead' = NoMeRead
    /\ Awaited("me")
    /\ UNCHANGED <<server, board, left, idem, matrixRead>>

\* A poll, the focus, opening the screen: If-None-Match is the tag of the cached body.
StartMatrix ==
    /\ matrixRead.phase = "idle"
    /\ matrixRead' = MatrixAgain
    /\ UNCHANGED <<server, cache, board, save, left, idem, meRead>>

\* get_availability_matrix reads the groups row, which gives the tag and the
\* slots, and then the rows of availability.
LoadMatrix ==
    /\ matrixRead.phase = "sent"
    /\ matrixRead' = [matrixRead EXCEPT !.phase = "loaded", !.tag = server.version,
                                        !.body = server.slots]
    /\ UNCHANGED <<server, cache, board, save, left, idem, meRead>>

\* Mutant of AnswerMatrix: the tag is the version after the rows were read, while
\* the slots are from before.
AnswerMatrixLateTag ==
    /\ matrixRead.phase = "loaded"
    /\ matrixRead' = [matrixRead EXCEPT !.phase = "answered", !.tag = server.version,
                                        !.body = Matrix(server, matrixRead.body)]
    /\ UNCHANGED <<server, cache, board, save, left, idem, meRead>>

NotModified == matrixRead.tag = matrixRead.sent

AnswerMatrix ==
    /\ matrixRead.phase = "loaded"
    /\ matrixRead' = [matrixRead EXCEPT !.phase = "answered",
                                        !.body = IF NotModified THEN NoRead
                                                 ELSE Matrix(server, @)]
    /\ UNCHANGED <<server, cache, board, save, left, idem, meRead>>

\* A 304 puts the cached read back; a 200 replaces body and tag together.
DeliverMatrix ==
    LET read == IF NotModified THEN cache.matrix
                ELSE [tag |-> matrixRead.tag, body |-> matrixRead.body]
    IN
    /\ matrixRead.phase = "answered"
    /\ cache' = [cache EXCEPT !.matrix = read]
    /\ matrixRead' = NoMatrixRead
    /\ Awaited("matrix")
    /\ UNCHANGED <<server, board, left, idem, meRead>>

LoseMatrix ==
    /\ matrixRead.phase = "answered"
    /\ matrixRead' = NoMatrixRead
    /\ Awaited("matrix")
    /\ UNCHANGED <<server, cache, board, left, idem, meRead>>

\* The conditional read of the group: one row, so one instant.
ReadGroup ==
    /\ cache.group.tag # server.version
    /\ cache' = [cache EXCEPT !.group = [tag |-> server.version, state |-> server.state]]
    /\ UNCHANGED <<server, board, save, left, idem, meRead, matrixRead>>

-----------------------------------------------------------------------------
(* The others: other members, the owner, and this member in another tab.   *)

\* Every change of the group or of its availability bumps the version.
ServerStep(s) ==
    /\ Changes
    /\ server' = [s EXCEPT !.version = @ + 1]
    /\ UNCHANGED <<cache, board, save, left, idem, meRead, matrixRead>>

AnswerElsewhere(m, sel) ==
    /\ server.state = "open" /\ Selected(sel) \subseteq server.slots
    /\ ServerStep([server EXCEPT !.marks[m] = sel, !.responded = @ \cup {m},
                                 !.by = IF m = Me THEN "other" ELSE @])

\* Mutant of ConfirmOrReopen: the version stays.
ConfirmOrReopenUnversioned ==
    /\ Changes
    /\ server' = [server EXCEPT !.state = IF @ = "open" THEN "confirmed" ELSE "open"]
    /\ UNCHANGED <<cache, board, save, left, idem, meRead, matrixRead>>

ConfirmOrReopen ==
    ServerStep([server EXCEPT !.state = IF @ = "open" THEN "confirmed" ELSE "open"])

\* New bounds delete the rows outside them.
MoveWindow(w) ==
    /\ w # server.slots
    /\ ServerStep([server EXCEPT !.slots = w,
          !.marks = [m \in Members |-> ApplyState(@[m], Cells \ w, "unselected")],
          !.by = IF Selected(server.marks[Me]) \subseteq w THEN @ ELSE "other"])

User ==
    \/ \E c \in Cells : PressKey(c) \/ \E cells \in SUBSET Cells : Drag(c, cells)
    \/ Discard \/ PressSave \/ Reopen \/ ReloadGrid

Saving ==
    \/ HandleSave \/ SaveLost \/ SaveRefused \/ SaveAccepted \/ SaveSettled
    \/ HandleLeft \/ EndLeft

Reading ==
    \/ StartMe \/ AnswerMe \/ DeliverMe \/ LoseMe
    \/ StartMatrix \/ LoadMatrix \/ AnswerMatrix \/ DeliverMatrix \/ LoseMatrix
    \/ ReadGroup

Elsewhere ==
    \/ \E m \in Members, sel \in Answers : AnswerElsewhere(m, sel)
    \/ ConfirmOrReopen
    \/ \E w \in Windows : MoveWindow(w)

Next == User \/ Saving \/ Reading \/ Elsewhere

\* The poll timer runs and requests are answered.  Not every answer is lost, and
\* not every read is cancelled by a save or a reload of the grid.
Fairness ==
    /\ WF_vars(StartMatrix) /\ WF_vars(LoadMatrix) /\ SF_vars(AnswerMatrix)
    /\ SF_vars(DeliverMatrix) /\ WF_vars(ReadGroup)

Spec == Init /\ [][Next]_vars /\ Fairness

-----------------------------------------------------------------------------
(* Properties.                                                             *)

\* Unsaved work is never overwritten: whatever polls, focus reads, other tabs, new
\* windows and failed saves arrive, marks that differ from the baseline change only
\* by the user's own hand, or when the save of them ends (AvailabilityBoard.tsx,
\* the comment on seeding).
WorkKept ==
    [][Dirty(board) /\ board'.selection # board.selection => User \/ SaveSettled]_vars

\* A tag vouches for its body: when the cached tag is the current version the
\* cached matrix is the current one, so a 304 never confirms a stale grid, even
\* though the server reads the version and the rows in two statements.
TagVouches ==
    /\ cache.matrix.tag = server.version =>
          cache.matrix.body = Matrix(server, server.slots)
    /\ cache.group.tag = server.version => cache.group.state = server.state

\* "Availability saved." is true: the marks on the screen are the ones the server
\* stores, unless another tab or a new window has changed them since.
SavedMessageTrue ==
    board.status = "saved" /\ ~Dirty(board) /\ server.by = "board"
        => board.selection = server.marks[Me]

\* The same unless the read of the own selection that the save asks for failed, or was
\* a first read that the save joined when it had been answered already, and none has
\* arrived since.
SavedMessageTrueAfterRead == ~cache.meMissed => SavedMessageTrue

\* The grid and the freeze converge: once the group stops changing, the screen
\* comes to show its matrix and its state, and goes on showing them.
Converges ==
    <>[](/\ cache.matrix.body = Matrix(server, server.slots)
         /\ cache.group.state = server.state)
=============================================================================
