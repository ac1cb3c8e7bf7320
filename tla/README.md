# Schedular: TLA+ specifications and proofs

Schedular is a group scheduling service: members of a group mark the slots they
can make, the owner proposes meeting times, members vote, the owner confirms one.
A FastAPI backend (`backend/app`) keeps everything in PostgreSQL, a worker
process runs background jobs from a table, and a React application
(`frontend/src`) talks to the API with conditional reads and idempotent writes.

These modules model the parts of it that are hard to get right and hard to test:
requests that share rows they do not lock, screens whose reads and writes
overtake each other, retries under idempotency keys, token rotation in several
tabs, a job table whose worker may die, and clocks that change.

## Inventory

| component | state | what is hard | what makes it correct |
| --- | --- | --- | --- |
| group services (`services/groups.py`, `memberships.py`, `availability.py`, `proposals.py`, `confirmation.py`) | the tables of a group | requests decide on rows they read earlier and lock nothing; READ COMMITTED; the ORM writes only changed columns | the invariants of docs/ARCHITECTURE.md section 5 |
| circuit breaker (`infra/circuit.py`, `infra/db.py`) | state, history, counters, probe slot | a call outlives the state it was admitted in | the slot is never lost, the counters agree, the circuit recovers |
| idempotency (`api/idempotency.py`) | idempotency_records | three sessions for one request; keys that the client reuses | a retry has one effect |
| availability board (`features/availability`) | selection, baseline, key; query cache | reads that overtake edits and saves, 304s, another tab | unsaved work is kept, saved work is what is shown, the grid converges |
| scheduling and vote screens (`features/scheduling`) | one mutation per control, keys, query cache | a cancelled panel whose mutation runs on, spliced votes, twins of one key | tags vouch for bodies, one effect per key, every press ends |
| group pages and forms (`features/groups`, `pages/JoinPage.tsx`) | the same | edits and refreshes during a mutation, validators of stale reads | one body is one request, a rename replaces what was shown |
| sessions (`services/auth.py`, `api/session.ts`, `api/client.ts`, `app/`) | refresh tokens, cookie, tabs, boot gate | rotation in two statements, reloads, lost answers, the Web Lock | the rotation signs nobody out, every wait ends |
| slots and suggestions (`domain/slots.py`, `domain/suggestions.py`, `lib/slots.ts`) | none | clock changes, computed twice independently | browser and server agree |
| job queue, reminders, calendar polls (`worker/`, `services/calendars.py`, `pages/CalendarSourcesPage.tsx`) | jobs, calendar_sources | jobs deleted while they run, death of the worker, dedupe keys of completed jobs | one chain of polls, reminders of the meeting that is confirmed |
| the rest | | | see Not modelled |

A request passes the idempotency middleware and a router, and runs inside
`guarded_session`, which asks the breaker before and reports to it after.
Services leave work for the worker in the jobs table. The frontend sees the
database only through reads whose ETag carries `groups.version`, and writes
through mutations that carry an idempotency key, or none.

`PROJECT.json` lists the components with their sources, the hazards at the lines
where they bite with the properties that cover them, and the lines each
definition stands for.

## Modules

| module | models |
| --- | --- |
| `GroupScheduling` | the group services over their tables, as interleaved requests |
| `GroupContract` | what the services promise, as atomic operations |
| `CircuitBreaker` | the breaker and the calls inside `guarded_session` |
| `Idempotency` | what a record means for a request with the same key |
| `AvailabilityModel` | the pure part of the grid and of the matrix |
| `AvailabilityBoard` | the availability screen over cache and server; extends `AvailabilityModel` |
| `ProposalScreens` | the proposals board of one user; extends `Idempotency` |
| `GroupScreens` | the pages about a group; extends `Idempotency` |
| `Sessions` | the tabs of a browser, the refresh cookie, the tokens on the server |
| `Slots` | slots, forms and suggestions over zones that change; extends `AvailabilityModel` |
| `JobQueue` | the job table, the worker and the producers of jobs |
| `CalendarScreen` | the calendar sources page on top of `JobQueue` |
| `GroupScheduling_proofs` | TLAPS: what holds of any number of overlapping requests, and that what is not a late commit implements `GroupContract` |
| `*_proofs`, the others | TLAPS proofs about `CircuitBreaker`, `AvailabilityBoard`, `ProposalScreens`, `GroupScreens`, `Sessions`, `Slots`, `CalendarScreen` |
| `MC*` | small instances for TLC |

### GroupScheduling and GroupContract

The tables are variables. A request is a record in `req[r]` with its own copy of
the groups row: `row` as the session loaded it, `obj` as the session holds it
now, and the inserts, updates and deletes that the flush will write. It moves in
three steps:

1. `Load` is the SELECT of the groups row and of the caller's membership.
2. One action per service function (`UpdateGroup`, `JoinGroup`, `PutVote`, ...)
   is the rest of the function: its further SELECTs see the tables of that
   moment, its guards on the group see the loaded row. `Finish` ends a request
   that only reads, or that a guard rejects.
3. `Commit` is the flush and the COMMIT. `Flushed` writes the columns whose
   value changed in the session, over whatever is stored now, as SQLAlchemy
   does. `Flushable` is the part of the constraints that a race can break.
   `Abort` is a commit that fails for these or other reasons, and rolls back.

The two SELECTs of `Load`, and the later reads of one request, are each one
instant. A DELETE inside a request takes row locks that the model does not have,
so it allows a few more orders than PostgreSQL; no trace of `race_version` needs
one. Names, descriptions, feed tokens and times of update are left out, so a
PATCH of them is an `UpdateGroup` that changes the version alone. `archived` is
never assigned by the code. Slugs are fresh.

A display name is not in these tables: PATCH /me (`api/me.py:93`) changes what members
are shown as without a new version of any group, and is left out.

`overtaken` is a history variable: the requests in flight that have seen their group before
another request committed a change to it. A commit by one of them is a *late commit*
(`LateCommit`). The code does nothing to prevent one, and what is lost to it is listed under
Known disagreements. So the properties of the tables are stated as: whatever requests are in
flight, nothing but a late commit breaks this. That speaks of every interleaving, and of
states that late commits have already spoilt: there, too, only another late commit, never a
current request, loses something that holds. `LimitsHold` counts instead: a request that
has counted and not yet committed may exceed a limit by one.

`GroupContract` has eleven operations on the same tables (a vote is cast and
taken back by one), each atomic with its guards and its effect. The two share
the names of the tables, so the refinement mapping is the identity on them and
hides the sessions. `KeepsContract` is the refinement: every `Commit` is one step of the
contract, or late, and every other step a stutter. With one request in flight no commit is
late, and the refinement is unconditional: that is `groups_serial`.

### CircuitBreaker

Every method of the breaker holds its lock for all it reads and writes, so a
method is one action; a call is `"running"` from `BeforeCall` to `RecordSuccess`
or `RecordFailure`, and the circuit may change under it. Instants are kept as
ages that stop growing once no comparison can tell them apart, so time is
unbounded. `database` says whether calls can fail at the moment;
`RecordFailure` stands for any SQLAlchemyError, `RecordSuccess` for every other
end, the exceptions of the services included. `probes` is a history variable.
Metrics counters and the alert are left out.

### The screens

`AvailabilityBoard`, `ProposalScreens` and `GroupScreens` share one scheme.
`server` is the part of the database the screen is about, with other users and
other tabs as actions (`Elsewhere`) that change it. `cache` (or `detail` and
`roster`) is the React Query cache; a read of several statements is `sent`,
`loaded` and `answered`, and a conditional one carries the tag of the cached
body, so that a 304 puts the cached body back. A press sends a mutation: an
element of `calls` (`save` on the availability screen), looked up, run and
recorded by the middleware in three steps, which may lose its answer
(`GiveUp`, `SaveLost`) or its process (`Vanish`), or be detached from the control
that started it, as React Query detaches an observer that is reset or unmounted.
What a success has read again before its callbacks run, and which reads it
cancels, follows each mutation's `onSuccess`. A success
cancels a read on its way and sends it again only when its query has data; React Query
joins a first read, which may have been answered before the success (`Invalidated` of the
availability screen). A screen that is left leaves its save behind (`left`), which
ends without it while the screen that was opened again sends its own. Rendering is part of every action
that changes what is shown: `Rendered` seeds the availability grid, or unmounts
the controls the reads no longer show.

`effects` and `made` are history variables: which keys, or presses, changed the
group, and which changed it twice.

### Sessions

A tab is its page, its boot reads, its access token and its sign-in form. A call to
`/auth` is `queued` for the Web Lock, `sent`, `decided` (the server has read the
row) and `answered` (it has committed); a reload leaves it behind as an orphan
that the server still finishes, and whose cookie the browser may or may not
keep. A token is its place in the sequence of tokens issued. A revocation is
`aged` once the grace window of 30 s has passed. `scene` picks what may happen in one
behaviour.

### Slots

One slot is the unit of time. `GenerateSlots`, `WallToInstant` and `BuildSlotGrid` are
those of `lib/slots.ts`, `ServerSlots` is `domain/slots.py`, which resolves times by
another rule; a zone is an offset, the instant of a change and the next offset. The
actions are the forms: a group is created, its window moved, it is read by the page, a
window is chosen and submitted. The suggestions are those of all
members, each with a habit: to have answered that it can never, at early hours or on some
days, or not to have answered at all (`"silent"`). Their score order and limit are left out.

An array of slots is the set of its entries, each the day that pushed it and its instant:
both loops push days, and instants within a day, in ascending order, so `Before` is the order
of the array and `Place` the index of an entry. A slot that two days push is two entries.

### JobQueue and CalendarScreen

A job is free, waiting, locked or done, and a completed one is kept only for its
dedupe key. The worker's phases are the transactions of `worker/main.py`: claim,
handle, complete or retry; between any two of them the API acts and the process may die.
`due` is the order in which jobs became due, which is all that `claim_job` asks of
`run_after`. A new job takes a free row: `JobIds` bounds the table, and what would need
more rows waits.
A poll ends parsed, not modified, with one of the two errors that the handler knows and
writes into the source (`PollFailed`), or with any other exception, which leaves the source
as it was (`PollRaised`); the job is tried again after both.

Confirmation is one request in two steps and reopening in three: the reads (`ReadConfirm`,
`ReadUnconfirm`), the DELETE of the reminders, whose rows nobody else may write until it ends
(`CancelReminders`, `Held`), and the commit, over whatever the group is by then. Requests
overlap, and `group.overtaken` and `group.late` are the history of late commits, as in
`GroupScheduling`. `CalendarScreen`
adds the page with its four mutations and its list; a refresh is two steps, what it
reads and what it commits. Two bounds shape the time of it: a cooldown, and the wait of a
job, are longer than a request that has read and than the moment between the end of a
handler and that of its job (`Moment`); one upload runs at a time.

## Runs

| run | checks | distinct states |
| --- | --- | --- |
| `groups_serial` | one request at a time, every operation, larger bounds: types, the limits exactly, refinement of `GroupContract` without exception | 554 000 |
| `groups_concurrent` | two overlapping requests, every operation: state and proposal, authority, the inductive invariant; and refinement, freeze, version, If-Match and the rows of a group, which only a late commit breaks | 1 589 000 |
| `breaker` | three overlapping calls: probe slot, counters, limits, recovery | 52 000 |
| `board` | the availability screen: unsaved work kept, tags vouch, "saved" is true but for the reads named there, convergence | 1 625 000 |
| `screens` | the proposals board: tags vouch, one effect per key, every press ends | 283 000 |
| `group_screens` | the group pages: one body one request, a rename replaces what was shown, a link shown is new, nothing spins for ever | 405 000 |
| `sessions` | two tabs: the rotation signs nobody out, every wait ends | 138 000 |
| `slots` | six clock changes: browser and server agree on slots, forms and suggestions | 45 000 |
| `calendars` | worker, reminders and sources: one chain of polls, reminders that fit over overlapping confirmations, pending ends, presses show their effect | 748 000 |
| `race_version` | every change of a group counts in its version, with two overlapping requests | violated |
| `vote_key` | a change of mind is a new request | violated |
| `poll_refresh` | a refresh enqueues a poll | violated |

Each property of a passing run has a mutant in `PROJECT.json`, an operator next
to the one it mutates, that TLC refutes under the same configuration.

### Bounds, and why they are enough

* `groups_serial`: one group, three users with room for two members, two slots, two
  proposals with a limit of one, six changes after creation: every limit is reached,
  a proposal can be replaced, a member removed and let in again, a confirmation taken
  back and repeated. With one group the limit of groups per user binds only at
  creation; `LimitsHold` is about members and proposals. For several requests the limits are
  proved, not run.
* `groups_concurrent`: two requests of two users overlap on every pair of operations,
  three changes after creation. Two are enough for a commit to be late, and three for a
  property to be lost by one and looked at by others. Both proposals cover one slot and requests
  carry no identity, so both are permuted freely (`ConcurrentSymmetry`).
* `breaker`: the limits are scaled down and keep their order (history of 5, 3
  consecutive failures, more than 2 of a full history, pause 2, 2 probes). Of three calls
  one can be admitted before the circuit opens, one as a probe, one tries to be second.
* `board`: one cell, two windows, one member in two tabs, two changes; one save at a time is left behind. A cell is enough
  to tell baseline, edit, save and stored answer apart; the property about tags and the
  one about unsaved work are proved for any cells and members.
* `screens`, `group_screens`: one kind of control at a time, two requests on their way,
  two or three changes: the control and a twin of its key, or its detached predecessor.
  The two creation forms are together in one behaviour, since they share the limit.
* `sessions`: two tabs, a read and a mutation in one and a read in the other, one fault
  (a loss or a reload) and one expiry, with and without the Web Lock. The scenes combine
  what interacts; `HonestTabsStaySignedIn` is about behaviours without a fault.
* `slots`: a day of 12 slots, three days around the change, nine daily windows with an edge
  before, in and after the change, and across the whole day; zones that skip or repeat
  hours by night, at midnight, before midnight, across midnight, and west of UTC. Two members,
  each with one of four habits, one of them not to answer.
* `calendars`: two sources with a limit of one, two proposals, a member to remind, two
  requests of the owner, four job rows, one loss or death. The calendars and the group share
  only the worker, so they are scenes of their own. After a late commit no request of the
  owner starts (`Goes`, a scene with "late" would lift it): what `RemindersFit` says of the
  time after one does not depend on the requests. The theorems have no such bound, nor any
  of the others.

Deadlock is checked in `breaker`. Elsewhere the system may really rest: identifiers,
versions and time run out, and a service, or a page, without requests does nothing.

### Fairness

* `breaker`: the clock ticks; every call ends, since statements time out after 3 s and
  connections after the pool's 2 s; calls keep coming, because `/readyz` asks the database
  through the breaker. None is assumed of the database.
* `board`, `screens`, `group_screens`: poll timers fire, requests that were sent are served
  and their answers arrive or the client gives up. Reads that other actions may cancel and
  repeat need strong fairness (not every read is cancelled). Users are never obliged to act.
* `sessions`: a call is granted the lock, decided, committed and received unless it is lost;
  the boot timer fires; the page runs its effects. Grant is exclusive, but a call that ends
  frees the lock, so weak fairness of the steps of each tab is enough.
* `calendars`: the API commits the refresh it has read, the worker works and is restarted (the
  deployment restarts it), and the hour of a job comes however often the user presses
  refresh (strong, since `Moment` disables it again and again).

## Known disagreements

Three runs end in a violation and are the findings of `PROJECT.json`.

* `race_version`: a service decides on a groups row that it read without a lock, and its UPDATE
  is not conditional on `version`. Two requests from the same row leave one version for two
  changes, against ARCHITECTURE.md:156. The same late commits lose the rest of section 5: a
  proposal is deleted under a confirmation, a confirmed group gains votes, two PATCHes with one
  validator both succeed, a write comes after the removal of its member or after new bounds,
  a limit is exceeded by one, two availability replacements of one user merge.
  `groups_concurrent` and the theorems say that nothing else loses them.
  Three things survive even late commits and are proved: state and confirmed proposal move
  together, the owner is the owner, and no change happens on stale authority.
  `AvailabilityBoard` and `ProposalScreens` assume that a change bumps the version:
  convergence is as good as that.
* `vote_key`: one idempotency key serves a vote control for as long as it is mounted, so a change of
  mind is refused as a reuse of the key; the comment at VoteControl.tsx:53 says otherwise.
* `poll_refresh`: a completed poll keeps its unique dedupe key, so after the first poll every
  manual refresh fails; the API contract says that it enqueues a poll.

Others met on the way, visible in the models but without a run:

* Breaker: ARCHITECTURE.md section 9 says one probe at a time, and open on more than half
  failures. A call admitted before the circuit opened can end after it became half-open; it is
  counted as the probe and frees the slot, so a second probe starts. The rate is only evaluated
  when a failure is recorded, so a success that completes a bad history leaves the circuit
  closed: `ClosedBelowLimits` says what does hold.
* Slots: browser and server differ when an edge of the daily window lies inside a skipped or
  repeated hour (`EdgeInChange`). The comment at lib/slots.ts:131 says that a time which does not exist
  rolls forward onto the first that does; it rolls by the length of the gap. When a skipped
  hour contains midnight, the server's next local day begins only after its first slots, which
  the browser lists. The theorems about `Slots` name these cases and have no other exception.
  A suggestion may cross midnight when the daily window is the whole day, or when the clocks
  change inside the suggestion (`DaysMeet`); ARCHITECTURE.md:170-171 says that windows
  across a day boundary are discarded. A member who has not answered is missing for every
  suggestion, and is not named by the grid.
  After the window moves, the date chosen in the manual form may be gone, and submitting does
  nothing.
* Sessions: the middleware stores a 401 and replays it to the retry of a keyed write, where
  ARCHITECTURE.md:369 says "refresh and retry once". A refresh that is in flight at sign-out sets
  the session again. After a lost rotated cookie the documents disagree on the outcome
  (ARCHITECTURE.md:210-214, docs/backend.md:234-239). Without Web Locks, two quick rotations
  in one tab let the delayed refresh of another revoke the family.
* Jobs: a job in the hand of a worker that dies stays locked for ever; an answer 304 plans no
  next poll; a source deleted while it is fetched makes the flush fail, and the retry then ends
  the process; reminders that became due while the worker was down are sent late; a mail that
  was sent and reported as failed is sent twice. An exception of a poll that is neither
  IcsFetchError nor IcsParseError (worker/calendar.py:68-82) leaves the source pending, and its
  job is tried again for ever. Two confirmations that overlap both commit, and the reminders of
  the proposal that lost stay; a confirmation and a reopening do the like, and a second
  confirmation may then be refused for a key of the first. `PollChain`, `PendingEnds` and
  `RemindersFit` name these exceptions, and say that there are no others.
* Board: a success of a save joins the first read of the own selection. If that was answered
  before the save, the screen shows the old marks under "Availability saved.", until
  the selection is read again; the comment at AvailabilityBoard.tsx:352-353 counts on an earlier
  read. `SavedMessageTrueAfterRead` excepts it.
* Screens: Cancel is enabled while a deletion runs and leaves its ref held
  (ProposalsList.tsx:93; the same shape in CreateGroupForm.tsx:188 and SignInForm.tsx:129); a
  rotation cancelled while it runs never shows its link; a stored 412 is replayed after
  Refresh; each press on the calendar page is a new key, so a press after a lost answer
  creates a second source.

## Proofs

For every value of the constants that satisfies the assumptions in the modules. Each
invariant was checked by TLC before it was proved, and each proof has one lemma per
action, or per kind of action, of the module.

### The services, whatever is late

`GroupScheduling_proofs`: `TypeCorrect`, `Invariant`, `ConfirmedIffProposalHolds`,
`OneOwnerHolds`, `ChangesAreAuthorisedHolds`, for any number of requests and without an
exception. `ConfirmedIffProposal` alone is not
inductive: a commit writes what some session decided earlier. `IInv` therefore says of
every session in flight, with respect to the rows as they are now: its loaded row and its
object are each consistent; it changes state and confirmed proposal together or not at
all (then writing changed columns over any consistent row is again consistent); it makes a
privileged change only with role owner, and role owner still means that its user is the
owner of the row; it inserts rows for its own user only.

### The services, but for late commits

The second part of `GroupScheduling_proofs`, also for any number of requests. `OverlapInv`
adds to `IInv` what the tables satisfy whatever is late (votes only on live proposals,
one for each user and proposal, finite sets of rows) and what each session may hold
(`Sound`). Any session, overtaken or not, has the changes of one operation on the
rows of one group (`Tidy`). One that is not overtaken still holds the stored row, and once
it has decided it is in one of eleven cases, one for each operation of the contract
(`WillFound`, `WillAmend`, ...): the case gives its object, its pending rows, and the guard
it saw, stated of the tables as they are now. It stays true because a commit of another
request on the same group overtakes it, and on another group does not touch its rows
(`GroupKept`): that late commits of other groups are just as confined is why `Tidy` speaks
of overtaken sessions as well.

`KeepsContractHolds` then has one lemma for each case: its `Commit` is that action of
`GroupContract`. The loaded row is the stored row, so that writing only the changed columns
is writing them all; this is where a late commit differs. The other properties follow from
the contract's eleven operations, not from `Commit`, each of which keeps what the property
says of a group (`ConfirmedProposalLiveHolds`, `RowsOfMembersOnlyHolds`,
`AvailabilityInWindowHolds`, `VersionCountsChangesHolds`, `FrozenWhileConfirmedHolds`);
`IfMatchHonouredHolds` follows from the row being the stored one. Nothing is assumed of the
state before the step: the properties are kept from any state, those that late commits have
left behind included.

`LimitsHoldAlways` counts, with no exception: the members a group has and those that the
requests in flight will add exceed the limit by less than the number of requests, since
whoever counts finds room and everybody else in flight adds at most one. That the sets
counted are finite is proved, and that each request adds one.

### The breaker

`CircuitBreaker_proofs`: `Invariant`, `ProbeAccountedHolds`, `CountersAgreeHolds`,
`ClosedBelowLimitsHolds`. The first two rest on `IInv`, with the counts that move the
circuit below their limits; the others on `RecordedShift`, that recording drops outcomes
from the front of the history only, and on the fact that a branch that closes clears
the history.

### Idempotency

The two screens' proofs begin with the lemmas about `Idempotency` that they need: a request
without a record runs, one whose record has its body replays it, a stored record is found
again, and nothing else is.

Two invariants of the same shape use them. In `ProposalScreens_proofs`
(`OncePerKeyHolds`) and `GroupScreens_proofs` (`OncePerBodyHolds`), `KeysInv` says of
every key that is not in the history of races: at most one of its requests is past the
lookup; while one is, the key has no record; once it has changed the group, that
request, or the record, is there to be found. The exception of the properties is needed,
not convenient: the middleware looks up, runs and records in three transactions.

### The screens

* `AvailabilityBoard_proofs`: `TagVouchesHolds`, `WorkKeptHolds`, `SavedMessageHolds`.
  `TagVouches` speaks of the cache; its `IInv` adds that no tag is ahead of the version
  and that a read on its way whose tag is the current version has the current slots, or
  the current matrix. A change of the server leaves all tags behind, because it bumps the
  version. `WorkKept` needs only that rendering leaves a board with unsaved marks alone.
  `SavedInv`, for the third, follows one saved answer from the middleware's record
  (`KeyTrue`) through the save on its way (`SaveTrue`), the read that its success awaits
  (`ReadTrue`), and the cache (`CacheTrue`) to the baseline of the board (`BaselineTrue`):
  at each of them, if the last change of the server came from this board, the answer is
  the one stored. That no answer is taken for "not read yet" became an assumption on
  `NoRead`. A first read that the save has joined carries none of this, which is the exception
  of the property, until a later read has arrived.
* `ProposalScreens_proofs`: `TagVouchesHolds`, by the same argument; what the client
  splices into the page has tag 0, which no version is.
* `GroupScreens_proofs`: `RenamesTheNameShownHolds`, `LinkShownIsFreshHolds`,
  `TypeCorrect`. All rest on `FormsInv`: a form numbers its bodies in the order in which it first
  sends them, so that a key determines the body and the version that the request carries,
  and a tag of the group determines the name. Hence a rename that passes the version
  check replaces what was shown. For the links, each rotation on its way has a link left
  that is later than those that were in force when it was sent (`LinkInv`); that the links
  are pairwise different, and none is the text of an error, are assumptions: a link is a
  random token. The types need two counts: a control is pending as long as it observes
  one request and no two requests have the same observer (`Pending`), and the requests
  that are not yet served have room under the bound of the version (`BoundInv`).

### Sessions

`Sessions_proofs`: `TypeCorrect`, `HonestTabsStaySignedInHolds`. The types say more than
ranges: every token in the cookie, in a tab, or in a call is a row of the server, and
families are numbered, so that a sign-in opens a new one (`TypeInv`); a page that is closed
waits for nothing (`PagesInv`). `Honest` is the invariant of the time in which there are locks
and nothing has happened that may end a session: one tab holds the Web Lock
(`OneHolder`), a cookie that is presented is active and is being rotated
(`PresentedServed`), a token on its way to a tab is active, and nobody else has it
(`BroughtFresh`), the cookie is active but for a rotation whose answer is on its way
(`CookieServed`), and a family has one active token (`OneActive`). Without the lock two tabs
present one cookie, and the second finds it revoked.

### Slots

`Slots_proofs`: `Invariant`, `TypeCorrect`, `GridMatchesServerHolds`,
`FormAgreesWithServerHolds`, `SuggestionsHoldAlways`, for any length of the day, dates,
windows, durations, members, and any zone that changes its clocks once. Assumed of a zone:
it is less than a day from UTC, and no change skips or repeats more than a day.

The state is simple and so is the invariant: a group is one that the server accepts, and each
array is that of its group. What is hard is that two algorithms compute one array. The
browser guesses an instant from the offsets a day before and after, and keeps the guesses
that read back as the time asked for; the server walks all instants between two midnights and
keeps those whose local time is in the window.

* `EdgeInstant` and `MidnightIs`: a time outside the change has one real instant, given by the
  offset of its side. At the two borders "earlier" and "later" must be the right way round:
  this is where the exceptions of `EdgeInChange` come from, and the proof showed that a midnight
  inside a skipped hour had to be one of them.
* `SameDay`: hence both make the same slots of one day. What is left is linear arithmetic over
  the position of five times with respect to the change (`DayArithmetic`).
* `Places`: the places of an array are 1 up to its size, each taken once. Injectivity is
  counting; that none is skipped takes the least entry beyond a place (`LeastExists`, from the
  library's well-foundedness of the natural numbers), where one would expect an induction.
* With it, the grid has a cell for each slot (`GridHasAll`), the starts listed for a date are an
  interval (`ListedIsDay`), and a run of consecutive slots is an interval of instants, even if
  the run crosses a midnight or the change (`WindowIsInterval`). `CellSays` reads a cell of the
  grid back into marks, and `CountOfAll` and `ShadeOfAll` bound its shade. That a run of
  slots which crosses a midnight is of a daily window of the whole day, or has the change inside
  it, is `RunWithinDate`.

### The job queue and the calendar page

`CalendarScreen_proofs`: `QueueInvariant`, `PollChainHolds`, `RemindersFitHolds`,
`SettledIsListedHolds`. `PollChain` and `RemindersFit` are about jobs that may still run,
and between the transactions of one job the table alone does not say whether it will.
`QueueInv` therefore ties the worker to the table
(`WorkerTyped`): while it works, the row in its hand is locked and is of what it works on, or
was taken back, which only a confirmation's cancelling does, and only to reminders.

* `PollInv`. At most one poll of a source waits, and none beside a poll in hand that may
  still fail and wait again (`OneWaits`). The first poll has the source's key and keeps it when
  it is done (`KeyStays`), so a refresh that found no poll is refused by the unique index
  and cannot start a second chain: the defect of `poll_refresh` is what holds the chain
  together. A refresh that found one only sets the source to pending, so what it found must
  not run out before the commit: `FoundStays` follows it over the steps between, with
  `Cooled` (a poll that has ended has begun a cooldown, so no refresh is reading), `FirstTag`
  (the keyed poll cannot be answered by 304, so it plans the next one) and the bound
  `Moment` on time.
* `ReminderInv`. What a request that is not overtaken has read of the group is so, and once it
  has deleted the reminders of its proposal, no other may still run (`CurrentFits`): the
  rows it holds cannot be claimed (`HeldFits`). So as long as nothing was late, a reminder that
  may still run is of the confirmed proposal (`OfConfirmed`); a group that is open has none, and
  an old key belongs to a completed job, whose hour has passed: a later confirmation drops
  its reminders and does not collide (`PlansFit`). `OneReminder` counts the job on the table and
  the one in hand together. That nothing is mailed before its hour (`AfterHour`) needs none of
  this, and holds after a late commit as well.

`SettledIsListed` has an invariant of its own (`ListInv`): what a mutation that succeeded has
done to its source is not taken back, and a list that was read while one waits for it shows
that, since its success gave up any older read.

The page adds that a source is left for each press that creates one (`SourcesLeft`). Assumed
are finite rows and sources, names that are told apart, and that the scenes are of sources
that exist.

### Only model-checked

* Liveness: `Recovers`, `Converges`, `PressEnds`, `Settles`, `PendingEnds`. The prover has no
  proof rules for fairness (ENABLED).
* The three runs that end in a violation are counterexamples.

## What is left

Every invariant and every action property of a passing run is a theorem. What could still be
modelled: the expiry of idempotency records, more than one change of the clocks in a range of
dates, and the suggestions' score.

## Not modelled

* iCalendar parsing and recurrences, the fetch of a calendar and its address checks: pure
  functions of their input, or I/O. The models have only how a poll ends.
* Circuit alerts: a mail with a cooldown in memory, which nothing reads.
* Export and the calendar feed: reads that change nothing.
* Routers, schemas, error texts, metrics, configuration: conversions without state. The guards
  they add are in the modules of the services they guard.
* Rendering, routing, layout and wording of the pages.
* Migrations, deployment workflows, cluster and cloud configuration: linear DDL, scripts that
  run one at a time, and declarative data. The constraints of the schema appear as guards of
  the commits.
* The mails' text, the hashing of tokens, the rate limit of sign-in mails, the expiry of
  refresh tokens after 30 days and of idempotency records after a day.
