# LabBooking in TLA+

A model of the LabBooking server (`src/backend`, Django on PostgreSQL): students
book lab sessions, staff mark attendance, waitlists hand freed seats on, and
laboratories change their timetable while all this goes on. Several gunicorn
workers and a scheduler process run the services at the same time against one
database, so what can go wrong is mostly what happens *between* two statements of
two requests. The test suite runs one request at a time; these modules run them
interleaved.

## 1. Inventory

| Part | State | Operations | Interacts with |
|---|---|---|---|
| Booking service (`bookings/services/booking.py`, `booking_mutations.py`) | `Booking.current_status`, `LabSession.status` | `create_booking`, `cancel_booking`, `change_status`, `cancel_session_bookings` | row locks on `LabSession` and `Booking`; schedules waitlist promotions on commit; calls the no-show counter |
| Seat arithmetic (`seat_capacity.py`, `LabSession.is_stand_blocked_by_other_lab_work`) | none (reads bookings) | counts, remainders, stand rule | booking checks, catalog |
| Deadlock retry (`retry.py`) | none | repeats a transaction up to three times | wraps every write above |
| Waitlist (`waitlist.py`) | `WaitlistEntry` rows and positions | `join_waitlist`, `promote_waitlist`, `drop_session_waitlist` | runs after the commit of cancellations, calls `create_booking` |
| Attendance (`attendance.py`) | `had_no_show`, `StudentLabAttendance` count and flag, `CLOSED` sessions | no-show counter, `clear_explanation_required`, `mark_visited_for_ended_sessions` | inside `change_status`; the job calls `change_status` |
| Schedule synchronisation (`schedule_sync.py`, `scheduling/views`) | sessions' teacher, capacity, end, status | cancel or update future sessions after an edit of the schedule | calls `cancel_session_bookings`, one transaction per session |
| Slot generation and schedule administration (`slot_generation.py`, `schedule_admin.py`, `entry_match.py`, `slot_grid.py`) | `ScheduleEntry` and its selections, new sessions | edit, copy, delete entries; generate sessions | synchronisation, booking whitelist |
| Booking windows (`session_availability.py`, `slot_grid.py`) | laboratory settings (read only) | date window, deadlines, pair times, whitelist, manual window, deadline of the job | booking checks, catalog, job |
| Session catalog (`session_catalog.py`) | none | bookable sessions and free seats in bulk for the pages | the same rules as the checks, in code of its own |
| Support tickets (`support.py`, `bookings/views/support.py`) | ticket status, messages, read marks | creation, replies, answers, manual statuses, views | staff scope |
| Academic scope (`academics/scope.py`, `bookings/scope.py`, `users/roles.py`, `binding.py`) | loads and overrides of groups, published disciplines, disciplines of lab works, bindings, laboratories of rooms | what a student or a member of staff sees; the portal's and the admin's edits of these rows | booking checks, pages, support |
| Catalog administration (`catalog_admin.py`, `scheduling/views/catalog.py`) | rooms, lab works, their sizes | form posts | synchronises capacities and durations, cancels the sessions of a blocked room |
| Accounts, notifications, pages | accounts, texts | login, rendering | none of the rules above |

What is hard: checks and inserts in separate statements; locks on a set of rows
that depends on the timetable; a session row read before it is locked; callbacks
that run after a commit and outside every transaction; a job that works through a
list it read earlier; a counter in another row than the facts it counts; workers
that die in between. And rules that are written twice, for the page and for the
service, over data that is edited all the time and calendars with edges. `PROJECT.json` lists each such hazard at its line with the
properties that would catch it.

## 2. Modules

```
SeatCapacity            counts, limits, what the limits mean (no state)
  SeatAllocation        abstract: a booking is placed in one step
  BookingTransactions   the transactions, statement by statement; implements SeatAllocation
    MCBookingTransactions
  SeatCapacityProofs, SeatAllocationProofs, BookingTransactionsProofs
Waitlist                promotions, bookings and cancellations around one session
    MCWaitlist, WaitlistProofs
NoShowLedger            abstract: a status changes in one step with its count and flag
  Attendance            change_status, its locks and copies, the auto-visited job;
                        implements NoShowLedger
    MCAttendance, AttendanceProofs
ScheduleSync            schedule entries, generated sessions and their synchronisation
    MCScheduleSync, ScheduleSyncProofs
UniversityCalendar      dates, pairs, weeks, booking windows (no state)
AcademicScope           who sees what, and the edits of the rows that decide it
  LabCatalog            extends both: generator, catalogs, checks, bookings, days
    MCLabCatalog        (counts seats with SeatCapacity)
    LabCatalogProofs
SupportTickets          replies, answers, statuses, read marks, the overdue badge
    MCSupportTickets, SupportTicketsProofs
```

### SeatCapacity
A timetable is given by constants (`StartsAt`, `EndsAt`, `LabWorkOf`, `RoomOf`,
`PrimaryStand` and the three capacities). A booking and the request that makes it
are the same thing `b`, `rows[b]` is what it asks, and `B` is the set of BOOKED
ones. `SeatCounts`, `StandBlocked` and `HasSeat` are `session_seat_counts`,
`is_stand_blocked_by_other_lab_work` and `seat_remainings` with the comparisons of
`_enforce_capacity_limits`; `MayTake` is the decision on one request. The second
half says what the limits mean: `WithinSlots`, `WithinLabWorks`,
`WithinSharedRooms`, `OneLabWorkPerStand`. They are stated for moments in time,
which is not how the code counts: the code adds up all bookings of overlapping
sessions, more than are ever in the room at once. Manual bookings may exceed the
seats (`_validate_manual_booking_rules` only warns), so the first three speak of
the bookings that students made themselves; the stand binds everybody.
A room limits a session only when another overlapping session in it has bookings
(`seat_remainings` returns None otherwise), hence *shared* rooms.

### BookingTransactions
A READ COMMITTED transaction with `SELECT ... FOR UPDATE` is a sequence of actions,
one database statement each: what others committed before a statement is visible
to it, what it wrote itself becomes visible at `CommitBooking` / `CommitCancel`,
where its locks are freed too. `lock` holds the `LabSession` rows, `rowLock` the
`Booking` rows.

| Code | Actions |
|---|---|
| `_create_booking_in_transaction` | `ReadSession`, `RefuseAccess`, `LockSession` (one row at a time, in primary-key order), `RefuseWindow`, `CheckDiscipline`, `CheckOverlap`, `CountSeats`, `CheckSeats` or `CheckManual`, `CommitBooking` |
| `cancel_booking`, `change_status` | `CancelBooking`, `ChangeStatus`: they lock and re-read one row, so one action each |
| `cancel_session_bookings` | `ReadLiveSession`, `LockCancelledSession` (the UPDATE of the session), `ListBookings`, `MarkSlotCancelled` per booking (a refusal rolls everything back), `CommitCancel` |
| a killed worker | `Die` |

`readStatus` is the session status as the request read it before it had the lock;
`seen` holds the counts, which the stand query follows in a statement of its own.
The access, discipline-choice, date, deadline, whitelist and holiday rules depend
on data that no step changes: they are refusals that may come or not.
`skip_student_rules` has no caller and is left out.

### SeatAllocation
The promise: `Take` places one booking if `MayTake` holds at that very moment,
`Vacate` frees any. `BookingTransactions` implements it with `booked <- Booked`.

### Waitlist
One session. `create_booking` is two steps here, the first read (`AskSession`,
`LoadSession`) and the rest, which `BooksLikeSeatAllocation` of the previous
module justifies. A worker cancels, and after its commit runs the registered
callbacks one after another: `ReadFirst`, `LoadSession` or `LoadClosedSession`,
`BookEntry` or `RefuseEntry`, `DeleteEntry`, every one of them a transaction of
its own that others may come between. `told` records the notices sent about a row.
Positions are counted, not numbered, so they repeat and the order of joining is lost
(`waitlist_order`). What remains of it is `NeverFurtherBack`: a row at position n has
never more than n - 1 others to be served before it. It rests on the session lock of
`_join_waitlist_impl`.

### Attendance
`change_status` either moves no count (`ChangeUncounted`: one locked row) or is a
transaction over two rows: `LockBooking`, `FetchAttendance`, `CreateAttendance`,
`CommitStatus`. `copy` is the attendance row as it was read, and `CommitStatus`
writes from the copy, as the code does. The job is `JobLoad` (the queryset, once),
then for each session `JobCloseManually`, `JobNotReady` or `JobList`, a
`change_status` for each listed booking (`SkipBooking` when it is refused) and
`JobClose`.

`NoShowLedger` says what this is for: a status changes in one step, with the count of
its student's account and the flag in the same step, and `Explain` clears a flag.
`ChangesAreAtomic` maps `Attendance` to it: `missed` is the bookings with `had_no_show`,
and an account without a row has the count 0 and no flag. What remains of the code's
intermediate states, half a transaction or a job under way, is invisible there.

### ScheduleSync
One room in one semester. A slot is a session that may exist, by its natural key;
`DayOf` and `WorkOf` and the rows of `entry` say which entries cover it
(`matching_entries_for_session`, parity and times of day abstracted). The portal's
views run outside transactions, so a request is a series of statements: the edit
itself (`CreateEntry`; `ReadDays`, then `CopyEntry` per entry of the day and
`CopyDone`, for `copy_schedule_weekday`; `LoadEntry`, `SaveEntry`; `ClearSelections`, `AddSelection`,
`PickWorks` for `_apply_selections`; `CountConflicts`, `DeleteEntry`), then what the
view calls, kept in `agenda`: `ReadEntries` and `InsertSessions` for
`generate_lab_sessions`; `ListSessions`, then per session `Skip`, `FindOrphan` and
`CancelSession` (or `CancelRaises`), `FindCapacity` and `StoreCapacity` for the loops
of `schedule_sync.py` and `_block_room_sessions`. `loaded` is what a loop read when
it listed the sessions, while entries are queried for each. `by` identifies a selection row that
is being filled: when another request has deleted it, adding its lab works fails.
`near` is the horizon of the generator. Students and staff book and cancel in
single steps; staff may book without the whitelist, so `Book` asks only for an open
session. `calm` says that no two requests have overlapped and none has failed: that
is what the promises on the schedule presuppose, because nothing in the code
serialises the edits or repairs one that died.

### UniversityCalendar
Operators over minutes: a moment is a number, a date is its quotient by 1440, day 0
is a Monday. The pair grid, the parity of weeks that starts again in the week of
1 September, the window of a laboratory (its settings over the global ones), the
deadlines of booking and cancelling, the manual window and the deadline of the
auto-visited job.

### AcademicScope
The rows that decide who sees what (`load`, `override`, `published`, `work`, `bound`,
`roomLab`), the queries over them under the names of the code, and the edits: those
of the portal (`Bind`, `Unbind`, `UpdateLabWork`) and those that only the Django admin
has (`SetOverride`, `ChangeLoad`, `PublishDiscipline`, `MoveRoom`). Accounts and
the plan of a group are constants.

### LabCatalog
`EXTENDS` the two above and lets days pass. `Generate` is `generate_lab_sessions`
with dates, parity, holidays, excluded and blocked rooms; `StudentSlots` and
`StaffSlots` are the catalogs, with the bulk seat counters; `MayBook` and
`MayBookManually` are the checks of the service, which count with `SeatCapacity`
over the sessions that exist. `BookConfirm` and `ManualBook` are the views: what the
page lets through and the service accepts. `RunJob` marks ended sessions.
`UpdateRoom` (blocks and frees a room, changes its capacity), `ResizeLabWork`
(synchronises capacities or durations), `SetBlockedInAdmin`, `AddHoliday` and the
edits of `AcademicScope` change the data behind what was offered. A request is one
step: interleavings are the subject of the modules above. Promotions of the waitlist
are left out, as they are bookings of the same service; a form changes either the
sizes of a lab work or its disciplines, since a form that does both is the two
changes after one another.

`OffersAreHonoured` exempts what the catalog leaves to the service: the discipline
limit, a lab work already visited, and a lab work that the student sees through an
override or an unpublished discipline (`student_lab_works_qs` asks for less than
`_resolve_booking_discipline`). `AcceptedIsOffered` exempts blocked rooms, which the
service does not ask about, and horizons beyond the global one, which the query cuts
off.

### SupportTickets
A request is load, then refusal or insert and commit, or mark and show: each a
statement others can come between. Every write takes a moment of its own (`Stamp`),
`Wait` passes to the next midnight. `seen`, `last`, `crossed` and `raced` are history:
how many messages a view has shown, who wrote last, whether a staff status came
between load and commit of a reply, whether a read mark came between the stamp and
the commit of a message. The last two are the two orders in which the code
does lose something, and the properties name them as exemptions. `OverdueAfterADay` has
an exemption too: it demands the badge of tickets without an answer only, see section 4.

## 3. Runs

| Run | Instance | Checks |
|---|---|---|
| `booking` | 3 requests out of 7 possible ones, 4 overlapping sessions, 1 canceller | `TypeOK`; `SlotNeverOverbooked`, `LabWorkNeverOverbooked`, `SharedRoomNeverOverbooked`, `StandNeverShared`; `NoLockCycle`; `PassedChecksStayTrue`; `BooksLikeSeatAllocation`; `CancelTakesEveryBooking` |
| `booking_liveness` | 2 requests, 1 canceller | `EveryCallReturns` |
| `booking_discipline` | as above | violates `OneActivePerDiscipline` |
| `booking_cancelled_slot` | as above | violates `NoBookingInCancelledSlot` |
| `waitlist` | 2 seats, 2 students, 2 workers, 3 rows | `TypeOK`, `NeverFurtherBack`, `NobodyLeavesSilently`, `EveryPromotionEnds` |
| `waitlist_order` | 1 seat, 4 students, 1 worker, 4 rows | violates `FirstInQueueFirst` |
| `attendance` | 3 bookings of one student, threshold 2, 2 clerks, 1 job | `TypeOK`, `CountIsNoShows`, `FlagNeedsThreshold`, `JobLeavesNoneBooked`, `NoShowRaisesFlag`, `ChangesAreAtomic`, `FinalStaysFinal`, `EveryCallEnds` |
| `attendance_job` | as above | violates `JobMarksBookedOnly` |
| `schedule` | 3 slots, 2 lab works, 2 weekdays, 3 entries, 2 workers, 2 requests | `TypeOK`, `NoOrphans`, `CapacityFromEntry`, `BlockedRoomIsEmpty`, `CancelledStaysCancelled` |
| `schedule_confirm` | 1 entry, 1 request | violates `DeletionIsConfirmed` |
| `catalog` | 4 moments around 1 September, 3 entries, 2 lab works on one stand, 2 rooms, 2 students, 3 staff, 2 bookings or edits | `TypeOK`, `OffersAreHonoured`, `AcceptedIsOffered`, `SeatsShownCanBeTaken`, `WizardIsHonoured`, `ManualBookingInScope`, `GeneratedIsBookable` |
| `support` | 1 ticket, 1 student, 2 staff of whom one is out of scope, 2 requests at a time, 4 in all | `TypeOK`, `UnseenIsUnread`, `UnansweredIsOpen`, `OverdueAfterADay`, `OverdueEndsByStaff` |

**Bounds.** In `booking` the timetable is drawn so that each limit is the only one
in the way of some pair or triple of requests: the slot for two in session 1, the
lab work for one in 1 and two in 3, the room for one in 1 and one in 2, the stand
for one in 2 and one in 4; each session's lock set differs from the others'. Three
requests are the fewest that fill a lab work over two sessions; one request is
manual. `Requests` is a symmetry set in the safety runs and in no liveness run. Of
the statuses that staff may set only VISITED is enabled here (`Outcomes`): it frees
a seat like the others and alone counts in the discipline rule. In `waitlist`,
`MaxEntries` bounds the rows that may ever join: three are the fewest with which a
position repeats, as a student joins again after being served; two seats and two workers
let two promotions read the same row, and a cancelled session leave two callbacks to one
worker. In `waitlist_order` four rows of four students show the order lost.
In `attendance` a threshold of two with three bookings lets the count be above, at
and below it after a correction. In
`schedule` the initial state has one entry, any of `MCForms`, with its sessions, so
two requests are an edit of what is there and another that overlaps or follows it,
and a copy of a weekday finds a free key even after a creation;
one slot lies beyond the horizon, so that sessions appear late; lab work A has
fewer seats than its entries and B at least as many, so that either decides.
In `catalog` the four moments are a Saturday (a horizon over the weekend), the night
before a deadline, the minute of a deadline, and a time within the first pair of
1 September; the entries fall on both sides of the change of parity, one is cut by
the end of the short fifth pair, one is a duty for one group. Two changes are a
booking and an edit, an edit and a booking, two bookings or two edits, between any
of which days pass, sessions are generated and the job runs. Staff are a head, an
administrator without a laboratory and a teacher; a system administrator, who sees
everything, is not in the instance. In `support` a day has four moments and
Patience is one day, so that the weekend falls before, into or after the waiting
time. Four requests are enough for a reply, an answer, a view and one more in any
order, two of them at the same time.

The runs `waitlist`, `waitlist_order`, `schedule`, `schedule_confirm` and `support`
allow deadlock: nobody has to book, cancel or write, and rows, requests or time are
bounded. In `catalog` the generator can always run again.

**Fairness.** The database serves a transaction that is not blocked, so the steps
of a started booking or cancellation are weakly fair in `BookingTransactions`;
`NoLockCycle` and the finite number of requests make that enough. In `Attendance`
staff may come back again and again to the same rows, so a waiting call needs
strong fairness: PostgreSQL queues the waiters of a row lock, so the lock
that is free again and again is given to each of them. A
promotion in `Waitlist` waits for nobody: weak fairness. Nobody is ever obliged to
start a request, cancel, join, clear a flag, start a job, or die. `ScheduleSync`,
`LabCatalog` and `SupportTickets` state safety only.

## 4. What the violations show

* `booking_discipline`: the discipline limit is read under locks of the target
  session and its overlapping neighbours. Two requests of one student on two days
  share no lock, both find no active booking (`booking.py:193`), both commit.
* `booking_cancelled_slot`: the session is read at `booking.py:268`, locked at 283
  and not read again. A request that waited for the cancellation of the slot books
  into the cancelled slot.
* `attendance_job`: the job's list is older than the bookings' locks. A no-show
  recorded in between is taken for one to be corrected: VISITED, and the count
  goes down (`attendance.py:180`).
* `waitlist_order`: positions are `count() + 1` (`waitlist.py:43`). Of the rows at
  1 and 2, the first leaves, a third joins at 2: now `first()` may take either.

* `schedule_confirm`: the conflicts of a deletion are counted, then the entry is
  deleted, then its sessions are cancelled (`schedule_admin.py:233`, the view). Who
  books in between loses the booking to a deletion nobody confirmed.

Three more disagreements are visible in the passing models, where a property makes room
for them or does not speak of them, and have no run of their own:

* `is_support_ticket_overdue` is documented as "open without an answer for more than 24
  working hours" (`support.py:42`) and counts from the creation. A ticket that was
  answered and that the student opens again days later is overdue at once.
* "A student's message reopens the ticket" (`support.py:4`), but not when a staff status
  falls between load and commit of the reply: `student_reply` decides by the status it
  loaded (`crossed`).
* Who could not be booked leaves the queue with a notice (`waitlist.py:66`); when two
  promotions read one row, so does a student whom the first has just booked.

## 5. Proofs

`SeatCapacityProofs` proves the arithmetic: a seat found by `HasSeat` keeps all of
`WithinSlots`, `WithinLabWorks`, `WithinSharedRooms` when it is taken
(the bookings of one moment are among those counted), fewer bookings never make a
check fail that passed, and bookings of sessions outside `LockIds` change none of
the counts. `SeatAllocationProofs` concludes `Spec => []SeatLimits`.

`BookingTransactionsProofs` proves about the transactions, for any timetable and
any finite sets of requests and cancellers, from `TimetableAssumption`,
`RequestAssumption` and `ProcAssumption`:

* `TypesHold`: `[]TypeOK`.
* `InductiveInvariant`: `TypeOK`; a request from "locked" to "passed" holds every
  lock of `LockIds`; from "counted" on, the seats and the stand it saw are still a
  lower bound of what is free. `TypeOK` alone says nothing about why a check that
  was made three statements ago is still good. The argument: a booking that would
  change the counts is in a session u with session s in its neighbourhood; being a
  neighbour is symmetric, so its request holds the lock of s, which the checking
  request holds. Cancellations only free seats.
* `PassedChecksHold`, and with it `BooksLikeSeats`, the refinement of
  `SeatAllocation`: a commit is `Take`, a change of status or a slot cancellation is
  `Vacate`, every other step stutters.
* `LimitsHold`: the four limits in every reachable state; `LabWorksHold`,
  `SharedRoomsHold` and `StandsHold` say it of one limit each.
* `CancelTakesAll`: no booking of a session is BOOKED right after its cancellation
  (a canceller holds the session's lock from before its listing to its commit).

`StepKinds` first reduces the disjuncts of `Next` to a dozen kinds of steps, so
that each later lemma has one case per kind.

* `LocksInOrder`: no set of transactions waits for itself. `LockOrder` adds to the
  invariant that a request takes its session rows upwards, that who has not begun
  holds nothing, and that a cancellation takes only bookings of its own session. In a
  circle only requests could wait, and the holder of the greatest wanted row would want
  a greater one.
* `SomebodyAlwaysGoesOn`: while a call is under way, one call under way finds the row it
  wants free, and a cancellation that has listed its bookings always does. `HoldersWork`
  adds that every lock has a holder at work and that a request that locks still misses a
  row; then whoever waits for none of the calls under way (`NobodyStuck`) waits for nobody.
* `CallsGoOn`: each statement brings its call to a later stage, or at the same stage
  leaves one session less to lock or one booking less to mark (`Nearer`), and the steps of
  others leave it where it is (`Stands`). Stages are numbers and the sets finite, so
  this order is well-founded.
* `RulesHold`: how far the rules of a student reach. Sessions whose lock sets meet cannot
  be booked by one student, without staff, in one discipline or at overlapping times: a
  booking that is committed between the checks and the insert of another holds rows that
  the other does not want (`RulesCover`). Beyond common rows nothing of the kind holds:
  that is the counterexample of `booking_discipline`. `ChecksInOrder` says that no request
  of a student reaches its insert past a check.

`AttendanceProofs`, from `AttendanceAssumption`, for any number of bookings, students,
laboratories, clerks and jobs and any threshold: `Inductive` says that the copy of an
attendance row is current while its lock is held (`CopiesAreCurrent`), that the change a
call has in hand is still allowed and still moves the count by as much while it holds the
booking (`WorkIsCurrent`), that a job's list has every BOOKED booking of its session
(`ListsAreComplete`), and that the ledger is right (`Ledger`). Without the first two the
write from a copy could lose another's change, which is what the row locks are for. From
it: `AttendanceTypes`, `NoShowsAreCounted`, `FactsHold`, `FlagHolds`, `NoneLeftBooked`,
and the action properties `NoShowsRaiseTheFlag` and `FinalHolds`; and `ImplementsLedger`,
the refinement of `NoShowLedger`: the commit of a call is the abstract change of one
booking with its count, fact and flag, the clearing of a flag is itself, everything else
stutters. `WaitsStayShort` and `CallsGoOn` are what `EveryCallEnds` rests on: the holder of
an attendance row commits next, the holder of a booking waits for an attendance row at
most, and every statement brings a call or a job nearer to its end: a session less, else a
booking less, else a later stage. A call that found no attendance row looks twice, and
not a third time, because rows are never deleted.

`WaitlistProofs`, from `WaitlistAssumption`, for any number of seats, students, workers
and rows: `QueueIsNumbered` (rows carry the numbers they were given) and `SettledIsTold`
(whoever is about to delete a row has told its student) make `PlacesInQueueHold` and
`EveryoneIsTold` inductive, with `WaitlistTypes`. `NeverFurtherBack` holds because
positions are counted: when a row joins at a position not above that of another, all rows
together, the new one included, are no more than its position says; and a row that leaves
brings nobody further back. `PromotionsEndInTime` bounds what a
promotion has ahead by four statements per seat and shows that `first()` finds a row when
it is reached; `PromotionsGoOn` says that each statement takes from it, whatever the
others do.

`SupportTicketsProofs`, from `SupportAssumption`, for any number of tickets, people,
centres and overlapping requests: `RequestsAreSound` (what a request holds of a ticket
that nobody crossed is true) and `ReadsArePast` (no mark lies in the future) give
`TicketTypes`, `DotHidesNothing` and `MessagesReopen`. `BusinessHoursAreWorkingTime` says of
the recursive `AddBusinessHours` that it returns the first moment with so many working
hours behind it. It is an induction over sets of numbers: the spans for which the claim
holds from every start contain each span for which all smaller ones are in the set
(`Induction`), and a turn of the loop passes working time only (`Chunk`) after a weekend
without any. With it `BadgeIsInTime` and the action property `BadgeStaysUntilStaff`.

`ScheduleSyncProofs`, from `ScheduleAssumption`, for any timetable, forms, entries,
workers and number of requests, in two layers. `Sound` holds however requests overlap:
types, keys given in order, batches of generated sessions, and for each program point
what the request knows there (`Informed`); from it `ScheduleTypes` and `NeverReopened`.
`InOrder` is the argument for the promises on edits that do not overlap: at most one
request is at work, what it read is current (`Current`), every live session either has
the seats of an entry that covers it or is still ahead of the request (`Attends`: on a
day it is editing, in its batch, or under a later task of its agenda), and a blocked
room with live sessions is being closed (`Closes`). A step over a session takes it off
what is ahead only by making it right. An idle worker has nothing ahead, hence
`OrphansAreCancelled`, `CapacitiesFollow` and `BlockedRoomsEmpty`.

`LabCatalogProofs`, from `CatalogAssumption` and `ScopeAssumption`, for any schedule, plan,
people and rooms and any number of changes. `Types` is inductive (`StepTypes`), and
every step either makes one booking or changes only the status of bookings
(`StatusesChange`); `CatalogTypes` follows. The rest needs little more, because the
catalog and the service read the same rows:

* `SeatsShownAreThere`: `SameCounts` shows that the bulk count and the count of one
  session count the same sets, `SeatsAsShown` that the smallest limit less than k seats
  is what the service compares. With it `OffersAreTrue` and `AcceptedAreOffered`.
* `GeneratedSessionsFit`: `StartsFit` (a start of `pair_start_times_for_duration` lies on
  the grid of a pair and the session ends in it) and `Clock` (date and minute of a
  moment) give what `SlotIsCovered` says of one slot; `Generation` says that only such
  slots are added, `NewSessions` that nothing else adds any. How the parity of a week
  is computed does not matter to it: generator and whitelist ask for the same day.
* `WizardHolds`, and the invariant `StaffBookTheirWorks` for `OwnBookingsStayInScope`:
  the laboratories of a lab work are the one link of a booking to a laboratory that
  nothing edits.
* `ManualHorizonHolds`: the loop of `manual_booking_max_date` ends. `FiveEachWeek` counts
  the weekdays of n weeks, `EnoughDays` takes the holidays off, `CountIsMet` finds the day
  at which the count is the one wanted; so the CHOOSE of `ManualMaxDate` always has its
  witness, on which `WizardHolds` and the two sets of manual slots rely.
* `WeeksAlternate`: within an academic year the days of a calendar week have one parity
  and those of the next week the other.

Where a run states fairness, its specification is `FairSpec`, which implies the `Spec` of
the theorems.

Only model-checked: liveness (`EveryCallReturns`, `EveryCallEnds`, `EveryPromotionEnds`),
as the prover has no rule for fairness and ENABLED. What is proved are its safety halves:
a well-founded order in which every statement of a call descends and which no other step
climbs (`CallsGoOn` twice, `PromotionsGoOn`), and that somebody can always make a statement
(`SomebodyAlwaysGoesOn`, `WaitsStayShort`, `PromotionsEndInTime`). The runs add that
fairness turns these into an end.

## 6. Not modelled

Audit log, status history, notes, texts of notifications and pages, accounts and
login, filters and paging of lists. The retry wrapper: the modelled transactions
have no deadlock to retry (`NoLockCycle`). Of the Django admin, the edits that the
portal has no form for are modelled, one at a time; it can edit any other row
directly and would break any of this. Creating and deleting rooms, lab works and
accounts: the instances have fixed sets of each (so the cascade of a deletion whose
bookings were counted before is a hazard without a property).

Sessions do not change their time, room or capacity in `BookingTransactions`.
`ScheduleSync` changes capacities, `LabCatalog` capacities and ends; neither has the
teacher, and the end that `sync_future_sessions_for_slot` stores is left out. In
`ScheduleSync` a room or lab work is read and saved in one step, and lab works
are published, no room excluded, no day a holiday: those are in `LabCatalog`. A
booking is one step in both; what becomes of a booking that read its session
before a cancellation is the subject of `booking_cancelled_slot`.

## 7. Plan

1. A booking that read the old end of a session while `sync_open_session_durations`
   moves it: double booking of a student, as a property over both transactions.
2. Deletion of a lab work against a booking, with the cascade.
