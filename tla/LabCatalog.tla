----------------------------- MODULE LabCatalog -----------------------------
(***************************************************************************)
(* What the pages offer and what the booking service accepts: the sessions *)
(* generated from the schedule (slot_generation.py), the catalogs of       *)
(* students and of staff (session_catalog.py) and the checks of a booking  *)
(* (booking.py), while days pass and the data behind them is edited.       *)
(*                                                                         *)
(* A request is one step here: how bookings interleave is the subject of   *)
(* BookingTransactions, how edits of the schedule do that of ScheduleSync. *)
(***************************************************************************)
EXTENDS UniversityCalendar, AcademicScope, Sequences

CONSTANTS
  Entries,        \* schedule in order of weekday and start: [room, weekday, parity,
                  \* start, duration, picks, cap, group].  picks are the lab works of each
                  \* discipline, {} for all; group is that of a TEACHER_DUTY, or NoGroup.
                  \* Primary keys are in the same order.
  ExcludedRooms,  \* is_excluded_from_autogen
  SizeAtFirst, Sizes, \* [cap, duration] of each lab work, and those that the form may set
  PrimaryStand, NoStand,
  RoomCapAtFirst, RoomCapacities,
  Weeks,          \* horizon of the generator
  Moments,        \* the moments at which something happens
  HolidayDates,   \* days that may become holidays
  MaxChanges      \* bound: bookings and edits ever made

ASSUME CatalogAssumption ==
  /\ DOMAIN Entries = 1..Len(Entries) /\ Len(Entries) \in Nat
  /\ \A i \in DOMAIN Entries :
       /\ Entries[i].room \in Rooms /\ Entries[i].parity \in {"ODD", "EVEN", "BOTH"}
       /\ Entries[i].start \in Nat /\ Entries[i].duration \in Nat /\ Entries[i].cap \in Nat \ {0}
       /\ Entries[i].group \in Groups \union {NoGroup}
       /\ \A d \in DOMAIN Entries[i].picks : d \in Disciplines /\ Entries[i].picks[d] \subseteq Works
  /\ Sizes \subseteq [cap : Nat \ {0}, duration : {30, 45, 60, 90}]
  /\ SizeAtFirst \in [Works -> Sizes]
  /\ RoomCapacities \subseteq Nat \ {0} /\ RoomCapAtFirst \in [Rooms -> RoomCapacities]
  /\ Weeks \in Nat /\ MaxChanges \in Nat
  /\ Moments \subseteq Nat /\ IsFiniteSet(Moments) /\ Moments # {}

VARIABLES
  now,
  size,      \* capacity and duration of LabWork rows
  roomCap,   \* capacity of Room rows
  session,   \* LabSession rows by [work, room, start]: [cap, end, status]
  bookings,  \* Booking rows: [student, session, discipline, by, status]
  holidays,
  blocked,   \* rooms with is_blocked
  edits      \* of the academic data, rooms and holidays

catalog == <<size, roomCap, holidays, blocked, edits, scope>>

vars == <<now, session, bookings, catalog>>

Self == "self"   \* registered_by of a booking that the student made

End(s) == session[s].end

Overlap(s, t) == s.start < End(t) /\ End(s) > t.start

Active == {b \in DOMAIN bookings : bookings[b].status = "BOOKED"}

ActiveOf(u) == {b \in Active : bookings[b].student = u}

Rows == {bookings[b] : b \in DOMAIN bookings}

Seat == INSTANCE SeatCapacity WITH
  Sessions <- DOMAIN session, LabWorks <- Works,
  StartsAt <- [s \in DOMAIN session |-> s.start], EndsAt <- [s \in DOMAIN session |-> End(s)],
  LabWorkOf <- [s \in DOMAIN session |-> s.work], RoomOf <- [s \in DOMAIN session |-> s.room],
  Capacity <- [s \in DOMAIN session |-> session[s].cap],
  LabWorkCapacity <- [w \in Works |-> size[w].cap], RoomCapacity <- roomCap,
  Requests <- DOMAIN bookings, RequestData <- {}

StandFree(s) == ~Seat!StandBlocked(bookings, Active, s)

-----------------------------------------------------------------------------
(* The schedule *)

\* entry_lab_work_ids
WorksOf(e) ==
  UNION {IF e.picks[d] # {} THEN e.picks[d] ELSE {w \in Works : d \in work[w].disciplines} :
         d \in DOMAIN e.picks}

\* entry_matches_session
EntryMatches(e, s, end) ==
  /\ e.room = s.room
  /\ e.weekday = WeekdayOf(DateOf(s.start))
  /\ ParityMatches(e.parity, DateOf(s.start))
  /\ s.work \in WorksOf(e)
  /\ MinuteOf(s.start) >= e.start
  /\ MinuteOf(end) <= e.start + e.duration

\* matching_entries_for_session
Matching(s) == {i \in DOMAIN Entries : EntryMatches(Entries[i], s, End(s))}

\* ScheduleWhitelistIndex.allows: the duty of a teacher with a group is for that group.
Whitelisted(u, s) ==
  \E i \in Matching(s) : Entries[i].group \in {NoGroup, GroupOf[u]}

DaysAhead == Max({7 * Weeks, HorizonDays + 1})

StartsByDuration == [d \in {30, 45, 60, 90} |-> StartTimes(d)]

\* The starts of a lab work within the time of an entry
StartsWithin(e, w) ==
  LET length == size[w].duration IN
  {m \in StartsByDuration[length] : e.start <= m /\ m + length <= e.start + e.duration}

SessionsAt(e, day) ==
  UNION {{[work |-> w, room |-> e.room, start |-> At(day, m)] : m \in StartsWithin(e, w)} :
         w \in {x \in WorksOf(e) : work[x].published}}

\* Defect: the parity of the week in which the generator runs.
SlotsOfThisWeek(i, day) ==
  LET e == Entries[i] IN
  IF e.weekday = WeekdayOf(day) /\ ParityMatches(e.parity, DateOf(now)) THEN SessionsAt(e, day) ELSE {}

SlotsOf(i, day) ==
  LET e == Entries[i] IN
  IF e.weekday = WeekdayOf(day) /\ ParityMatches(e.parity, day) THEN SessionsAt(e, day) ELSE {}

GeneratedCapacity(i, cap) == Min({Entries[i].cap, cap})

\* generate_lab_sessions inserts what is missing; the first entry gives the capacity.
SessionsAfterGeneration(closedRooms) ==
  LET today == DateOf(now)
      days  == today + 1 .. today + DaysAhead \ holidays
      from  == {i \in DOMAIN Entries : Entries[i].room \notin closedRooms \union ExcludedRooms}
      by(s) == Min({i \in from : s \in SlotsOf(i, DateOf(s.start))})
      made  == UNION {SlotsOf(i, day) : i \in from, day \in days} \ DOMAIN session
  IN  [s \in DOMAIN session \union made |->
         IF s \in made
           THEN [cap |-> GeneratedCapacity(by(s), size[s.work].cap),
                 end |-> s.start + size[s.work].duration, status |-> "OPEN"]
           ELSE session[s]]

-----------------------------------------------------------------------------
(* The catalogs *)

\* Defect: bookings of the session itself are counted twice.
OthersAndOwn(s) == {b \in Active : Overlap(bookings[b].session, s)}

Others(s) == {b \in Active : bookings[b].session # s /\ Overlap(bookings[b].session, s)}

\* Defect: = instead of #.
StandTakenBySame(s) ==
  \E b \in Others(s) : /\ PrimaryStand[bookings[b].session.work] = PrimaryStand[s.work]
                       /\ bookings[b].session.work = s.work

StandTaken(s) ==
  /\ PrimaryStand[s.work] # NoStand
  /\ \E b \in Others(s) : /\ PrimaryStand[bookings[b].session.work] = PrimaryStand[s.work]
                          /\ bookings[b].session.work # s.work

\* _accumulate_seat_counters over all bookings
Counters(s) ==
  [booked |-> Cardinality({b \in Active : bookings[b].session = s}),
   lab    |-> Cardinality({b \in Others(s) : bookings[b].session.work = s.work}),
   room   |-> Cardinality({b \in Others(s) : bookings[b].session.room = s.room}),
   stand  |-> StandTaken(s)]

\* seats_available
Available(s) ==
  LET n      == Counters(s)
      limits == {session[s].cap - n.booked, size[s.work].cap - n.lab - n.booked}
                \union IF n.room # 0 THEN {roomCap[s.room] - n.room - n.booked} ELSE {}
  IN  IF n.stand THEN 0 ELSE Max({0, Min(limits)})

Open(s) == session[s].status = "OPEN"

BusyAt(u, s) == \E b \in ActiveOf(u) : Overlap(bookings[b].session, s)

\* student_bookable_slots.  The query keeps to the global horizon.
StudentSlots(u, w) ==
  {s \in DOMAIN session :
    LET l == roomLab[s.room] IN
    /\ s.work = w /\ Open(s) /\ s.start > now
    /\ DateOf(s.start) \in WindowDates(HorizonDays, now) \ holidays
    /\ s.room \notin blocked
    /\ OnGrid(s.start)
    /\ DayOpen(DateOf(s.start), now, l)
    /\ BeforeDeadline(s.start, now, l)
    /\ ~BusyAt(u, s)
    /\ Whitelisted(u, s)
    /\ Available(s) > 0}

\* staff_manual_slots
StaffSlots(w) ==
  LET latest == ManualMaxDate(now, holidays) IN
  {s \in DOMAIN session :
    /\ s.work = w /\ Open(s)
    /\ s.room \notin blocked
    /\ InManualWindow(s.start, End(s), now, latest, holidays)}

-----------------------------------------------------------------------------
(* The booking service *)

\* student_can_access_lab_work
CanAccess(u, w) == w \in StudentLabWorks(u)

DisciplinesFor(u, w) == StudentDisciplines(u) \intersect work[w].disciplines

\* _resolve_booking_discipline: the first by title
ResolveDiscipline(u, w) == Min(DisciplinesFor(u, w))

\* _assert_slot_bookable
SlotBookable(s) == OnGrid(s.start) /\ Open(s) /\ DateOf(s.start) \notin holidays

\* Defect: a lab with a deadline is not asked for its horizon.
InWindowOfDeadline(u, s) ==
  LET l == roomLab[s.room] IN
  /\ BeforeDeadline(s.start, now, l)
  /\ Whitelisted(u, s) /\ s.start > now /\ SlotBookable(s)

\* _validate_booking_window
InBookingWindow(u, s) ==
  LET l == roomLab[s.room] IN
  /\ DayOpen(DateOf(s.start), now, l)
  /\ BeforeDeadline(s.start, now, l)
  /\ Whitelisted(u, s)
  /\ s.start > now
  /\ SlotBookable(s)

HasActiveIn(u, d) == \E b \in ActiveOf(u) : bookings[b].discipline = d

HasVisited(u, w) ==
  \E r \in Rows : r.student = u /\ r.session.work = w /\ r.status = "VISITED"

SeatFree(s) == Seat!HasSeat(s, Seat!SeatCounts(bookings, Active, s)) /\ StandFree(s)

\* _create_booking_in_transaction for a student
MayBook(u, s) ==
  /\ CanAccess(u, s.work) /\ DisciplinesFor(u, s.work) # {}
  /\ InBookingWindow(u, s)
  /\ ~HasActiveIn(u, ResolveDiscipline(u, s.work)) /\ ~HasVisited(u, s.work)
  /\ ~BusyAt(u, s)
  /\ SeatFree(s)

\* Defect: the window of students, which a session that has begun has left.
ManualBookableAhead ==
  LET latest == ManualMaxDate(now, holidays) IN
  {s \in DOMAIN session : s.start > now /\ DateOf(s.start) <= latest /\ SlotBookable(s)}

\* The sessions that _validate_manual_booking_window lets pass
ManualBookable ==
  LET latest == ManualMaxDate(now, holidays) IN
  {s \in DOMAIN session :
    /\ ManualTimeAllowed(s.start, End(s), now)
    /\ DateOf(s.start) <= latest
    /\ SlotBookable(s)}

\* StaffManualBookingView, and _create_booking_in_transaction with manual=True, for a
\* session in that window
MayBookManually(u, st, s) ==
  /\ CanModifyBookings(u) /\ s.work \in StaffLabWorks(u)
  /\ CanAccess(st, s.work) /\ DisciplinesFor(st, s.work) # {}
  /\ StandFree(s)

-----------------------------------------------------------------------------
(* Requests and jobs *)

Init ==
  /\ now = Min(Moments)
  /\ size = SizeAtFirst /\ roomCap = RoomCapAtFirst
  /\ session = [s \in {} |-> 0]
  /\ bookings = <<>>
  /\ holidays = {} /\ blocked = {} /\ edits = 0
  /\ ScopeInit

Tick ==
  /\ \E t \in Moments : t > now
  /\ now' = Min({t \in Moments : t > now})
  /\ UNCHANGED <<session, bookings, catalog>>

\* generate_sessions
Generate ==
  /\ session' = SessionsAfterGeneration(blocked)
  /\ UNCHANGED <<now, bookings, catalog>>

CreateBooking(st, s, by) ==
  /\ Len(bookings) + edits < MaxChanges
  /\ bookings' = Append(bookings,
       [student |-> st, session |-> s, discipline |-> ResolveDiscipline(st, s.work),
        by |-> by, status |-> "BOOKED"])
  /\ UNCHANGED <<now, session, catalog>>

\* BookConfirmView looks the session up in the catalog, then asks the service.
BookConfirm(st) ==
  \E w \in StudentLabWorks(st) : \E s \in StudentSlots(st, w) :
    MayBook(st, s) /\ CreateBooking(st, s, Self)

ManualBook(u, st) ==
  \E s \in ManualBookable : MayBookManually(u, st, s) /\ CreateBooking(st, s, u)

\* CancelBookingView
CancelBooking(b) ==
  LET s == bookings[b].session IN
  /\ b \in Active
  /\ CancelOpen(s.start, now, roomLab[s.room])
  /\ bookings' = [bookings EXCEPT ![b].status = "CANCELLED"]
  /\ UNCHANGED <<now, session, catalog>>

\* session_laboratory_id: that of the room, or the first of the lab work
LaboratoryOf(s) ==
  IF roomLab[s.room] # NoLab THEN roomLab[s.room]
  ELSE IF LabsOfWork[s.work] = {} THEN NoLab ELSE Min(LabsOfWork[s.work])

\* mark_visited_for_ended_sessions
RunJob ==
  LET mode(s) == ModeOf(LaboratoryOf(s))
      taken(s) == \E b \in Active : bookings[b].session = s
      ended == {s \in DOMAIN session :
                  End(s) <= now /\ (Open(s) \/ (session[s].status = "CLOSED" /\ taken(s)))}
      ready == {s \in ended : ReadyForAutoVisited(s.start, End(s), now, mode(s))}
      closing == ready \union {s \in ended : mode(s) = "MANUAL"}
  IN
  /\ closing # {}
  /\ session' = [s \in DOMAIN session |->
       IF s \in closing THEN [session[s] EXCEPT !.status = "CLOSED"] ELSE session[s]]
  /\ bookings' = [b \in DOMAIN bookings |->
       IF b \in Active /\ bookings[b].session \in ready
         THEN [bookings[b] EXCEPT !.status = "VISITED"] ELSE bookings[b]]
  /\ UNCHANGED <<now, catalog>>

Edited == Len(bookings) + edits < MaxChanges /\ edits' = edits + 1

\* _block_room_sessions
CancelSessionsOf(r) ==
  LET lost == {s \in DOMAIN session : s.room = r /\ s.start > now /\ Open(s)} IN
  /\ session' = [s \in DOMAIN session |->
       IF s \in lost THEN [session[s] EXCEPT !.status = "CANCELLED"] ELSE session[s]]
  /\ bookings' = [b \in DOMAIN bookings |->
       IF b \in Active /\ bookings[b].session \in lost
         THEN [bookings[b] EXCEPT !.status = "SLOT_CANCELLED"] ELSE bookings[b]]

\* _clean_room_payload, without the flag is_excluded_from_autogen
RoomForms == [cap : RoomCapacities, block : BOOLEAN]

\* LabHeadRoomUpdateView: a room that is now blocked loses its sessions, for one that
\* is free again sessions are generated.
UpdateRoom(u) ==
  \E r \in Rooms, form \in RoomForms :
    /\ Edited
    /\ roomLab[r] \in PortalLaboratories(u)
    /\ roomCap' = [roomCap EXCEPT ![r] = form.cap]
    /\ blocked' = IF form.block THEN blocked \union {r} ELSE blocked \ {r}
    /\ <<blocked', roomCap'>> # <<blocked, roomCap>>
    /\ \/ /\ form.block /\ r \notin blocked
          /\ CancelSessionsOf(r)
       \/ /\ ~form.block /\ r \in blocked
          /\ session' = SessionsAfterGeneration(blocked \ {r})
          /\ UNCHANGED bookings
       \/ /\ form.block <=> r \in blocked
          /\ UNCHANGED <<session, bookings>>
    /\ UNCHANGED <<now, size, holidays, scope>>

FutureOpen(w) == {s \in DOMAIN session : s.work = w /\ s.start > now /\ Open(s)}

\* sync_open_session_capacities: those that an entry covers
SyncCapacities(w, cap) ==
  session' = [s \in DOMAIN session |->
    IF s \in FutureOpen(w) /\ Matching(s) # {}
      THEN [session[s] EXCEPT !.cap = GeneratedCapacity(Min(Matching(s)), cap)] ELSE session[s]]

\* sync_open_session_durations: those that nobody has booked, covered or not
SyncDurations(w, duration) ==
  session' = [s \in DOMAIN session |->
    IF s \in FutureOpen(w) /\ \A b \in Active : bookings[b].session # s
      THEN [session[s] EXCEPT !.end = s.start + duration] ELSE session[s]]

\* LabHeadLabWorkUpdateView, for a form that changes the capacity, the duration or
\* both, and nothing else.  A change of both synchronises the capacities only.
ResizeLabWork(u) ==
  \E l \in PortalLaboratories(u), w \in Works, new \in Sizes :
    /\ Edited
    /\ l \in LabsOfWork[w]
    /\ size[w] # new
    /\ size' = [size EXCEPT ![w] = new]
    /\ IF size[w].cap # new.cap THEN SyncCapacities(w, new.cap) ELSE SyncDurations(w, new.duration)
    /\ UNCHANGED <<now, bookings, roomCap, holidays, blocked, scope>>

\* RoomAdmin changes the flag and leaves the sessions alone.
SetBlockedInAdmin ==
  \E r \in Rooms :
    /\ Edited
    /\ blocked' = IF r \in blocked THEN blocked \ {r} ELSE blocked \union {r}
    /\ UNCHANGED <<now, session, bookings, size, roomCap, holidays, scope>>

\* HolidayAdmin
AddHoliday ==
  \E day \in HolidayDates \ holidays :
    /\ Edited
    /\ holidays' = holidays \union {day}
    /\ UNCHANGED <<now, session, bookings, size, roomCap, blocked, scope>>

Edit ==
  /\ Edited
  /\ EditScope
  /\ UNCHANGED <<now, session, bookings, size, roomCap, holidays, blocked>>

Next ==
  \/ Tick \/ Generate \/ RunJob
  \/ \E st \in Students : BookConfirm(st) \/ \E u \in Staff : ManualBook(u, st)
  \/ \E b \in DOMAIN bookings : CancelBooking(b)
  \/ \E u \in Staff : UpdateRoom(u) \/ ResizeLabWork(u)
  \/ SetBlockedInAdmin \/ AddHoliday \/ Edit

Spec == Init /\ [][Next]_vars

-----------------------------------------------------------------------------
\* Every variable has its type; a lab work never loses its last discipline, and a
\* booking is for a session that exists.
TypeOK ==
  /\ now \in Moments
  /\ ScopeTypeOK
  /\ size \in [Works -> Sizes] /\ roomCap \in [Rooms -> RoomCapacities]
  /\ DOMAIN session \subseteq [work : Works, room : Rooms, start : Nat]
  /\ \A s \in DOMAIN session :
       session[s] \in [cap : Nat \ {0}, end : Nat, status : {"OPEN", "CLOSED", "CANCELLED"}]
  /\ \A b \in DOMAIN bookings : bookings[b] \in
       [student : Students, session : DOMAIN session, discipline : Disciplines,
        by : Staff \union {Self}, status : {"BOOKED", "VISITED", "CANCELLED", "SLOT_CANCELLED"}]
  /\ holidays \subseteq HolidayDates /\ blocked \subseteq Rooms
  /\ edits \in 0 .. MaxChanges - Len(bookings)

\* A student who may open the lab work is offered no session that the service refuses,
\* except for what the catalog leaves to it: an active booking in the discipline, a
\* lab work already visited, and a work without a published discipline of the plan.
OffersAreHonoured ==
  \A st \in Students : \A w \in StudentLabWorks(st) : \A s \in StudentSlots(st, w) :
    \/ MayBook(st, s)
    \/ DisciplinesFor(st, w) = {}
    \/ HasActiveIn(st, ResolveDiscipline(st, w))
    \/ HasVisited(st, w)

\* Conversely, what the service would accept is offered, unless the room is blocked
\* or the horizon of the laboratory goes beyond the global one.
AcceptedIsOffered ==
  \A st \in Students, s \in DOMAIN session :
    MayBook(st, s) =>
      \/ s \in StudentSlots(st, s.work)
      \/ s.room \in blocked
      \/ DateOf(s.start) > DateOf(now) + HorizonDays

\* The catalog counts seats in bulk and the service one session at a time: as many
\* students as there are seats shown can book one after the other, and no more
\* ("the catalog shows exactly what the booking paths check", session_catalog.py:6).
SeatsShownCanBeTaken ==
  \A s \in DOMAIN session :
    LET seats   == Available(s)
        after(k) == [Seat!SeatCounts(bookings, Active, s) EXCEPT !.session = @ + k]
    IN  \A k \in 0..seats : StandFree(s) /\ Seat!HasSeat(s, after(k)) <=> k < seats

\* What the generator makes, the whitelist knows: a session is on the grid, lies in
\* one pair of a working day and is covered by an entry on the parity of its own week.
GeneratedIsBookable ==
  [][\A s \in DOMAIN session' \ DOMAIN session :
       /\ OnGrid(s.start) /\ DateOf(s.start) \notin holidays
       /\ \E p \in PairsAt(MinuteOf(s.start)) : MinuteOf(session'[s].end) <= p.to
       /\ \E i \in DOMAIN Entries : EntryMatches(Entries[i], s, session'[s].end)]_vars

\* What the wizard of a manual booking leads to, student, lab work and session, the
\* service accepts, unless the stand is taken or the student has no discipline for it.
WizardIsHonoured ==
  LET accepted == ManualBookable IN
  \A w \in Works : \A s \in {x \in StaffSlots(w) : StandFree(x)} :
    \A u \in {v \in Staff : CanModifyBookings(v)} : \A st \in StaffStudents(u, Rows) :
      w \in ManualLabWorkItems(u, st) /\ DisciplinesFor(st, w) # {} =>
        s \in accepted /\ MayBookManually(u, st, s)

\* A booking that a member of staff made stays in their scope, and its student too,
\* wherever its room is moved, whatever is unbound or unpublished ("bookings by the lab
\* work of the laboratory are always visible", bookings/scope.py:5).
ManualBookingInScope ==
  \A r \in Rows : r.by # Self =>
    r \in StaffBookings(r.by, Rows) /\ r.student \in StaffStudents(r.by, Rows)

=============================================================================
