------------------------ MODULE BookingTransactions ------------------------
(***************************************************************************)
(* Concurrent bookings as PostgreSQL READ COMMITTED transactions           *)
(* (bookings/services/booking.py and booking_mutations.py).                *)
(*                                                                         *)
(* A request is one call of create_booking.  It reads its session, locks   *)
(* the session and its neighbours in primary-key order, checks the rules,  *)
(* one database statement per action, and commits.  A canceller is one     *)
(* call of cancel_session_bookings.  Cancelling or re-marking one booking  *)
(* locks a single row, so it is one action.  What a transaction wrote is   *)
(* visible to the others, and its row locks are free, when it commits.     *)
(***************************************************************************)
EXTENDS SeatCapacity

CONSTANTS
  Cancellers,
  Outcomes,       \* the statuses staff may ask for with change_status
  NoProc

ASSUME ProcAssumption ==
  /\ IsFiniteSet(Cancellers)
  /\ Requests \intersect Cancellers = {}
  /\ NoProc \notin Requests \union Cancellers
  /\ Outcomes \subseteq {"VISITED", "NO_SHOW", "REACCESS", "CANCELLED", "SLOT_CANCELLED"}

VARIABLES
  req,            \* what each request asks: [student, session, discipline, manual]
  target,         \* the session each canceller cancels
  pc,             \* control state of each request and canceller
  status,         \* committed current_status of the booking of each request
  sessionStatus,  \* committed status of each session
  lock,           \* holder of the row lock of each session
  rowLock,        \* canceller that holds the row lock of each booking
  readStatus,     \* the session status a request read before it locked
  seen,           \* the seat counts a request read
  todo            \* bookings a canceller has listed and not yet locked

inputs == <<req, target>>
vars == <<req, target, pc, status, sessionStatus, lock, rowLock, readStatus, seen, todo>>

Procs == Requests \union Cancellers

Booked == {b \in Requests : status[b] = "BOOKED"}

Init ==
  /\ req \in [Requests -> RequestData]
  /\ target \in [Cancellers -> Sessions]
  /\ pc = [p \in Procs |-> "new"]
  /\ status = [b \in Requests |-> "NONE"]
  /\ sessionStatus = [s \in Sessions |-> "OPEN"]
  /\ lock = [s \in Sessions |-> NoProc]
  /\ rowLock = [b \in Requests |-> NoProc]
  /\ readStatus = [r \in Requests |-> "OPEN"]
  /\ seen = [r \in Requests |-> [session |-> 0, lab |-> 0, room |-> 0]]
  /\ todo = [a \in Cancellers |-> {}]

Goto(p, from, to) == pc[p] = from /\ pc' = [pc EXCEPT ![p] = to]

Held(p) == {s \in Sessions : lock[s] = p}

\* COMMIT or ROLLBACK: every row lock of p is free again.
ReleaseLocks(p) ==
  /\ lock' = [s \in Sessions |-> IF lock[s] = p THEN NoProc ELSE lock[s]]
  /\ rowLock' = [b \in Requests |-> IF rowLock[b] = p THEN NoProc ELSE rowLock[b]]

Rollback(p, from) ==
  /\ Goto(p, from, "rejected")
  /\ ReleaseLocks(p)
  /\ UNCHANGED <<inputs, status, sessionStatus, readStatus, seen, todo>>

-----------------------------------------------------------------------------
(* create_booking *)

\* The session row is read once, before any lock, and never read again.
ReadSession(r) ==
  /\ Goto(r, "new", "locking")
  /\ readStatus' = [readStatus EXCEPT ![r] = sessionStatus[req[r].session]]
  /\ UNCHANGED <<inputs, status, sessionStatus, lock, rowLock, seen, todo>>

\* Defect: only the session itself is locked.
LockIdsTargetOnly(s) == {s}

\* Defect: sessions of other rooms and lab works on the same stand are left out.
LockIdsWithoutStand(s) ==
  {s} \union
  {u \in Sessions : Overlaps(u, s) /\ (RoomOf[u] = RoomOf[s] \/ LabWorkOf[u] = LabWorkOf[s])}

\* _collect_booking_lock_ids: the session and the overlapping sessions of its
\* room, of its lab work and of its stand.
LockIds(s) ==
  {s} \union
  {u \in Sessions :
     /\ Overlaps(u, s)
     /\ RoomOf[u] = RoomOf[s] \/ LabWorkOf[u] = LabWorkOf[s] \/ SharesStand(s, u)}

LockIdsOf == [s \in Sessions |-> LockIds(s)]

Missing(r) == LockIdsOf[req[r].session] \ Held(r)

\* Defect: the rows are locked in no particular order.
InAnyOrder(r, s) == s \in Missing(r)

\* SELECT ... ORDER BY pk FOR UPDATE waits for one row at a time.
NextToLock(r, s) == s \in Missing(r) /\ \A u \in Missing(r) : s <= u

LockSession(r) ==
  \E s \in Sessions :
    /\ NextToLock(r, s)
    /\ lock[s] = NoProc
    /\ lock' = [lock EXCEPT ![s] = r]
    /\ Goto(r, "locking", IF Missing(r) = {s} THEN "locked" ELSE "locking")
    /\ UNCHANGED <<inputs, status, sessionStatus, rowLock, readStatus, seen, todo>>

\* The student may not do the lab work, or has no discipline to book it under:
\* decided after the session is read and before anything is locked.
RefuseAccess(r) == Held(r) = {} /\ Rollback(r, "locking")

\* The date, deadline, whitelist, pair-time and holiday rules refuse.
RefuseWindow(r) == Rollback(r, "locked")

\* _check_discipline_limit
DisciplineFree(r) ==
  \A b \in Requests : req[b].student = req[r].student =>
    /\ req[b].discipline = req[r].discipline => status[b] # "BOOKED"
    /\ LabWorkOf[req[b].session] = LabWorkOf[req[r].session] => status[b] # "VISITED"

\* The window check sees the status read before the locks.
CheckDiscipline(r) ==
  /\ ~req[r].manual
  /\ IF readStatus[r] = "OPEN" /\ DisciplineFree(r)
       THEN /\ Goto(r, "locked", "allowed")
            /\ UNCHANGED <<inputs, status, sessionStatus, lock, rowLock, readStatus, seen, todo>>
       ELSE Rollback(r, "locked")

\* _student_overlap_bookings
StudentBusy(r) ==
  \E b \in Booked :
    /\ req[b].student = req[r].student
    /\ Overlaps(req[b].session, req[r].session)

CheckOverlap(r) ==
  IF StudentBusy(r)
    THEN Rollback(r, "allowed")
    ELSE /\ Goto(r, "allowed", "clear")
         /\ UNCHANGED <<inputs, status, sessionStatus, lock, rowLock, readStatus, seen, todo>>

\* _enforce_capacity_limits: the counts of session_seat_counts ...
CountSeats(r) ==
  /\ Goto(r, "clear", "counted")
  /\ seen' = [seen EXCEPT ![r] = SeatCounts(req, Booked, req[r].session)]
  /\ UNCHANGED <<inputs, status, sessionStatus, lock, rowLock, readStatus, todo>>

\* Defect: the stand is not looked at.
CheckSeatsWithoutStand(r) ==
  IF HasSeat(req[r].session, seen[r])
    THEN /\ Goto(r, "counted", "passed")
         /\ UNCHANGED <<inputs, status, sessionStatus, lock, rowLock, readStatus, seen, todo>>
    ELSE Rollback(r, "counted")

\* ... then its stand query, and the decision on all four.
CheckSeats(r) ==
  LET s == req[r].session IN
  IF HasSeat(s, seen[r]) /\ ~StandBlocked(req, Booked, s)
    THEN /\ Goto(r, "counted", "passed")
         /\ UNCHANGED <<inputs, status, sessionStatus, lock, rowLock, readStatus, seen, todo>>
    ELSE Rollback(r, "counted")

\* _validate_manual_booking_rules: of the limits only the stand is hard.
CheckManual(r) ==
  /\ req[r].manual
  /\ IF readStatus[r] = "OPEN" /\ ~StandBlocked(req, Booked, req[r].session)
       THEN /\ Goto(r, "locked", "passed")
            /\ UNCHANGED <<inputs, status, sessionStatus, lock, rowLock, readStatus, seen, todo>>
       ELSE Rollback(r, "locked")

\* INSERT and COMMIT
CommitBooking(r) ==
  /\ Goto(r, "passed", "done")
  /\ status' = [status EXCEPT ![r] = "BOOKED"]
  /\ ReleaseLocks(r)
  /\ UNCHANGED <<inputs, sessionStatus, readStatus, seen, todo>>

-----------------------------------------------------------------------------
(* cancel_booking and change_status: one row, re-read under its lock *)

SetStatus(b, new) ==
  /\ rowLock[b] = NoProc
  /\ status' = [status EXCEPT ![b] = new]
  /\ UNCHANGED <<inputs, pc, sessionStatus, lock, rowLock, readStatus, seen, todo>>

CancelBooking(b) == status[b] = "BOOKED" /\ SetStatus(b, "CANCELLED")

\* STATUS_TRANSITIONS, and the two cancellations change_status delegates
StatusTransitions(old) ==
  CASE old = "BOOKED"  -> {"VISITED", "NO_SHOW", "REACCESS", "CANCELLED", "SLOT_CANCELLED"}
    [] old = "NO_SHOW" -> {"REACCESS", "VISITED"}
    [] OTHER           -> {}

ChangeStatus(b) ==
  \E new \in Outcomes : new \in StatusTransitions(status[b]) /\ SetStatus(b, new)

-----------------------------------------------------------------------------
(* cancel_session_bookings, called for a session that was read OPEN *)

ReadLiveSession(a) ==
  /\ sessionStatus[target[a]] = "OPEN"
  /\ Goto(a, "new", "loaded")
  /\ UNCHANGED <<inputs, status, sessionStatus, lock, rowLock, readStatus, seen, todo>>

\* Defect: the session row is saved after the loop over its bookings.
LockCancelledSessionLate(a) ==
  /\ Goto(a, "loaded", "updated")
  /\ UNCHANGED <<inputs, status, sessionStatus, lock, rowLock, readStatus, seen, todo>>

\* UPDATE ... SET status: the session row is locked before bookings are listed.
LockCancelledSession(a) ==
  /\ lock[target[a]] = NoProc
  /\ Goto(a, "loaded", "updated")
  /\ lock' = [lock EXCEPT ![target[a]] = a]
  /\ UNCHANGED <<inputs, status, sessionStatus, rowLock, readStatus, seen, todo>>

ListBookings(a) ==
  /\ Goto(a, "updated", "listed")
  /\ todo' = [todo EXCEPT ![a] = SessionBooked(req, Booked, target[a])]
  /\ UNCHANGED <<inputs, status, sessionStatus, lock, rowLock, readStatus, seen>>

\* _mark_slot_cancelled_impl: a booking that is not BOOKED any more raises, and
\* the whole cancellation rolls back.
MarkSlotCancelled(a) ==
  \E b \in todo[a] :
    /\ rowLock[b] = NoProc
    /\ IF status[b] = "BOOKED"
         THEN /\ Goto(a, "listed", "listed")
              /\ rowLock' = [rowLock EXCEPT ![b] = a]
              /\ todo' = [todo EXCEPT ![a] = @ \ {b}]
              /\ UNCHANGED <<inputs, status, sessionStatus, lock, readStatus, seen>>
         ELSE Rollback(a, "listed")

CommitCancel(a) ==
  /\ todo[a] = {}
  /\ Goto(a, "listed", "done")
  /\ sessionStatus' = [sessionStatus EXCEPT ![target[a]] = "CANCELLED"]
  /\ status' = [b \in Requests |-> IF rowLock[b] = a THEN "SLOT_CANCELLED" ELSE status[b]]
  /\ ReleaseLocks(a)
  /\ UNCHANGED <<inputs, readStatus, seen, todo>>

-----------------------------------------------------------------------------
Finished == {"done", "rejected"}

\* Defect: without transaction.atomic the INSERT survives the worker.
DieAfterInsert(p) ==
  /\ p \in Requests
  /\ Goto(p, "passed", "rejected")
  /\ status' = [status EXCEPT ![p] = "BOOKED"]
  /\ ReleaseLocks(p)
  /\ UNCHANGED <<inputs, sessionStatus, readStatus, seen, todo>>

\* A worker that dies mid-transaction leaves nothing behind.
Die(p) == pc[p] \notin Finished \union {"new"} /\ Rollback(p, pc[p])

RequestStep(r) ==
  \/ ReadSession(r) \/ LockSession(r)
  \/ CheckDiscipline(r) \/ CheckOverlap(r) \/ CountSeats(r) \/ CheckSeats(r)
  \/ CheckManual(r)
  \/ CommitBooking(r)

CancellerStep(a) ==
  \/ ReadLiveSession(a) \/ LockCancelledSession(a) \/ ListBookings(a)
  \/ MarkSlotCancelled(a) \/ CommitCancel(a)

\* Nothing is left to do: every call returned, or finds its session cancelled.
Quiet ==
  /\ \A r \in Requests : pc[r] \in Finished
  /\ \A a \in Cancellers :
       \/ pc[a] \in Finished
       \/ pc[a] = "new" /\ sessionStatus[target[a]] # "OPEN"
  /\ UNCHANGED vars

Next ==
  \/ \E r \in Requests : RequestStep(r) \/ RefuseAccess(r) \/ RefuseWindow(r)
  \/ \E a \in Cancellers : CancellerStep(a)
  \/ \E p \in Procs : Die(p)
  \/ \E b \in Requests : CancelBooking(b) \/ ChangeStatus(b)
  \/ Quiet

Spec == Init /\ [][Next]_vars

\* The database serves a transaction that is not blocked; nobody has to cancel.
Fairness ==
  /\ \A r \in Requests : WF_vars(RequestStep(r))
  /\ \A a \in Cancellers : WF_vars(CancellerStep(a))

FairSpec == Spec /\ Fairness

-----------------------------------------------------------------------------
Statuses ==
  {"NONE", "BOOKED", "VISITED", "NO_SHOW", "REACCESS", "CANCELLED", "SLOT_CANCELLED"}

RequestStates ==
  {"new", "locking", "locked", "allowed", "clear", "counted", "passed"} \union Finished

CancellerStates == {"new", "loaded", "updated", "listed"} \union Finished

\* Every variable has its type, exactly the requests that committed have a
\* booking row, and the rows a cancellation holds stay BOOKED until it commits.
TypeOK ==
  /\ req \in [Requests -> RequestData]
  /\ target \in [Cancellers -> Sessions]
  /\ pc \in [Procs -> RequestStates \union CancellerStates]
  /\ \A r \in Requests : pc[r] \in RequestStates
  /\ \A a \in Cancellers : pc[a] \in CancellerStates
  /\ status \in [Requests -> Statuses]
  /\ \A r \in Requests : status[r] # "NONE" <=> pc[r] = "done"
  /\ sessionStatus \in [Sessions -> {"OPEN", "CANCELLED"}]
  /\ lock \in [Sessions -> Procs \union {NoProc}]
  /\ rowLock \in [Requests -> Cancellers \union {NoProc}]
  /\ \A b \in Requests : rowLock[b] # NoProc => status[b] = "BOOKED"
  /\ readStatus \in [Requests -> {"OPEN", "CANCELLED"}]
  /\ seen \in [Requests -> [session : Nat, lab : Nat, room : Nat]]
  /\ todo \in [Cancellers -> SUBSET Requests]

-----------------------------------------------------------------------------
(* The abstract specification, with the BOOKED rows as its bookings *)

Seats == INSTANCE SeatAllocation WITH booked <- Booked

\* Every interleaving of the transactions places bookings as if each were
\* checked and inserted in one step: the row locks make the checks of
\* _create_booking_in_transaction hold until its commit.
BooksLikeSeatAllocation == Seats!Spec

\* Students who book themselves never exceed the seats of a session, whatever
\* else is being booked or cancelled at the time (_enforce_capacity_limits).
SlotNeverOverbooked == WithinSlots(req, Booked)

\* At no moment do students who booked themselves exceed the seats of a lab
\* work over its sessions running at that moment.
LabWorkNeverOverbooked == WithinLabWorks(req, Booked)

\* At no moment do sessions that share a room exceed the seats of the room.
SharedRoomNeverOverbooked == WithinSharedRooms(req, Booked)

\* Two lab works never have bookings on one stand for overlapping times, manual
\* bookings included (is_stand_blocked_by_other_lab_work).
StandNeverShared == OneLabWorkPerStand(req, Booked)

-----------------------------------------------------------------------------
(* Locks *)

WaitsFor(p, q) ==
  /\ q # p
  /\ \/ /\ p \in Requests /\ pc[p] = "locking"
        /\ \E s \in Sessions : NextToLock(p, s) /\ lock[s] = q
     \/ /\ p \in Cancellers /\ pc[p] = "loaded"
        /\ lock[target[p]] = q
     \/ /\ p \in Cancellers /\ pc[p] = "listed"
        /\ \E b \in todo[p] : rowLock[b] = q

\* No set of transactions waits for itself: locking in primary-key order leaves
\* PostgreSQL no deadlock to break among bookings and slot cancellations.
NoLockCycle ==
  \A P \in (SUBSET Procs) \ {{}} : \E p \in P : \A q \in P : ~WaitsFor(p, q)

\* A request that has passed its checks can still be seated when it inserts,
\* whatever was committed since it read the counts.
PassedChecksStayTrue ==
  \A r \in Requests : pc[r] = "passed" => MayTake(req, Booked, r)

\* When a session becomes CANCELLED, no booking of it is left BOOKED: none can
\* slip in between the listing and the commit of cancel_session_bookings.
CancelTakesEveryBooking ==
  [][\A s \in Sessions :
       sessionStatus[s] = "OPEN" /\ sessionStatus'[s] = "CANCELLED" =>
         \A b \in Requests : req[b].session = s => status'[b] # "BOOKED"]_vars

\* A call that has started returns: nobody waits for ever behind a lock.
EveryCallReturns ==
  \A p \in Procs : pc[p] # "new" ~> pc[p] \in Finished

-----------------------------------------------------------------------------
(* What the messages of booking.py say of the program *)

\* "Already an active booking in this discipline" (booking.py:199): a student
\* does not make two active bookings in one discipline.
OneActivePerDiscipline ==
  \A b, c \in Booked :
    /\ ~req[b].manual /\ ~req[c].manual
    /\ req[b].student = req[c].student
    /\ req[b].discipline = req[c].discipline
    => b = c

\* "The slot is not open for booking" (booking.py:100): nobody holds a booking
\* in a session that has been cancelled.
NoBookingInCancelledSlot ==
  \A b \in Booked : sessionStatus[req[b].session] = "OPEN"

=============================================================================
