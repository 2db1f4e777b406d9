--------------------- MODULE BookingTransactionsProofs ---------------------
(***************************************************************************)
(* The transactions of BookingTransactions place bookings as               *)
(* SeatAllocation does, for every timetable and any finite number of       *)
(* requests and slot cancellations.                                        *)
(***************************************************************************)
EXTENDS BookingTransactions, SeatCapacityProofs

-----------------------------------------------------------------------------
(* The kinds of steps *)

\* A check that succeeds only moves its request on.
Pass(r, from, to) ==
  /\ Goto(r, from, to)
  /\ UNCHANGED <<inputs, status, sessionStatus, lock, rowLock, readStatus, seen, todo>>

SeatsPass(r) ==
  /\ Pass(r, "counted", "passed")
  /\ HasSeat(req[r].session, seen[r])
  /\ ~StandBlocked(req, Booked, req[r].session)

ManualPass(r) ==
  /\ Pass(r, "locked", "passed")
  /\ req[r].manual
  /\ ~StandBlocked(req, Booked, req[r].session)

\* A booking is re-marked, by its student or by staff.
Remark(b) ==
  /\ status[b] \in {"BOOKED", "NO_SHOW"}
  /\ \E new \in Statuses \ {"NONE", "BOOKED"} : SetStatus(b, new)

MarkOne(a, b) ==
  /\ b \in todo[a] /\ rowLock[b] = NoProc /\ status[b] = "BOOKED"
  /\ Goto(a, "listed", "listed")
  /\ rowLock' = [rowLock EXCEPT ![b] = a]
  /\ todo' = [todo EXCEPT ![a] = @ \ {b}]
  /\ UNCHANGED <<inputs, status, sessionStatus, lock, readStatus, seen>>

Step ==
  \/ \E p \in Procs : pc[p] \notin {"new"} \union Finished /\ Rollback(p, pc[p])
  \/ \E r \in Requests :
       \/ ReadSession(r) \/ LockSession(r)
       \/ Pass(r, "locked", "allowed") \/ Pass(r, "allowed", "clear")
       \/ CountSeats(r) \/ SeatsPass(r) \/ ManualPass(r)
       \/ CommitBooking(r) \/ Remark(r)
  \/ \E a \in Cancellers :
       \/ ReadLiveSession(a) \/ LockCancelledSession(a) \/ ListBookings(a)
       \/ \E b \in Requests : MarkOne(a, b)
       \/ CommitCancel(a)
  \/ UNCHANGED vars

\* Every step is one of these: a check passes, or its transaction rolls back.
LEMMA StepKinds == ASSUME TypeOK, [Next]_vars PROVE Step
<1>1. ASSUME NEW r \in Requests, RequestStep(r) \/ RefuseAccess(r) \/ RefuseWindow(r)
      PROVE  Step
  <2>0. r \in Procs
    BY DEF Procs
  <2>1. CASE ReadSession(r) \/ LockSession(r) \/ CountSeats(r) \/ CommitBooking(r)
    BY <2>1 DEF Step
  <2>2. ASSUME NEW from \in {"locking", "locked", "allowed", "counted"}, Rollback(r, from)
        PROVE  Step
    BY <2>0, <2>2 DEF Step, Rollback, Goto, Finished
  <2>3. CASE CheckDiscipline(r)
    BY <2>2, <2>3 DEF CheckDiscipline, Step, Pass
  <2>4. CASE CheckOverlap(r)
    BY <2>2, <2>4 DEF CheckOverlap, Step, Pass
  <2>5. CASE CheckSeats(r)
    BY <2>2, <2>5 DEF CheckSeats, Step, SeatsPass, Pass
  <2>6. CASE CheckManual(r)
    BY <2>2, <2>6 DEF CheckManual, Step, ManualPass, Pass
  <2>7. CASE RefuseAccess(r) \/ RefuseWindow(r)
    BY <2>2, <2>7 DEF RefuseAccess, RefuseWindow
  <2>8. QED
    BY <1>1, <2>1, <2>3, <2>4, <2>5, <2>6, <2>7 DEF RequestStep
<1>2. ASSUME NEW a \in Cancellers, CancellerStep(a)
      PROVE  Step
  <2>1. CASE ReadLiveSession(a) \/ LockCancelledSession(a) \/ ListBookings(a) \/ CommitCancel(a)
    BY <2>1 DEF Step
  <2>2. CASE MarkSlotCancelled(a)
    <3>1. PICK b \in todo[a] :
            /\ rowLock[b] = NoProc
            /\ IF status[b] = "BOOKED"
                 THEN /\ Goto(a, "listed", "listed")
                      /\ rowLock' = [rowLock EXCEPT ![b] = a]
                      /\ todo' = [todo EXCEPT ![a] = @ \ {b}]
                      /\ UNCHANGED <<inputs, status, sessionStatus, lock, readStatus, seen>>
                 ELSE Rollback(a, "listed")
      BY <2>2 DEF MarkSlotCancelled
    <3>2. b \in Requests /\ a \in Procs
      BY DEF TypeOK, Procs
    <3>3. CASE status[b] = "BOOKED"
      BY <3>1, <3>2, <3>3 DEF Step, MarkOne
    <3>4. CASE status[b] # "BOOKED"
      BY <3>1, <3>2, <3>4 DEF Step, Rollback, Goto, Finished
    <3>5. QED  BY <3>3, <3>4
  <2>3. QED  BY <1>2, <2>1, <2>2 DEF CancellerStep
<1>3. ASSUME NEW p \in Procs, Die(p)
      PROVE  Step
  BY <1>3 DEF Die, Step
<1>4. ASSUME NEW b \in Requests, CancelBooking(b) \/ ChangeStatus(b)
      PROVE  Step
  <2>1. CASE CancelBooking(b)
    BY <2>1 DEF CancelBooking, Step, Remark, Statuses
  <2>2. CASE ChangeStatus(b)
    BY <2>2 DEF ChangeStatus, StatusTransitions, Step, Remark, Statuses
  <2>3. QED  BY <1>4, <2>1, <2>2
<1>5. CASE UNCHANGED vars
  BY <1>5 DEF Step
<1>6. QED  BY <1>1, <1>2, <1>3, <1>4, <1>5 DEF Next, Quiet

-----------------------------------------------------------------------------
(* Types *)

\* The types are kept by every step.
LEMMA TypeStep == ASSUME TypeOK, Step PROVE TypeOK'
<1> USE ProcAssumption
    DEF TypeOK, Procs, RequestStates, CancellerStates, Finished, Statuses, inputs, Goto
<1>1. ASSUME NEW p \in Procs, pc[p] \notin {"new"} \union Finished, Rollback(p, pc[p])
      PROVE  TypeOK'
  <2>1. /\ pc[p] # "done"
        /\ pc' = [pc EXCEPT ![p] = "rejected"]
        /\ lock' = [s \in Sessions |-> IF lock[s] = p THEN NoProc ELSE lock[s]]
        /\ rowLock' = [b \in Requests |-> IF rowLock[b] = p THEN NoProc ELSE rowLock[b]]
        /\ UNCHANGED <<req, target, status, sessionStatus, readStatus, seen, todo>>
    BY <1>1 DEF Rollback, ReleaseLocks
  <2>2. /\ pc' \in [Procs -> RequestStates \union CancellerStates]
        /\ \A r \in Requests : pc'[r] \in RequestStates
        /\ \A a \in Cancellers : pc'[a] \in CancellerStates
    BY <2>1
  <2>3. \A r \in Requests : status'[r] # "NONE" <=> pc'[r] = "done"
    BY <2>1
  <2>4. /\ lock' \in [Sessions -> Procs \union {NoProc}]
        /\ rowLock' \in [Requests -> Cancellers \union {NoProc}]
        /\ \A b \in Requests : rowLock'[b] # NoProc => status'[b] = "BOOKED"
    BY <2>1
  <2>5. QED  BY <2>1, <2>2, <2>3, <2>4
<1>2. ASSUME NEW r \in Requests, ReadSession(r) PROVE TypeOK'
  BY <1>2, RequestTypes DEF ReadSession
<1>3. ASSUME NEW r \in Requests, LockSession(r) PROVE TypeOK'
  <2>1. PICK s \in Sessions :
          /\ lock' = [lock EXCEPT ![s] = r]
          /\ Goto(r, "locking", IF Missing(r) = {s} THEN "locked" ELSE "locking")
          /\ UNCHANGED <<inputs, status, sessionStatus, rowLock, readStatus, seen, todo>>
    BY <1>3 DEF LockSession
  <2>2. PICK to \in {"locked", "locking"} : pc[r] = "locking" /\ pc' = [pc EXCEPT ![r] = to]
    BY <2>1
  <2>3. /\ pc' \in [Procs -> RequestStates \union CancellerStates]
        /\ \A q \in Requests : pc'[q] \in RequestStates
        /\ \A a \in Cancellers : pc'[a] \in CancellerStates
    BY <2>2
  <2>4. \A q \in Requests : status'[q] # "NONE" <=> pc'[q] = "done"
    BY <2>1, <2>2
  <2>5. QED  BY <2>1, <2>3, <2>4
<1>4. ASSUME NEW r \in Requests, NEW from \in RequestStates \ Finished,
             NEW to \in RequestStates \ Finished, Pass(r, from, to)
      PROVE  TypeOK'
  <2>1. pc[r] = from /\ pc' = [pc EXCEPT ![r] = to]
    BY <1>4 DEF Pass
  <2>2. UNCHANGED <<req, target, status, sessionStatus, lock, rowLock, readStatus, seen, todo>>
    BY <1>4 DEF Pass
  <2>3. /\ pc' \in [Procs -> RequestStates \union CancellerStates]
        /\ \A q \in Requests : pc'[q] \in RequestStates
        /\ \A a \in Cancellers : pc'[a] \in CancellerStates
    BY <2>1
  <2>4. \A q \in Requests : status'[q] # "NONE" <=> pc'[q] = "done"
    BY <2>1, <2>2
  <2>5. QED  BY <2>2, <2>3, <2>4
<1>5. ASSUME NEW r \in Requests, CountSeats(r) PROVE TypeOK'
  <2>1. Booked \subseteq Requests
    BY DEF Booked
  <2>2. SeatCounts(req, Booked, req[r].session) \in [session : Nat, lab : Nat, room : Nat]
    BY <2>1, CountedSets, FS_CardinalityType DEF SeatCounts
  <2>3. QED  BY <1>5, <2>2 DEF CountSeats
<1>6. ASSUME NEW r \in Requests,
             \/ Pass(r, "locked", "allowed") \/ Pass(r, "allowed", "clear")
             \/ SeatsPass(r) \/ ManualPass(r)
      PROVE  TypeOK'
  BY <1>4, <1>6 DEF SeatsPass, ManualPass
<1>7. ASSUME NEW r \in Requests, CommitBooking(r) PROVE TypeOK'
  BY <1>7 DEF CommitBooking, ReleaseLocks
<1>8. ASSUME NEW b \in Requests, Remark(b) PROVE TypeOK'
  BY <1>8 DEF Remark, SetStatus
<1>9. ASSUME NEW a \in Cancellers,
             ReadLiveSession(a) \/ LockCancelledSession(a) \/ ListBookings(a)
      PROVE  TypeOK'
  BY <1>9 DEF ReadLiveSession, LockCancelledSession, ListBookings, SessionBooked, Booked
<1>10. ASSUME NEW a \in Cancellers, NEW b \in Requests, MarkOne(a, b) PROVE TypeOK'
  BY <1>10 DEF MarkOne
<1>11. ASSUME NEW a \in Cancellers, CommitCancel(a) PROVE TypeOK'
  BY <1>11 DEF CommitCancel, ReleaseLocks
<1>12. CASE UNCHANGED vars
  BY <1>12 DEF vars
<1>13. QED
  BY <1>1, <1>2, <1>3, <1>4, <1>5, <1>6, <1>7, <1>8, <1>9, <1>10, <1>11, <1>12 DEF Step

\* Every reachable state is well typed.
THEOREM TypesHold == Spec => []TypeOK
<1>1. Init => TypeOK
  BY ProcAssumption
     DEF Init, TypeOK, Procs, RequestStates, CancellerStates, Finished, Statuses
<1>2. TypeOK /\ [Next]_vars => TypeOK'
  BY StepKinds, TypeStep
<1>3. QED  BY <1>1, <1>2, PTL DEF Spec

-----------------------------------------------------------------------------
(* The locks *)

Locked == {"locked", "allowed", "clear", "counted", "passed"}

\* A request that has left its locking loop holds every lock it asked for.
HoldsLocks ==
  \A r \in Requests : pc[r] \in Locked => \A s \in LockIds(req[r].session) : lock[s] = r

\* Locking the last missing row is what ends the loop; only COMMIT and ROLLBACK
\* free a lock, and then the request has left the locked states.
LEMMA LocksStep == ASSUME TypeOK, HoldsLocks, Step PROVE HoldsLocks'
<1> USE ProcAssumption DEF Locked
<1>0. \A r \in Requests : req[r].session \in Sessions /\ LockIds(req[r].session) \subseteq Sessions
  BY RequestTypes DEF TypeOK, LockIds
<1>t. pc \in [Procs -> RequestStates \union CancellerStates] /\ Requests \subseteq Procs
      /\ Cancellers \subseteq Procs
      /\ lock \in [Sessions -> Procs \union {NoProc}]
  BY DEF TypeOK, Procs
\* Steps that leave the requests' control states, or move one between locked
\* states, and free no lock of a request.
<1>s. ASSUME UNCHANGED req,
             \A r \in Requests : pc'[r] \in Locked => pc[r] \in Locked,
             \A r \in Requests, s \in Sessions : pc'[r] \in Locked /\ lock[s] = r => lock'[s] = r
      PROVE  HoldsLocks'
  BY <1>s, <1>0 DEF HoldsLocks
<1>1. ASSUME NEW p \in Procs, pc[p] \notin {"new"} \union Finished, Rollback(p, pc[p])
      PROVE  HoldsLocks'
  BY <1>1, <1>s, <1>t DEF Rollback, ReleaseLocks, Goto, inputs
<1>2. ASSUME NEW r \in Requests, ReadSession(r) PROVE HoldsLocks'
  BY <1>2, <1>s, <1>t DEF ReadSession, Goto, inputs
<1>3. ASSUME NEW r \in Requests, LockSession(r) PROVE HoldsLocks'
  <2>1. PICK s \in Sessions :
          /\ lock[s] = NoProc
          /\ lock' = [lock EXCEPT ![s] = r]
          /\ Goto(r, "locking", IF Missing(r) = {s} THEN "locked" ELSE "locking")
          /\ UNCHANGED req
    BY <1>3 DEF LockSession, inputs
  <2>2. ASSUME NEW q \in Requests, q # r, pc'[q] \in Locked, NEW u \in LockIds(req[q].session)
        PROVE  lock'[u] = q
    <3>1. pc'[q] = pc[q]
      BY <2>1, <2>2, <1>t DEF Goto
    <3>2. lock[u] = q /\ u \in Sessions
      BY <3>1, <2>2, <1>0 DEF HoldsLocks
    <3>3. u # s
      BY <3>2, <2>1
    <3>4. QED  BY <2>1, <3>2, <3>3, <1>t
  <2>3. ASSUME pc'[r] \in Locked, NEW u \in LockIds(req[r].session)
        PROVE  lock'[u] = r
    <3>1. Missing(r) = {s}
      BY <2>1, <2>3, <1>t DEF Goto
    <3>2. u \in Sessions /\ LockIdsOf[req[r].session] = LockIds(req[r].session)
      BY <1>0 DEF LockIdsOf
    <3>3. u = s \/ lock[u] = r
      BY <3>1, <3>2 DEF Missing, Held
    <3>4. QED  BY <2>1, <3>2, <3>3, <1>t
  <2>4. QED  BY <2>1, <2>2, <2>3 DEF HoldsLocks
<1>4. ASSUME NEW r \in Requests,
             \/ Pass(r, "locked", "allowed") \/ Pass(r, "allowed", "clear")
             \/ SeatsPass(r) \/ ManualPass(r) \/ CountSeats(r)
      PROVE  HoldsLocks'
  BY <1>4, <1>s, <1>t DEF Pass, SeatsPass, ManualPass, CountSeats, Goto, inputs
<1>5. ASSUME NEW r \in Requests, CommitBooking(r) PROVE HoldsLocks'
  BY <1>5, <1>s, <1>t DEF CommitBooking, ReleaseLocks, Goto, inputs
<1>6. ASSUME NEW b \in Requests, Remark(b) PROVE HoldsLocks'
  BY <1>6, <1>s DEF Remark, SetStatus, inputs
<1>7. ASSUME NEW a \in Cancellers, ReadLiveSession(a) \/ ListBookings(a) \/ CommitCancel(a)
      PROVE  HoldsLocks'
  BY <1>7, <1>s, <1>t DEF ReadLiveSession, ListBookings, CommitCancel, ReleaseLocks, Goto, inputs
<1>8. ASSUME NEW a \in Cancellers, LockCancelledSession(a) PROVE HoldsLocks'
  <2>1. target[a] \in Sessions
    BY DEF TypeOK
  <2>2. QED  BY <1>8, <2>1, <1>s, <1>t DEF LockCancelledSession, Goto, inputs
<1>9. ASSUME NEW a \in Cancellers, NEW b \in Requests, MarkOne(a, b) PROVE HoldsLocks'
  BY <1>9, <1>s, <1>t DEF MarkOne, Goto, inputs
<1>10. CASE UNCHANGED vars
  BY <1>10, <1>s DEF vars
<1>11. QED
  BY <1>1, <1>2, <1>3, <1>4, <1>5, <1>6, <1>7, <1>8, <1>9, <1>10 DEF Step

-----------------------------------------------------------------------------
(* The checks *)

\* The counts a request has read are not below the counts of this moment.
CountsCover ==
  \A r \in Requests :
    pc[r] = "counted" => NoMore(SeatCounts(req, Booked, req[r].session), seen[r])

IInv == TypeOK /\ HoldsLocks /\ CountsCover /\ PassedChecksStayTrue

\* A booking in a session that a request did not lock is invisible to its
\* checks: it counts for none of the limits of the request's session.
LEMMA FarBooking ==
  ASSUME NEW rows \in [Requests -> RequestData], NEW B, B \subseteq Requests,
         NEW q \in Requests, NEW s \in Sessions, rows[q].session \notin LockIds(s)
  PROVE  /\ SeatCounts(rows, B \union {q}, s) = SeatCounts(rows, B, s)
         /\ StandBlocked(rows, B \union {q}, s) => StandBlocked(rows, B, s)
<1>0. rows[q].session \in Sessions
  BY RequestTypes
<1>1. /\ rows[q].session # s
      /\ Overlaps(rows[q].session, s) =>
           /\ RoomOf[rows[q].session] # RoomOf[s]
           /\ LabWorkOf[rows[q].session] # LabWorkOf[s]
           /\ ~SharesStand(s, rows[q].session)
  BY <1>0 DEF LockIds
<1>2. /\ SessionBooked(rows, B \union {q}, s) = SessionBooked(rows, B, s)
      /\ LabOther(rows, B \union {q}, s) = LabOther(rows, B, s)
      /\ RoomOther(rows, B \union {q}, s) = RoomOther(rows, B, s)
  BY <1>1 DEF SessionBooked, LabOther, RoomOther, Elsewhere
<1>3. StandBlocked(rows, B \union {q}, s) => StandBlocked(rows, B, s)
  BY <1>1 DEF StandBlocked
<1>4. QED  BY <1>2, <1>3 DEF SeatCounts

\* What a step does to the bookings: one more, by the commit of a request that
\* has passed its checks, or no more than before.
LEMMA BookedStep ==
  ASSUME TypeOK, Step
  PROVE  /\ UNCHANGED req
         /\ \/ Booked' \subseteq Booked
            \/ \E q \in Requests : CommitBooking(q) /\ Booked' = Booked \union {q}
<1>1. UNCHANGED req
  BY DEF Step, Rollback, ReadSession, LockSession, Pass, CountSeats, SeatsPass, ManualPass,
         CommitBooking, Remark, SetStatus, ReadLiveSession, LockCancelledSession, ListBookings,
         MarkOne, CommitCancel, inputs, vars
<1>2. ASSUME NEW q \in Requests, CommitBooking(q)
      PROVE  Booked' = Booked \union {q}
  BY <1>2 DEF CommitBooking, Booked, TypeOK
<1>3. ASSUME NEW b \in Requests, Remark(b)
      PROVE  Booked' \subseteq Booked
  BY <1>3 DEF Remark, SetStatus, Booked, TypeOK
<1>4. ASSUME NEW a \in Cancellers, CommitCancel(a)
      PROVE  Booked' \subseteq Booked
  BY <1>4 DEF CommitCancel, Booked
<1>5. ASSUME UNCHANGED status
      PROVE  Booked' \subseteq Booked
  BY <1>5 DEF Booked
<1>6. QED
  BY <1>1, <1>2, <1>3, <1>4, <1>5
     DEF Step, Rollback, ReadSession, LockSession, Pass, CountSeats, SeatsPass, ManualPass,
         ReadLiveSession, LockCancelledSession, ListBookings, MarkOne, vars

\* Whoever is counted or passed was so before the step, or just got there.
LEMMA CheckedStep ==
  ASSUME TypeOK, Step, NEW r \in Requests, pc'[r] \in {"counted", "passed"}
  PROVE  \/ pc'[r] = pc[r] /\ seen'[r] = seen[r]
         \/ CountSeats(r) \/ SeatsPass(r) \/ ManualPass(r)
<1>t. pc \in [Procs -> RequestStates \union CancellerStates] /\ Requests \subseteq Procs
      /\ Cancellers \subseteq Procs /\ Requests \intersect Cancellers = {}
      /\ seen \in [Requests -> [session : Nat, lab : Nat, room : Nat]]
  BY ProcAssumption DEF TypeOK, Procs
<1>1. ASSUME NEW p \in Procs, Rollback(p, pc[p])
      PROVE  pc'[r] = pc[r] /\ seen'[r] = seen[r]
  BY <1>1, <1>t DEF Rollback, Goto
<1>2. ASSUME NEW q \in Requests,
             \/ ReadSession(q) \/ LockSession(q) \/ CommitBooking(q) \/ Remark(q)
             \/ Pass(q, "locked", "allowed") \/ Pass(q, "allowed", "clear")
      PROVE  pc'[r] = pc[r] /\ seen'[r] = seen[r]
  BY <1>2, <1>t DEF ReadSession, LockSession, CommitBooking, Remark, SetStatus, Pass, Goto
<1>3. ASSUME NEW q \in Requests, q # r, CountSeats(q) \/ SeatsPass(q) \/ ManualPass(q)
      PROVE  pc'[r] = pc[r] /\ seen'[r] = seen[r]
  BY <1>3, <1>t DEF CountSeats, SeatsPass, ManualPass, Pass, Goto
<1>4. ASSUME NEW a \in Cancellers,
             \/ ReadLiveSession(a) \/ LockCancelledSession(a) \/ ListBookings(a) \/ CommitCancel(a)
             \/ \E b \in Requests : MarkOne(a, b)
      PROVE  pc'[r] = pc[r] /\ seen'[r] = seen[r]
  BY <1>4, <1>t
     DEF ReadLiveSession, LockCancelledSession, ListBookings, CommitCancel, MarkOne, Goto
<1>5. CASE UNCHANGED vars
  BY <1>5 DEF vars
<1>6. QED  BY <1>1, <1>2, <1>3, <1>4, <1>5 DEF Step

\* What a request has checked stays true while it holds its locks: a booking
\* committed by another request lies in a session of that request's own locks.
LEMMA ChecksStep ==
  ASSUME IInv, Step
  PROVE  CountsCover' /\ PassedChecksStayTrue'
<1>0. /\ req \in [Requests -> RequestData] /\ Booked \subseteq Requests /\ UNCHANGED req
      /\ seen \in [Requests -> [session : Nat, lab : Nat, room : Nat]]
  BY BookedStep DEF IInv, TypeOK, Booked
<1>b. Booked' \subseteq Requests
  BY DEF Booked
<1>1. ASSUME NEW r \in Requests, pc[r] \in {"counted", "passed"}, pc'[r] = pc[r],
             NEW q \in Requests, CommitBooking(q), Booked' = Booked \union {q}
      PROVE  req[q].session \notin LockIds(req[r].session)
  <2>1. pc[q] = "passed" /\ pc'[q] = "done"
    BY <1>1 DEF CommitBooking, Goto, IInv, TypeOK, Procs
  <2>2. q # r
    BY <2>1, <1>1
  <2>3. lock[req[q].session] = q
    BY <2>1 DEF IInv, HoldsLocks, Locked, LockIds
  <2>4. \A u \in LockIds(req[r].session) : lock[u] = r
    BY <1>1 DEF IInv, HoldsLocks, Locked
  <2>5. QED  BY <2>2, <2>3, <2>4
<1>2. ASSUME NEW r \in Requests, pc[r] = "counted", pc'[r] = "counted"
      PROVE  NoMore(SeatCounts(req, Booked', req[r].session), seen[r])
  <2>0. NoMore(SeatCounts(req, Booked, req[r].session), seen[r])
    BY <1>2 DEF IInv, CountsCover
  <2>1. CASE Booked' \subseteq Booked
    <3> DEFINE new == SeatCounts(req, Booked', req[r].session)
               old == SeatCounts(req, Booked, req[r].session)
               was == seen[r]
    <3>1. /\ old \in [session : Nat, lab : Nat, room : Nat]
          /\ new \in [session : Nat, lab : Nat, room : Nat]
          /\ was \in [session : Nat, lab : Nat, room : Nat]
          /\ NoMore(new, old) /\ NoMore(old, was)
      BY <1>0, <1>b, <2>0, <2>1, FewerCounted
    <3> HIDE DEF new, old, was
    <3>2. NoMore(new, was)
      BY <3>1 DEF NoMore
    <3>3. QED  BY <3>2 DEF new, was
  <2>2. ASSUME NEW q \in Requests, CommitBooking(q), Booked' = Booked \union {q}
        PROVE  NoMore(SeatCounts(req, Booked', req[r].session), seen[r])
    <3>1. SeatCounts(req, Booked \union {q}, req[r].session)
            = SeatCounts(req, Booked, req[r].session)
      BY <1>0, <1>1, <1>2, <2>2, FarBooking, RequestTypes
    <3>2. QED  BY <2>0, <2>2, <3>1
  <2>3. QED  BY <2>1, <2>2, BookedStep DEF IInv
<1>3. ASSUME NEW r \in Requests, pc[r] = "passed", pc'[r] = "passed"
      PROVE  MayTake(req, Booked', r)
  <2>0. MayTake(req, Booked, r)
    BY <1>3 DEF IInv, PassedChecksStayTrue
  <2>1. CASE Booked' \subseteq Booked
    BY <1>0, <2>0, <2>1, FewerKeepMayTake
  <2>2. ASSUME NEW q \in Requests, CommitBooking(q), Booked' = Booked \union {q}
        PROVE  MayTake(req, Booked', r)
    <3>1. /\ SeatCounts(req, Booked \union {q}, req[r].session)
               = SeatCounts(req, Booked, req[r].session)
          /\ StandBlocked(req, Booked \union {q}, req[r].session)
               => StandBlocked(req, Booked, req[r].session)
      BY <1>0, <1>1, <1>3, <2>2, FarBooking, RequestTypes
    <3>2. MayTake(req, Booked \union {q}, r)
      BY <2>0, <3>1 DEF MayTake
    <3>3. QED  BY <2>2, <3>2
  <2>3. QED  BY <2>1, <2>2, BookedStep DEF IInv
<1>4. ASSUME NEW r \in Requests, CountSeats(r)
      PROVE  /\ pc'[r] = "counted"
             /\ NoMore(SeatCounts(req, Booked', req[r].session), seen'[r])
  <2>1. pc'[r] = "counted" /\ seen'[r] = SeatCounts(req, Booked, req[r].session)
        /\ Booked' = Booked
    BY <1>4 DEF CountSeats, Goto, Booked, IInv, TypeOK, Procs
  <2>2. NoMore(SeatCounts(req, Booked, req[r].session), SeatCounts(req, Booked, req[r].session))
    BY <1>0, FewerCounted
  <2>3. QED  BY <2>1, <2>2
<1>5. ASSUME NEW r \in Requests, SeatsPass(r) \/ ManualPass(r)
      PROVE  pc'[r] = "passed" /\ MayTake(req, Booked', r)
  <2>1. pc'[r] = "passed" /\ Booked' = Booked
    BY <1>5 DEF SeatsPass, ManualPass, Pass, Goto, Booked, IInv, TypeOK, Procs
  <2>2. CASE SeatsPass(r)
    <3>1. HasSeat(req[r].session, seen[r]) /\ ~StandBlocked(req, Booked, req[r].session)
      BY <2>2 DEF SeatsPass
    <3>2. NoMore(SeatCounts(req, Booked, req[r].session), seen[r])
      BY <2>2 DEF SeatsPass, Pass, Goto, IInv, CountsCover
    <3>3. HasSeat(req[r].session, SeatCounts(req, Booked, req[r].session))
      BY <1>0, <3>1, <3>2, FewerLeaveSeat, FewerCounted, RequestTypes
    <3>4. QED  BY <2>1, <3>1, <3>3 DEF MayTake
  <2>3. CASE ManualPass(r)
    BY <2>1, <2>3 DEF ManualPass, MayTake
  <2>4. QED  BY <1>5, <2>2, <2>3, <2>1
<1>6. CountsCover'
  <2>1. ASSUME NEW r \in Requests, pc'[r] = "counted"
        PROVE  NoMore(SeatCounts(req, Booked', req[r].session), seen'[r])
    <3>1. CASE pc'[r] = pc[r] /\ seen'[r] = seen[r]
      BY <1>2, <2>1, <3>1
    <3>2. QED  BY <1>4, <1>5, <2>1, <3>1, CheckedStep DEF IInv
  <2>2. QED  BY <1>0, <2>1 DEF CountsCover
<1>7. PassedChecksStayTrue'
  <2>1. ASSUME NEW r \in Requests, pc'[r] = "passed"
        PROVE  MayTake(req, Booked', r)
    <3>1. CASE pc'[r] = pc[r]
      BY <1>3, <2>1, <3>1
    <3>2. QED  BY <1>4, <1>5, <2>1, <3>1, CheckedStep DEF IInv
  <2>2. QED  BY <1>0, <2>1 DEF PassedChecksStayTrue
<1>8. QED  BY <1>6, <1>7

\* The strengthened invariant holds in every reachable state.
THEOREM InductiveInvariant == Spec => []IInv
<1>1. Init => IInv
  <2> SUFFICES ASSUME Init PROVE IInv
    OBVIOUS
  <2>1. \A r \in Requests : pc[r] = "new"
    BY DEF Init, Procs
  <2>2. TypeOK
    BY ProcAssumption
       DEF Init, TypeOK, Procs, RequestStates, CancellerStates, Finished, Statuses
  <2>3. QED
    BY <2>1, <2>2 DEF IInv, HoldsLocks, Locked, CountsCover, PassedChecksStayTrue
<1>2. IInv /\ [Next]_vars => IInv'
  BY StepKinds, TypeStep, LocksStep, ChecksStep DEF IInv
<1>3. QED  BY <1>1, <1>2, PTL DEF Spec

\* What a request has checked holds until it commits.
THEOREM PassedChecksHold == Spec => []PassedChecksStayTrue
<1>1. IInv => PassedChecksStayTrue
  BY DEF IInv
<1>2. QED  BY <1>1, InductiveInvariant, PTL

-----------------------------------------------------------------------------
(* Refinement *)

\* The transactions implement SeatAllocation: a commit is Take, a change of
\* status that frees seats is Vacate, and every other step is invisible.
THEOREM BooksLikeSeats == Spec => BooksLikeSeatAllocation
<1>1. Init => Seats!Init
  BY DEF Init, Seats!Init, Booked
<1>2. IInv /\ [Next]_vars => [Seats!Next]_Seats!seatVars
  <2> SUFFICES ASSUME IInv, Step PROVE [Seats!Next]_Seats!seatVars
    BY StepKinds DEF IInv
  <2>1. UNCHANGED req
    BY BookedStep DEF IInv
  <2>2. CASE Booked' \subseteq Booked
    <3>1. Booked' = Booked \ (Booked \ Booked')
      BY <2>2
    <3>2. Seats!Vacate(Booked \ Booked')
      BY <2>1, <3>1 DEF Seats!Vacate
    <3>3. QED  BY <3>2 DEF Seats!Next
  <2>3. ASSUME NEW q \in Requests, CommitBooking(q), Booked' = Booked \union {q}
        PROVE  Seats!Take(q)
    <3>1. pc[q] = "passed" /\ q \notin Booked
      BY <2>3 DEF CommitBooking, Goto, IInv, TypeOK, Booked
    <3>2. MayTake(req, Booked, q)
      BY <3>1 DEF IInv, PassedChecksStayTrue
    <3> DEFINE s == req[q].session
    <3>a. StandBlocked(req, Booked, s) <=> Seats!StandBlocked(req, Booked, s)
      BY DEF StandBlocked, SharesStand, StandOf, Overlaps,
             Seats!StandBlocked, Seats!SharesStand, Seats!StandOf, Seats!Overlaps
    <3>b. SessionBooked(req, Booked, s) = Seats!SessionBooked(req, Booked, s)
      BY DEF SessionBooked, Seats!SessionBooked
    <3>c. Elsewhere(req, Booked, s) = Seats!Elsewhere(req, Booked, s)
      BY DEF Elsewhere, Overlaps, Seats!Elsewhere, Seats!Overlaps
    <3>d. LabOther(req, Booked, s) = Seats!LabOther(req, Booked, s)
      BY <3>c DEF LabOther, Seats!LabOther
    <3>e. RoomOther(req, Booked, s) = Seats!RoomOther(req, Booked, s)
      BY <3>c DEF RoomOther, Seats!RoomOther
    <3>3. SeatCounts(req, Booked, s) = Seats!SeatCounts(req, Booked, s)
      BY <3>b, <3>d, <3>e DEF SeatCounts, Seats!SeatCounts, Cardinality, Seats!Cardinality
    <3> DEFINE n == SeatCounts(req, Booked, s)
    <3>f. HasSeat(s, n) <=> Seats!HasSeat(s, n)
      BY DEF HasSeat, Seats!HasSeat
    <3> HIDE DEF n
    <3>4. Seats!MayTake(req, Booked, q)
      BY <3>2, <3>a, <3>3, <3>f DEF n, MayTake, Seats!MayTake
    <3>5. QED  BY <2>1, <2>3, <3>1, <3>4 DEF Seats!Take
  <2>4. QED  BY <2>2, <2>3, BookedStep DEF IInv, Seats!Next
<1>3. QED
  BY <1>1, <1>2, InductiveInvariant, PTL DEF Spec, BooksLikeSeatAllocation, Seats!Spec

-----------------------------------------------------------------------------
(* The limits *)

Limits ==
  /\ SlotNeverOverbooked
  /\ LabWorkNeverOverbooked
  /\ SharedRoomNeverOverbooked
  /\ StandNeverShared

\* A committed booking was allowed by every limit at its commit, and fewer
\* bookings keep within them.
LEMMA LimitsStep == ASSUME IInv, Limits, Step PROVE Limits'
<1>0. /\ req \in [Requests -> RequestData] /\ Booked \subseteq Requests /\ UNCHANGED req
      /\ WithinSlots(req, Booked) /\ WithinLabWorks(req, Booked)
      /\ WithinSharedRooms(req, Booked) /\ OneLabWorkPerStand(req, Booked)
  BY BookedStep DEF IInv, TypeOK, Booked, Limits, SlotNeverOverbooked, LabWorkNeverOverbooked,
     SharedRoomNeverOverbooked, StandNeverShared
<1>1. /\ WithinSlots(req, Booked') /\ WithinLabWorks(req, Booked')
      /\ WithinSharedRooms(req, Booked') /\ OneLabWorkPerStand(req, Booked')
  <2>1. CASE Booked' \subseteq Booked
    BY <1>0, <2>1, FewerKeepLimits
  <2>2. ASSUME NEW q \in Requests, CommitBooking(q), Booked' = Booked \union {q}
        PROVE  /\ WithinSlots(req, Booked') /\ WithinLabWorks(req, Booked')
               /\ WithinSharedRooms(req, Booked') /\ OneLabWorkPerStand(req, Booked')
    <3>1. MayTake(req, Booked, q)
      BY <2>2 DEF CommitBooking, Goto, IInv, PassedChecksStayTrue
    <3>2. /\ WithinSlots(req, Booked \union {q}) /\ WithinLabWorks(req, Booked \union {q})
          /\ WithinSharedRooms(req, Booked \union {q}) /\ OneLabWorkPerStand(req, Booked \union {q})
      BY <1>0, <3>1, TakeKeepsSlots, TakeKeepsLabWorks, TakeKeepsSharedRooms, TakeKeepsStands
    <3>3. QED  BY <2>2, <3>2
  <2>3. QED  BY <2>1, <2>2, BookedStep DEF IInv
<1>2. QED
  BY <1>0, <1>1 DEF Limits, SlotNeverOverbooked, LabWorkNeverOverbooked,
     SharedRoomNeverOverbooked, StandNeverShared

\* No seat limit is exceeded and no stand is shared, whatever transactions run
\* at the same time.
THEOREM LimitsHold ==
  Spec => [](/\ SlotNeverOverbooked /\ LabWorkNeverOverbooked
             /\ SharedRoomNeverOverbooked /\ StandNeverShared)
<1>1. Init => Limits
  <2> SUFFICES ASSUME Init PROVE Limits
    OBVIOUS
  <2>0. Booked = {}
    BY DEF Init, Booked
  <2>1. /\ \A s \in Sessions : SessionBooked(req, SelfBooked(req, {}), s) = {}
        /\ \A w, t : DoingAt(req, {}, w, t) = {}
        /\ \A m, t : InRoomAt(req, {}, m, t) = {}
    BY DEF SessionBooked, SelfBooked, DoingAt, InRoomAt
  <2>2. Cardinality({}) = 0
    BY FS_EmptySet
  <2>3. WithinSlots(req, {}) /\ WithinLabWorks(req, {})
    BY <2>1, <2>2, TimetableAssumption DEF WithinSlots, WithinLabWorks
  <2>4. WithinSharedRooms(req, {}) /\ OneLabWorkPerStand(req, {})
    BY <2>1 DEF WithinSharedRooms, OneLabWorkPerStand
  <2>5. QED
    BY <2>0, <2>3, <2>4 DEF Limits, SlotNeverOverbooked, LabWorkNeverOverbooked,
       SharedRoomNeverOverbooked, StandNeverShared
<1>2. IInv /\ Limits /\ [Next]_vars => Limits'
  BY StepKinds, LimitsStep DEF IInv
<1>3. Spec => []Limits
  BY <1>1, <1>2, InductiveInvariant, PTL DEF Spec
<1>4. QED  BY <1>3, PTL DEF Limits

\* One limit at a time: the lab work over its overlapping sessions, ...
THEOREM LabWorksHold == Spec => []LabWorkNeverOverbooked
<1>1. QED  BY LimitsHold, PTL

\* ... the sessions that share a room, ...
THEOREM SharedRoomsHold == Spec => []SharedRoomNeverOverbooked
<1>1. QED  BY LimitsHold, PTL

\* ... and the stand of two lab works, manual bookings included.
THEOREM StandsHold == Spec => []StandNeverShared
<1>1. QED  BY LimitsHold, PTL

-----------------------------------------------------------------------------
(* Slot cancellation *)

\* A cancellation that has updated its session holds the session's lock, and
\* once it has listed the bookings it knows every BOOKED one.
CancelCover ==
  \A a \in Cancellers :
    /\ pc[a] \in {"updated", "listed"} => lock[target[a]] = a
    /\ pc[a] = "listed" =>
         \A b \in Requests : status[b] = "BOOKED" /\ req[b].session = target[a]
                               => b \in todo[a] \/ rowLock[b] = a

\* While a cancellation holds the session's lock no request commits into it.
LEMMA CancelStep == ASSUME IInv, CancelCover, Step PROVE CancelCover'
<1>t. /\ pc \in [Procs -> RequestStates \union CancellerStates]
      /\ Requests \subseteq Procs /\ Cancellers \subseteq Procs
      /\ Requests \intersect Cancellers = {} /\ NoProc \notin Procs
      /\ lock \in [Sessions -> Procs \union {NoProc}]
      /\ rowLock \in [Requests -> Cancellers \union {NoProc}]
      /\ status \in [Requests -> Statuses]
      /\ todo \in [Cancellers -> SUBSET Requests]
      /\ \A a \in Cancellers : target[a] \in Sessions
  BY ProcAssumption DEF IInv, TypeOK, Procs
<1>u. UNCHANGED <<req, target>>
  BY DEF Step, Rollback, ReadSession, LockSession, Pass, CountSeats, SeatsPass, ManualPass,
         CommitBooking, Remark, SetStatus, ReadLiveSession, LockCancelledSession, ListBookings,
         MarkOne, CommitCancel, inputs, vars
\* A step that changes nothing a started cancellation relies on.
<1>s. ASSUME \A a \in Cancellers :
               pc'[a] \in {"updated", "listed"} => pc'[a] = pc[a] /\ todo'[a] = todo[a],
             \A a \in Cancellers, s \in Sessions :
               pc'[a] \in {"updated", "listed"} /\ lock[s] = a => lock'[s] = a,
             \A b \in Requests, a \in Cancellers :
               pc'[a] = "listed" /\ rowLock[b] = a => rowLock'[b] = a,
             \A b \in Requests : status'[b] = "BOOKED" => status[b] = "BOOKED"
      PROVE  CancelCover'
  BY <1>s, <1>t, <1>u DEF CancelCover
<1>1. ASSUME NEW p \in Procs, Rollback(p, pc[p])
      PROVE  CancelCover'
  BY <1>1, <1>s, <1>t DEF Rollback, ReleaseLocks, Goto
<1>2. ASSUME NEW r \in Requests,
             \/ ReadSession(r) \/ LockSession(r) \/ CountSeats(r) \/ SeatsPass(r) \/ ManualPass(r)
             \/ Pass(r, "locked", "allowed") \/ Pass(r, "allowed", "clear")
      PROVE  CancelCover'
  <2>1. UNCHANGED <<status, rowLock, todo>>
    BY <1>2 DEF ReadSession, LockSession, CountSeats, SeatsPass, ManualPass, Pass
  <2>2. \A a \in Cancellers : pc'[a] = pc[a]
    BY <1>2, <1>t DEF ReadSession, LockSession, CountSeats, SeatsPass, ManualPass, Pass, Goto
  <2>3. \A a \in Cancellers, s \in Sessions : lock[s] = a => lock'[s] = a
    BY <1>2, <1>t DEF ReadSession, LockSession, CountSeats, SeatsPass, ManualPass, Pass
  <2>4. QED  BY <1>s, <2>1, <2>2, <2>3
<1>3. ASSUME NEW q \in Requests, CommitBooking(q) PROVE CancelCover'
  <2>1. lock[req[q].session] = q
    BY <1>3 DEF CommitBooking, Goto, IInv, HoldsLocks, Locked, LockIds
  <2>2. /\ status' = [status EXCEPT ![q] = "BOOKED"]
        /\ \A a \in Cancellers : pc'[a] = pc[a] /\ todo'[a] = todo[a] /\ a # q
        /\ \A s \in Sessions, a \in Cancellers : lock[s] = a => lock'[s] = a
        /\ \A b \in Requests, a \in Cancellers : rowLock[b] = a => rowLock'[b] = a
    BY <1>3, <1>t DEF CommitBooking, ReleaseLocks, Goto
  <2>3. \A a \in Cancellers : pc[a] = "listed" => req[q].session # target[a]
    BY <2>1, <2>2 DEF CancelCover
  <2>4. QED  BY <2>2, <2>3, <1>t, <1>u DEF CancelCover
<1>4. ASSUME NEW b \in Requests, Remark(b) PROVE CancelCover'
  BY <1>4, <1>s, <1>t DEF Remark, SetStatus
<1>5. ASSUME NEW a \in Cancellers, ReadLiveSession(a) PROVE CancelCover'
  BY <1>5, <1>s, <1>t DEF ReadLiveSession, Goto
<1>6. ASSUME NEW a \in Cancellers, LockCancelledSession(a) PROVE CancelCover'
  BY <1>6, <1>t, <1>u DEF LockCancelledSession, Goto, CancelCover
<1>7. ASSUME NEW a \in Cancellers, ListBookings(a) PROVE CancelCover'
  <2>1. \A b \in Requests : status[b] = "BOOKED" /\ req[b].session = target[a] => b \in todo'[a]
    BY <1>7, <1>t DEF ListBookings, SessionBooked, Booked
  <2>2. QED  BY <1>7, <2>1, <1>t, <1>u DEF ListBookings, Goto, CancelCover
<1>8. ASSUME NEW a \in Cancellers, NEW b \in Requests, MarkOne(a, b) PROVE CancelCover'
  <2>1. ASSUME NEW c \in Cancellers PROVE pc'[c] = pc[c]
    BY <1>8, <1>t DEF MarkOne, Goto
  <2>2. ASSUME NEW c \in Cancellers, NEW d \in Requests, d \in todo[c] \/ rowLock[d] = c
        PROVE  d \in todo'[c] \/ rowLock'[d] = c
    BY <1>8, <2>2, <1>t DEF MarkOne
  <2>3. UNCHANGED <<lock, status>>
    BY <1>8 DEF MarkOne
  <2>4. QED  BY <2>1, <2>2, <2>3, <1>u DEF CancelCover
<1>9. ASSUME NEW a \in Cancellers, CommitCancel(a) PROVE CancelCover'
  BY <1>9, <1>s, <1>t DEF CommitCancel, ReleaseLocks, Goto
<1>10. CASE UNCHANGED vars
  BY <1>10, <1>s DEF vars
<1>11. QED  BY <1>1, <1>2, <1>3, <1>4, <1>5, <1>6, <1>7, <1>8, <1>9, <1>10 DEF Step

\* Cancelling a session takes every BOOKED booking of it along.
THEOREM CancelTakesAll == Spec => CancelTakesEveryBooking
<1> DEFINE Taken ==
      \A s \in Sessions :
        sessionStatus[s] = "OPEN" /\ sessionStatus'[s] = "CANCELLED" =>
          \A b \in Requests : req[b].session = s => status'[b] # "BOOKED"
<1>1. Init => CancelCover
  BY ProcAssumption DEF Init, CancelCover, Procs
<1>2. IInv /\ CancelCover /\ [Next]_vars => CancelCover'
  BY StepKinds, CancelStep DEF IInv
<1>3. IInv /\ CancelCover /\ [Next]_vars => [Taken]_vars
  <2> SUFFICES ASSUME IInv, CancelCover, Step,
                      NEW s \in Sessions, sessionStatus[s] = "OPEN", sessionStatus'[s] = "CANCELLED",
                      NEW b \in Requests, req[b].session = s, status'[b] = "BOOKED"
               PROVE  FALSE
    BY StepKinds DEF IInv
  <2>1. PICK a \in Cancellers : CommitCancel(a)
    BY DEF Step, Rollback, ReadSession, LockSession, Pass, CountSeats, SeatsPass, ManualPass,
         CommitBooking, Remark, SetStatus, ReadLiveSession, LockCancelledSession, ListBookings,
         MarkOne, vars
  <2>2. s = target[a]
    BY <2>1 DEF CommitCancel, IInv, TypeOK
  <2>3. status[b] = "BOOKED" /\ rowLock[b] # a
    BY <2>1 DEF CommitCancel
  <2>4. b \in todo[a]
    BY <2>1, <2>2, <2>3 DEF CommitCancel, Goto, CancelCover
  <2>5. QED  BY <2>1, <2>4 DEF CommitCancel
<1>4. QED
  BY <1>1, <1>2, <1>3, InductiveInvariant, PTL DEF Spec, CancelTakesEveryBooking
-----------------------------------------------------------------------------
(* The order of locks *)

\* A request takes session locks upwards; who has not started holds none; a row lock
\* belongs to a cancellation that works through the bookings of its own session.
LockOrder ==
  /\ \A r \in Requests : pc[r] = "locking" => \A h \in Held(r), m \in Missing(r) : h < m
  /\ \A p \in Procs : pc[p] \in {"new", "loaded"} => Held(p) = {}
  /\ \A b \in Requests, a \in Cancellers :
       rowLock[b] = a => pc[a] = "listed" /\ req[b].session = target[a]
  /\ \A a \in Cancellers : pc[a] = "listed" => \A b \in todo[a] : req[b].session = target[a]

\* A request locks the least row that it misses; the others keep what they hold.
LEMMA OrderStep == ASSUME TypeOK, LockOrder, Step PROVE LockOrder'
<1>t. /\ pc \in [Procs -> RequestStates \union CancellerStates]
      /\ Requests \subseteq Procs /\ Cancellers \subseteq Procs
      /\ Procs = Requests \union Cancellers
      /\ Requests \intersect Cancellers = {} /\ NoProc \notin Procs
      /\ lock \in [Sessions -> Procs \union {NoProc}]
      /\ rowLock \in [Requests -> Cancellers \union {NoProc}]
      /\ todo \in [Cancellers -> SUBSET Requests]
      /\ \A a \in Cancellers : target[a] \in Sessions
  BY ProcAssumption DEF TypeOK, Procs
<1>u. UNCHANGED <<req, target>>
  BY DEF Step, Rollback, ReadSession, LockSession, Pass, CountSeats, SeatsPass, ManualPass,
         CommitBooking, Remark, SetStatus, ReadLiveSession, LockCancelledSession, ListBookings,
         MarkOne, CommitCancel, inputs, vars
\* A step after which waiting processes hold what they held
<1>s. ASSUME \A p \in Procs : pc'[p] \in {"new", "loaded", "locking"} =>
               /\ pc[p] \in {"new", pc'[p]}
               /\ \A s \in Sessions : lock'[s] = p <=> lock[s] = p,
             \A b \in Requests, a \in Cancellers :
               rowLock'[b] = a => rowLock[b] = a /\ (pc[a] = "listed" => pc'[a] = "listed"),
             \A a \in Cancellers :
               pc'[a] = "listed" => pc[a] = "listed" /\ todo'[a] \subseteq todo[a]
      PROVE  LockOrder'
  <2>1. ASSUME NEW p \in Procs, pc'[p] \in {"new", "loaded", "locking"} PROVE Held(p)' = Held(p)
    BY <1>s, <2>1 DEF Held
  <2>2. ASSUME NEW r \in Requests, pc'[r] = "locking", NEW h \in Held(r)', NEW m \in Missing(r)'
        PROVE  h < m
    <3>1. r \in Procs /\ pc[r] \in {"new", "locking"}
      BY <1>s, <1>t, <2>2
    <3>2. h \in Held(r) /\ m \in Missing(r)
      BY <1>u, <2>1, <2>2, <3>1 DEF Missing
    <3>3. QED  BY <3>1, <3>2 DEF LockOrder
  <2>3. ASSUME NEW p \in Procs, pc'[p] \in {"new", "loaded"} PROVE Held(p)' = {}
    BY <1>s, <2>1, <2>3 DEF LockOrder
  <2>4. ASSUME NEW b \in Requests, NEW a \in Cancellers, rowLock'[b] = a
        PROVE  pc'[a] = "listed" /\ req'[b].session = target'[a]
    BY <1>s, <1>u, <2>4 DEF LockOrder
  <2>5. ASSUME NEW a \in Cancellers, pc'[a] = "listed", NEW b \in todo'[a]
        PROVE  req'[b].session = target'[a]
    BY <1>s, <1>u, <2>5 DEF LockOrder
  <2>6. QED  BY <2>2, <2>3, <2>4, <2>5 DEF LockOrder
<1>1. ASSUME NEW p \in Procs, pc[p] \notin {"new"} \union Finished, Rollback(p, pc[p])
      PROVE  LockOrder'
  BY <1>1, <1>s, <1>t DEF Rollback, ReleaseLocks, Goto
<1>2. ASSUME NEW r \in Requests,
             \/ ReadSession(r) \/ CountSeats(r) \/ SeatsPass(r) \/ ManualPass(r)
             \/ Pass(r, "locked", "allowed") \/ Pass(r, "allowed", "clear")
      PROVE  LockOrder'
  BY <1>2, <1>s, <1>t DEF ReadSession, CountSeats, SeatsPass, ManualPass, Pass, Goto
<1>3. ASSUME NEW r \in Requests, LockSession(r) PROVE LockOrder'
  <2>1. PICK s \in Sessions :
          /\ NextToLock(r, s)
          /\ lock[s] = NoProc
          /\ lock' = [lock EXCEPT ![s] = r]
          /\ Goto(r, "locking", IF Missing(r) = {s} THEN "locked" ELSE "locking")
          /\ UNCHANGED <<rowLock, todo>>
    BY <1>3 DEF LockSession
  <2>2. ASSUME NEW p \in Procs \ {r} PROVE pc'[p] = pc[p] /\ Held(p)' = Held(p)
    BY <2>1, <1>t DEF Goto, Held
  <2>3. Held(r)' = Held(r) \union {s}
    BY <2>1, <1>t DEF Held
  <2>4. pc[r] = "locking" /\ pc'[r] \in {"locking", "locked"}
    BY <2>1, <1>t DEF Goto
  <2>5. ASSUME NEW q \in Requests, pc'[q] = "locking", NEW h \in Held(q)', NEW m \in Missing(q)'
        PROVE  h < m
    <3>1. CASE q # r
      <4>1. pc[q] = "locking" /\ h \in Held(q) /\ m \in Missing(q)
        BY <1>t, <1>u, <2>2, <2>5, <3>1 DEF Missing
      <4>2. QED  BY <4>1 DEF LockOrder
    <3>2. CASE q = r
      <4>1. m \in Missing(r) \ {s}
        BY <1>u, <2>3, <2>5, <3>2 DEF Missing
      <4>2. m \in Sessions
        <5>1. req[r].session \in Sessions
          BY RequestTypes DEF TypeOK
        <5>2. QED  BY <4>1, <5>1 DEF Missing, LockIdsOf, LockIds
      <4>3. CASE h = s
        BY <2>1, <4>1, <4>2, <4>3, TimetableAssumption DEF NextToLock
      <4>4. CASE h \in Held(r)
        BY <2>4, <4>1, <4>4 DEF LockOrder
      <4>5. QED  BY <2>3, <2>5, <3>2, <4>3, <4>4
    <3>3. QED  BY <3>1, <3>2
  <2>6. ASSUME NEW p \in Procs, pc'[p] \in {"new", "loaded"} PROVE Held(p)' = {}
    BY <2>2, <2>4, <2>6 DEF LockOrder
  <2>7. ASSUME NEW a \in Cancellers PROVE pc'[a] = pc[a]
    BY <2>2, <1>t
  <2>8. QED  BY <1>u, <2>1, <2>5, <2>6, <2>7 DEF LockOrder
<1>4. ASSUME NEW q \in Requests, CommitBooking(q) PROVE LockOrder'
  BY <1>4, <1>s, <1>t DEF CommitBooking, ReleaseLocks, Goto
<1>5. ASSUME NEW b \in Requests, Remark(b) PROVE LockOrder'
  BY <1>5, <1>s DEF Remark, SetStatus
<1>6. ASSUME NEW a \in Cancellers, ReadLiveSession(a) PROVE LockOrder'
  BY <1>6, <1>s, <1>t DEF ReadLiveSession, Goto
<1>7. ASSUME NEW a \in Cancellers, LockCancelledSession(a) PROVE LockOrder'
  <2>1. \A b \in Requests : rowLock[b] # a
    BY <1>7, <1>t DEF LockCancelledSession, Goto, LockOrder
  <2>2. QED  BY <1>7, <2>1, <1>s, <1>t DEF LockCancelledSession, Goto
<1>8. ASSUME NEW a \in Cancellers, ListBookings(a) PROVE LockOrder'
  <2>1. /\ pc[a] = "updated" /\ pc' = [pc EXCEPT ![a] = "listed"]
        /\ todo' = [todo EXCEPT ![a] = SessionBooked(req, Booked, target[a])]
        /\ UNCHANGED <<lock, rowLock>>
    BY <1>8 DEF ListBookings, Goto
  <2>2. \A b \in todo'[a] : req[b].session = target[a]
    BY <2>1, <1>t DEF SessionBooked
  <2>3. \A p \in Procs \ {a} : pc'[p] = pc[p]
    BY <2>1, <1>t
  <2>4. \A p \in Procs : Held(p)' = Held(p)
    BY <2>1 DEF Held
  <2>5. \A c \in Cancellers \ {a} : todo'[c] = todo[c]
    BY <2>1, <1>t
  <2>6. ASSUME NEW r \in Requests, pc'[r] = "locking", NEW h \in Held(r)', NEW m \in Missing(r)'
        PROVE  h < m
    <3>1. pc[r] = "locking" /\ h \in Held(r) /\ m \in Missing(r)
      BY <1>t, <1>u, <2>3, <2>4, <2>6 DEF Missing
    <3>2. QED  BY <3>1 DEF LockOrder
  <2>7. ASSUME NEW p \in Procs, pc'[p] \in {"new", "loaded"} PROVE Held(p)' = {}
    <3>1. p # a
      BY <1>t, <2>1, <2>7
    <3>2. QED  BY <2>3, <2>4, <2>7, <3>1 DEF LockOrder
  <2>8. ASSUME NEW b \in Requests, NEW c \in Cancellers, rowLock[b] = c
        PROVE  pc'[c] = "listed" /\ req[b].session = target[c]
    BY <1>t, <2>1, <2>3, <2>8 DEF LockOrder
  <2>9. ASSUME NEW c \in Cancellers, pc'[c] = "listed", NEW b \in todo'[c]
        PROVE  req[b].session = target[c]
    BY <1>t, <2>2, <2>3, <2>5, <2>9 DEF LockOrder
  <2>10. QED  BY <1>u, <2>1, <2>6, <2>7, <2>8, <2>9 DEF LockOrder
<1>9. ASSUME NEW a \in Cancellers, NEW b \in Requests, MarkOne(a, b) PROVE LockOrder'
  <2>1. /\ pc[a] = "listed" /\ pc' = pc /\ lock' = lock /\ b \in todo[a]
        /\ rowLock' = [rowLock EXCEPT ![b] = a]
        /\ \A c \in Cancellers : todo'[c] \subseteq todo[c]
    BY <1>9, <1>t DEF MarkOne, Goto
  <2>2. req[b].session = target[a]
    BY <2>1 DEF LockOrder
  <2>3. ASSUME NEW d \in Requests, NEW c \in Cancellers, rowLock'[d] = c
        PROVE  pc[c] = "listed" /\ req[d].session = target[c]
    BY <1>t, <2>1, <2>2, <2>3 DEF LockOrder
  <2>4. \A c \in Cancellers : pc[c] = "listed" => \A d \in todo'[c] : req[d].session = target[c]
    BY <2>1 DEF LockOrder
  <2>5. \A p \in Procs : Held(p)' = Held(p)
    BY <2>1 DEF Held
  <2>6. \A r \in Requests : Missing(r)' = Missing(r)
    BY <1>t, <1>u, <2>5 DEF Missing
  <2>7. QED  BY <1>t, <1>u, <2>1, <2>3, <2>4, <2>5, <2>6 DEF LockOrder
<1>10. ASSUME NEW a \in Cancellers, CommitCancel(a) PROVE LockOrder'
  BY <1>10, <1>s, <1>t DEF CommitCancel, ReleaseLocks, Goto
<1>11. CASE UNCHANGED vars
  BY <1>11, <1>s DEF vars
<1>12. QED
  BY <1>1, <1>2, <1>3, <1>4, <1>5, <1>6, <1>7, <1>8, <1>9, <1>10, <1>11 DEF Step

\* Some number of a finite set is the greatest.
LEMMA Greatest ==
  ASSUME NEW S, S \subseteq Int, IsFiniteSet(S), NEW T, T \subseteq S, T # {}
  PROVE  \E m \in T : \A t \in T : t <= m
<1> DEFINE Above(s) == {u \in S : u > s}
           Tops == {Above(s) : s \in T}
<1>1. IsWellFoundedOn(StrictSubsetOrdering(S), SUBSET S)
  BY FS_StrictSubsetOrderingWellFounded, FS_FiniteSubsetsOfFinite
<1>2. Tops \subseteq SUBSET S /\ Tops # {} /\ T \subseteq Int
  OBVIOUS
<1>3. PICK x \in Tops : \A y \in Tops : <<y, x>> \notin StrictSubsetOrdering(S)
  <2> HIDE DEF Tops
  <2>1. QED  BY <1>1, <1>2, WFMin
<1>4. PICK m \in T : x = Above(m)
  BY <1>3
<1>5. ASSUME NEW t \in T, ~(t <= m) PROVE FALSE
  <2>1. t \in Int /\ m \in Int /\ t \in S /\ t > m
    <3>1. t \in Int /\ m \in Int /\ t \in S
      BY <1>2
    <3>2. QED  BY <1>5, <3>1
  <2>2. ASSUME NEW u \in Above(t) PROVE u \in Above(m)
    <3>1. u \in S /\ u \in Int /\ u > t
      OBVIOUS
    <3>2. u > m
      BY <2>1, <3>1
    <3>3. QED  BY <3>1, <3>2
  <2>3. t \in Above(m) /\ t \notin Above(t)
    BY <2>1
  <2>4. <<Above(t), Above(m)>> \in StrictSubsetOrdering(S)
    BY <2>2, <2>3 DEF StrictSubsetOrdering
  <2>5. QED  BY <1>3, <1>4, <2>4
<1>6. QED  BY <1>5

\* Somebody in every set of transactions waits for nobody in it: a cancellation that has
\* its session waits for no other, one that has not holds nothing, and of the requests the
\* one that wants the greatest row waits for a holder that wants a greater one or none.
LEMMA NobodyStuck ==
  ASSUME TypeOK, CancelCover, LockOrder, NEW P \in (SUBSET Procs) \ {{}}
  PROVE  \E p \in P : \A q \in P : ~WaitsFor(p, q)
<1> SUFFICES ASSUME \A p \in P : \E q \in P : WaitsFor(p, q) PROVE FALSE
  OBVIOUS
<1>t. /\ Procs = Requests \union Cancellers
      /\ Requests \intersect Cancellers = {} /\ NoProc \notin Procs
      /\ rowLock \in [Requests -> Cancellers \union {NoProc}]
      /\ todo \in [Cancellers -> SUBSET Requests]
      /\ \A a \in Cancellers : target[a] \in Sessions
  BY ProcAssumption DEF TypeOK, Procs
<1>1. ASSUME NEW a \in Cancellers, pc[a] = "listed", NEW q \in P PROVE ~WaitsFor(a, q)
  <2>1. SUFFICES ASSUME NEW b \in todo[a], rowLock[b] = q, q # a PROVE FALSE
    BY <1>1, <1>t DEF WaitsFor
  <2>2. b \in Requests /\ q \in Cancellers
    BY <1>t, <2>1
  <2>3. pc[q] = "listed" /\ target[q] = target[a]
    BY <1>1, <2>1, <2>2 DEF LockOrder
  <2>4. lock[target[a]] = a /\ lock[target[q]] = q
    BY <1>1, <2>2, <2>3 DEF CancelCover
  <2>5. QED  BY <2>1, <2>3, <2>4
<1>2. \A p \in P : \/ p \in Requests /\ pc[p] = "locking"
                   \/ p \in Cancellers /\ pc[p] = "loaded"
  BY <1>1, <1>t DEF WaitsFor
<1>3. ASSUME NEW p \in P PROVE \E s \in Sessions : lock[s] \in P
  BY <1>2, <1>t DEF WaitsFor
<1> DEFINE Wanted == {s \in Sessions : \E r \in P : r \in Requests /\ NextToLock(r, s)}
<1>4. ASSUME NEW s \in Sessions, NEW q \in P, lock[s] = q
      PROVE  \E u \in Wanted : s < u
  <2>1. q \in Requests /\ pc[q] = "locking"
    BY <1>2, <1>4, <1>t DEF LockOrder, Held
  <2>2. PICK u \in Sessions : NextToLock(q, u)
    BY <1>2, <2>1, <1>t DEF WaitsFor
  <2>3. s < u
    BY <1>4, <2>1, <2>2 DEF LockOrder, Held, NextToLock
  <2>4. QED  BY <2>1, <2>2, <2>3
<1>5. Wanted # {}
  BY <1>3, <1>4
<1>6. PICK m \in Wanted : \A u \in Wanted : u <= m
  <2>1. Wanted \subseteq Sessions
    OBVIOUS
  <2> HIDE DEF Wanted
  <2>2. QED  BY <1>5, <2>1, TimetableAssumption, Greatest
<1>7. PICK r \in P : r \in Requests /\ NextToLock(r, m)
  OBVIOUS
<1>8. PICK q \in P, s \in Sessions : NextToLock(r, s) /\ lock[s] = q
  BY <1>2, <1>7, <1>t DEF WaitsFor
<1>9. s = m
  <2>1. s \in Int /\ m \in Int
    BY TimetableAssumption
  <2>2. s <= m /\ m <= s
    BY <1>7, <1>8 DEF NextToLock
  <2>3. QED  BY <2>1, <2>2
<1>10. PICK u \in Wanted : m < u
  BY <1>4, <1>8, <1>9
<1>11. u \in Int /\ m \in Int
  BY TimetableAssumption
<1>12. QED  BY <1>6, <1>10, <1>11

\* Bookings and cancellations of sessions never wait for each other in a circle, whatever
\* the timetable and however many of them run.
THEOREM LocksInOrder == Spec => []NoLockCycle
<1>1. Init => LockOrder /\ CancelCover
  <2>1. Init => CancelCover
    BY ProcAssumption DEF Init, CancelCover, Procs
  <2>2. ASSUME Init PROVE LockOrder
    <3>1. \A p \in Procs : pc[p] = "new" /\ p # NoProc
      BY <2>2, ProcAssumption DEF Init, Procs
    <3>2. \A p \in Procs : Held(p) = {}
      BY <2>2, <3>1 DEF Init, Held
    <3>3. \A r \in Requests : pc[r] # "locking" /\ rowLock[r] = NoProc
      BY <2>2, <3>1 DEF Init, Procs
    <3>4. \A a \in Cancellers : pc[a] # "listed" /\ a # NoProc
      BY <3>1 DEF Procs
    <3>5. QED  BY <3>2, <3>3, <3>4 DEF LockOrder
  <2>3. QED  BY <2>1, <2>2
<1>2. IInv /\ CancelCover /\ LockOrder /\ [Next]_vars => CancelCover' /\ LockOrder'
  BY StepKinds, CancelStep, OrderStep DEF IInv
<1>3. IInv /\ CancelCover /\ LockOrder => NoLockCycle
  BY NobodyStuck DEF IInv, NoLockCycle
<1>4. QED
  BY <1>1, <1>2, <1>3, InductiveInvariant, PTL DEF Spec

-----------------------------------------------------------------------------
(* Progress: what EveryCallReturns rests on *)

InProgress(p) == pc[p] \notin {"new"} \union Finished

\* Locks are held by calls in progress only, a request that still locks misses a row, and
\* a cancellation does not ask twice for a booking.
HoldersWork ==
  /\ \A s \in Sessions : lock[s] # NoProc => InProgress(lock[s])
  /\ \A r \in Requests : pc[r] = "locking" => Missing(r) # {}
  /\ \A a \in Cancellers : pc[a] = "listed" => \A b \in todo[a] : rowLock[b] # a

\* The next statement of the call finds the row that it wants free.
Unblocked(p) ==
  /\ p \in Requests /\ pc[p] = "locking" =>
       \E s \in Sessions : NextToLock(p, s) /\ lock[s] = NoProc
  /\ p \in Cancellers /\ pc[p] = "loaded" => lock[target[p]] = NoProc
  /\ p \in Cancellers /\ pc[p] = "listed" => \A b \in todo[p] : rowLock[b] = NoProc

\* Of the calls in progress one can always go on, and so can every cancellation that has
\* its session.
SomebodyGoesOn ==
  /\ (\E p \in Procs : InProgress(p)) => \E p \in Procs : InProgress(p) /\ Unblocked(p)
  /\ \A a \in Cancellers : pc[a] = "listed" => Unblocked(a)

\* Statements that a call has ahead, of which two may be repeated: locking and marking.
Stage(p) ==
  CASE pc[p] = "new"                    -> 8
    [] pc[p] \in {"locking", "loaded"}  -> 7
    [] pc[p] \in {"locked", "updated"}  -> 6
    [] pc[p] \in {"allowed", "listed"}  -> 5
    [] pc[p] = "clear"                  -> 4
    [] pc[p] = "counted"                -> 3
    [] pc[p] = "passed"                 -> 2
    [] OTHER                            -> 1

\* A call is at a later stage, or has a session less to lock or a booking less to mark.
Nearer(p) ==
  \/ Stage(p)' < Stage(p)
  \/ /\ p \in Requests /\ pc[p] = "locking" /\ pc'[p] = "locking"
     /\ Missing(p)' \subseteq Missing(p) /\ Missing(p)' # Missing(p)
  \/ /\ p \in Cancellers /\ pc[p] = "listed" /\ pc'[p] = "listed"
     /\ todo'[p] \subseteq todo[p] /\ todo'[p] # todo[p]

Stands(p) ==
  /\ pc'[p] = pc[p]
  /\ p \in Requests => Missing(p)' = Missing(p)
  /\ p \in Cancellers => todo'[p] = todo[p]

\* Each statement of a call brings it nearer to its end, and what the others do never
\* sends it back.
CallsAdvance ==
  [][/\ \A r \in Requests : RequestStep(r) => Nearer(r)
     /\ \A a \in Cancellers : CancellerStep(a) => Nearer(a)
     /\ \A p \in Procs : Nearer(p) \/ Stands(p)]_vars

\* Some number of a finite set is the least.
LEMMA Least ==
  ASSUME NEW S, S \subseteq Int, IsFiniteSet(S), NEW T, T \subseteq S, T # {}
  PROVE  \E m \in T : \A t \in T : m <= t
<1> DEFINE Below(s) == {u \in S : u < s}
           Bottoms == {Below(s) : s \in T}
<1>1. IsWellFoundedOn(StrictSubsetOrdering(S), SUBSET S)
  BY FS_StrictSubsetOrderingWellFounded, FS_FiniteSubsetsOfFinite
<1>2. Bottoms \subseteq SUBSET S /\ Bottoms # {} /\ T \subseteq Int
  OBVIOUS
<1>3. PICK x \in Bottoms : \A y \in Bottoms : <<y, x>> \notin StrictSubsetOrdering(S)
  <2> HIDE DEF Bottoms
  <2>1. QED  BY <1>1, <1>2, WFMin
<1>4. PICK m \in T : x = Below(m)
  BY <1>3
<1>5. ASSUME NEW t \in T, ~(m <= t) PROVE FALSE
  <2>1. t \in Int /\ m \in Int /\ t \in S /\ t < m
    <3>1. t \in Int /\ m \in Int /\ t \in S
      BY <1>2
    <3>2. QED  BY <1>5, <3>1
  <2>2. ASSUME NEW u \in Below(t) PROVE u \in Below(m)
    <3>1. u \in S /\ u \in Int /\ u < t
      OBVIOUS
    <3>2. u < m
      BY <2>1, <3>1
    <3>3. QED  BY <3>1, <3>2
  <2>3. t \in Below(m) /\ t \notin Below(t)
    BY <2>1
  <2>4. <<Below(t), Below(m)>> \in StrictSubsetOrdering(S)
    BY <2>2, <2>3 DEF StrictSubsetOrdering
  <2>5. QED  BY <1>3, <1>4, <2>4
<1>6. QED  BY <1>5

\* A row that a request misses is of a session, and it does not hold it; the set of
\* sessions that it locks is never empty.
LEMMA MissingTypes ==
  ASSUME TypeOK, NEW r \in Requests
  PROVE  /\ Missing(r) \subseteq Sessions
         /\ \A s \in Missing(r) : lock[s] # r
         /\ Held(r) = {} => Missing(r) # {}
<1>1. req[r].session \in Sessions
  BY RequestTypes DEF TypeOK
<1>2. /\ LockIdsOf[req[r].session] \subseteq Sessions
      /\ req[r].session \in LockIdsOf[req[r].session]
  BY <1>1 DEF LockIdsOf, LockIds
<1>3. QED  BY <1>2 DEF Missing, Held

\* Who locks has something left to lock, and who stops gives back what it holds.
LEMMA HoldersStep == ASSUME TypeOK, LockOrder, HoldersWork, Step PROVE HoldersWork'
<1>t. /\ pc \in [Procs -> RequestStates \union CancellerStates]
      /\ Requests \subseteq Procs /\ Cancellers \subseteq Procs
      /\ Procs = Requests \union Cancellers
      /\ Requests \intersect Cancellers = {} /\ NoProc \notin Procs
      /\ lock \in [Sessions -> Procs \union {NoProc}]
      /\ rowLock \in [Requests -> Cancellers \union {NoProc}]
      /\ todo \in [Cancellers -> SUBSET Requests]
      /\ \A a \in Cancellers : target[a] \in Sessions
  BY ProcAssumption DEF TypeOK, Procs
<1>u. UNCHANGED <<req, target>>
  BY DEF Step, Rollback, ReadSession, LockSession, Pass, CountSeats, SeatsPass, ManualPass,
         CommitBooking, Remark, SetStatus, ReadLiveSession, LockCancelledSession, ListBookings,
         MarkOne, CommitCancel, inputs, vars
\* A step that takes no lock, begins no locking and lists nothing
<1>s. ASSUME \A s \in Sessions : lock'[s] # NoProc =>
               lock'[s] = lock[s] /\ pc'[lock[s]] \notin {"new"} \union Finished,
             \A r \in Requests : pc'[r] = "locking" =>
               pc[r] = "locking" /\ \A s \in Sessions : lock'[s] = r <=> lock[s] = r,
             \A a \in Cancellers : pc'[a] = "listed" =>
               /\ pc[a] = "listed" /\ todo'[a] \subseteq todo[a]
               /\ \A b \in Requests : rowLock'[b] = a => rowLock[b] = a
      PROVE  HoldersWork'
  <2>1. ASSUME NEW s \in Sessions, lock'[s] # NoProc PROVE InProgress(lock[s])'
    BY <1>s, <2>1 DEF InProgress
  <2>2. ASSUME NEW r \in Requests, pc'[r] = "locking" PROVE Missing(r)' # {}
    <3>1. Held(r)' = Held(r)
      BY <1>s, <2>2 DEF Held
    <3>2. Missing(r)' = Missing(r)
      BY <1>u, <3>1 DEF Missing
    <3>3. QED  BY <1>s, <2>2, <3>2 DEF HoldersWork
  <2>3. ASSUME NEW a \in Cancellers, pc'[a] = "listed", NEW b \in todo'[a] PROVE rowLock'[b] # a
    BY <1>s, <1>t, <2>3 DEF HoldersWork
  <2>4. QED  BY <1>s, <2>1, <2>2, <2>3 DEF HoldersWork
<1>w. \A s \in Sessions : lock[s] # NoProc =>
        lock[s] \in Procs /\ pc[lock[s]] \notin {"new"} \union Finished
  BY <1>t DEF HoldersWork, InProgress
<1>1. ASSUME NEW p \in Procs, pc[p] \notin {"new"} \union Finished, Rollback(p, pc[p])
      PROVE  HoldersWork'
  BY <1>1, <1>s, <1>t, <1>w DEF Rollback, ReleaseLocks, Goto, Finished
<1>2. ASSUME NEW r \in Requests,
             \/ CountSeats(r) \/ SeatsPass(r) \/ ManualPass(r)
             \/ Pass(r, "locked", "allowed") \/ Pass(r, "allowed", "clear")
      PROVE  HoldersWork'
  BY <1>2, <1>s, <1>t, <1>w DEF CountSeats, SeatsPass, ManualPass, Pass, Goto, Finished
<1>3. ASSUME NEW r \in Requests, ReadSession(r) PROVE HoldersWork'
  <2>1. /\ pc[r] = "new" /\ pc' = [pc EXCEPT ![r] = "locking"]
        /\ UNCHANGED <<lock, rowLock, todo>>
    BY <1>3 DEF ReadSession, Goto
  <2>2. ASSUME NEW q \in Requests PROVE Missing(q)' = Missing(q)
    BY <1>u, <2>1 DEF Missing, Held
  <2>3. ASSUME NEW q \in Requests, pc'[q] = "locking" PROVE Missing(q) # {}
    <3>1. CASE q = r
      BY <1>t, <2>1, <3>1, MissingTypes DEF LockOrder
    <3>2. CASE q # r
      BY <1>t, <2>1, <2>3, <3>2 DEF HoldersWork
    <3>3. QED  BY <3>1, <3>2
  <2>4. ASSUME NEW s \in Sessions, lock[s] # NoProc PROVE InProgress(lock[s])'
    BY <1>t, <1>w, <2>1, <2>4 DEF InProgress, Finished
  <2>5. ASSUME NEW a \in Cancellers, pc'[a] = "listed", NEW b \in todo'[a] PROVE rowLock'[b] # a
    BY <1>t, <2>1, <2>5 DEF HoldersWork
  <2>6. QED  BY <2>1, <2>2, <2>3, <2>4, <2>5 DEF HoldersWork
<1>4. ASSUME NEW r \in Requests, LockSession(r) PROVE HoldersWork'
  <2>1. PICK s \in Sessions :
          /\ NextToLock(r, s)
          /\ lock[s] = NoProc
          /\ lock' = [lock EXCEPT ![s] = r]
          /\ Goto(r, "locking", IF Missing(r) = {s} THEN "locked" ELSE "locking")
          /\ UNCHANGED <<rowLock, todo>>
    BY <1>4 DEF LockSession
  <2>2. ASSUME NEW p \in Procs \ {r} PROVE pc'[p] = pc[p] /\ Held(p)' = Held(p)
    BY <2>1, <1>t DEF Goto, Held
  <2>3. Held(r)' = Held(r) \union {s}
    BY <2>1, <1>t DEF Held
  <2>4. /\ pc'[r] \in {"locking", "locked"}
        /\ pc'[r] = "locking" => Missing(r) # {s}
    BY <2>1, <1>t DEF Goto
  <2>5. ASSUME NEW q \in Requests, pc'[q] = "locking" PROVE Missing(q)' # {}
    <3>1. CASE q = r
      <4>1. Missing(r)' = Missing(r) \ {s}
        BY <1>u, <2>3 DEF Missing
      <4>2. s \in Missing(r)
        BY <2>1 DEF NextToLock
      <4>3. QED  BY <2>4, <2>5, <3>1, <4>1, <4>2
    <3>2. CASE q # r
      <4>1. pc[q] = "locking" /\ Missing(q)' = Missing(q)
        BY <1>t, <1>u, <2>2, <2>5, <3>2 DEF Missing
      <4>2. QED  BY <4>1 DEF HoldersWork
    <3>3. QED  BY <3>1, <3>2
  <2>6. ASSUME NEW u \in Sessions, lock'[u] # NoProc PROVE pc'[lock'[u]] \notin {"new"} \union Finished
    <3>1. CASE u = s
      BY <1>t, <2>1, <2>4, <3>1 DEF Finished
    <3>2. CASE u # s
      <4>1. lock'[u] = lock[u] /\ lock[u] \in Procs
        BY <1>t, <2>1, <2>6, <3>2
      <4>2. CASE lock[u] = r
        BY <2>4, <4>1, <4>2 DEF Finished
      <4>3. CASE lock[u] # r
        BY <1>w, <2>2, <2>6, <4>1, <4>3
      <4>4. QED  BY <4>2, <4>3
    <3>3. QED  BY <3>1, <3>2
  <2>7. ASSUME NEW a \in Cancellers, pc'[a] = "listed", NEW b \in todo'[a] PROVE rowLock'[b] # a
    BY <1>t, <2>1, <2>2, <2>7 DEF HoldersWork
  <2>8. QED  BY <2>5, <2>6, <2>7 DEF HoldersWork, InProgress
<1>5. ASSUME NEW q \in Requests, CommitBooking(q) PROVE HoldersWork'
  BY <1>5, <1>s, <1>t, <1>w DEF CommitBooking, ReleaseLocks, Goto
<1>6. ASSUME NEW b \in Requests, Remark(b) PROVE HoldersWork'
  BY <1>6, <1>s, <1>w DEF Remark, SetStatus
<1>7. ASSUME NEW a \in Cancellers, ReadLiveSession(a) PROVE HoldersWork'
  BY <1>7, <1>s, <1>t, <1>w DEF ReadLiveSession, Goto, Finished
<1>8. ASSUME NEW a \in Cancellers, LockCancelledSession(a) PROVE HoldersWork'
  <2>1. /\ pc[a] = "loaded" /\ pc' = [pc EXCEPT ![a] = "updated"]
        /\ lock' = [lock EXCEPT ![target[a]] = a]
        /\ UNCHANGED <<rowLock, todo>>
    BY <1>8 DEF LockCancelledSession, Goto
  <2>2. ASSUME NEW u \in Sessions, lock'[u] # NoProc PROVE pc'[lock'[u]] \notin {"new"} \union Finished
    <3>1. lock'[u] = IF u = target[a] THEN a ELSE lock[u]
      BY <1>t, <2>1
    <3>2. QED  BY <1>t, <1>w, <2>1, <2>2, <3>1 DEF Finished
  <2>3. ASSUME NEW q \in Requests, pc'[q] = "locking" PROVE Missing(q)' # {}
    <3>1. pc[q] = "locking" /\ q # a
      BY <1>t, <2>1, <2>3
    <3>2. lock[target[a]] = NoProc
      BY <1>8 DEF LockCancelledSession
    <3>3. Held(q)' = Held(q)
      BY <1>t, <2>1, <3>1, <3>2 DEF Held
    <3>4. Missing(q)' = Missing(q)
      BY <1>u, <3>3 DEF Missing
    <3>5. QED  BY <3>1, <3>4 DEF HoldersWork
  <2>4. ASSUME NEW c \in Cancellers, pc'[c] = "listed", NEW b \in todo'[c] PROVE rowLock'[b] # c
    BY <1>t, <2>1, <2>4 DEF HoldersWork
  <2>5. QED  BY <2>2, <2>3, <2>4 DEF HoldersWork, InProgress
<1>9. ASSUME NEW a \in Cancellers, ListBookings(a) PROVE HoldersWork'
  <2>1. /\ pc[a] = "updated" /\ pc' = [pc EXCEPT ![a] = "listed"]
        /\ \A c \in Cancellers \ {a} : todo'[c] = todo[c]
        /\ todo'[a] \subseteq Requests
        /\ UNCHANGED <<lock, rowLock>>
    BY <1>9, <1>t DEF ListBookings, Goto, SessionBooked, Booked
  <2>2. \A b \in Requests : rowLock[b] # a
    BY <2>1 DEF LockOrder
  <2>3. ASSUME NEW u \in Sessions, lock[u] # NoProc PROVE InProgress(lock[u])'
    BY <1>t, <1>w, <2>1, <2>3 DEF InProgress, Finished
  <2>4. ASSUME NEW q \in Requests, pc'[q] = "locking" PROVE Missing(q)' # {}
    <3>1. pc[q] = "locking" /\ Missing(q)' = Missing(q)
      BY <1>t, <1>u, <2>1, <2>4 DEF Missing, Held
    <3>2. QED  BY <3>1 DEF HoldersWork
  <2>5. ASSUME NEW c \in Cancellers, pc'[c] = "listed", NEW b \in todo'[c] PROVE rowLock'[b] # c
    BY <1>t, <2>1, <2>2, <2>5 DEF HoldersWork
  <2>6. QED  BY <2>1, <2>3, <2>4, <2>5 DEF HoldersWork
<1>10. ASSUME NEW a \in Cancellers, NEW b \in Requests, MarkOne(a, b) PROVE HoldersWork'
  <2>1. /\ pc' = pc /\ lock' = lock /\ rowLock[b] = NoProc
        /\ rowLock' = [rowLock EXCEPT ![b] = a]
        /\ todo' = [todo EXCEPT ![a] = @ \ {b}]
    BY <1>10, <1>t DEF MarkOne, Goto
  <2>2. \A q \in Requests : Missing(q)' = Missing(q)
    BY <1>u, <2>1 DEF Missing, Held
  <2>3. ASSUME NEW c \in Cancellers, pc[c] = "listed", NEW d \in todo'[c] PROVE rowLock'[d] # c
    <3>1. d \in Requests /\ d \in todo[c] /\ (c = a => d # b)
      BY <1>t, <2>1, <2>3
    <3>2. QED  BY <1>t, <2>1, <2>3, <3>1 DEF HoldersWork
  <2>4. QED  BY <2>1, <2>2, <2>3 DEF HoldersWork, InProgress
<1>11. ASSUME NEW a \in Cancellers, CommitCancel(a) PROVE HoldersWork'
  BY <1>11, <1>s, <1>t, <1>w DEF CommitCancel, ReleaseLocks, Goto
<1>12. CASE UNCHANGED vars
  BY <1>12, <1>s, <1>w DEF vars
<1>13. QED
  BY <1>1, <1>2, <1>3, <1>4, <1>5, <1>6, <1>7, <1>8, <1>9, <1>10, <1>11, <1>12 DEF Step

\* A cancellation that has listed its bookings waits for no row: the locks of bookings
\* belong to cancellations of the same session, and only one of them has its lock.
LEMMA MarkersWaitForNobody ==
  ASSUME TypeOK, CancelCover, LockOrder, HoldersWork, NEW a \in Cancellers, pc[a] = "listed"
  PROVE  Unblocked(a)
<1>t. /\ Requests \intersect Cancellers = {}
      /\ rowLock \in [Requests -> Cancellers \union {NoProc}]
      /\ todo[a] \subseteq Requests
  BY ProcAssumption DEF TypeOK
<1>1. ASSUME NEW b \in todo[a], rowLock[b] # NoProc PROVE FALSE
  <2>1. PICK q \in Cancellers : rowLock[b] = q
    BY <1>1, <1>t
  <2>2. q # a
    BY <2>1 DEF HoldersWork
  <2>3. pc[q] = "listed" /\ target[q] = target[a]
    BY <1>1, <1>t, <2>1 DEF LockOrder
  <2>4. lock[target[a]] = a /\ lock[target[q]] = q
    BY <2>3 DEF CancelCover
  <2>5. QED  BY <2>2, <2>3, <2>4
<1>2. QED  BY <1>1, <1>t DEF Unblocked

\* Whoever waits for none of the calls in progress waits for nobody.
LEMMA SomebodyFree ==
  ASSUME TypeOK, CancelCover, LockOrder, HoldersWork PROVE SomebodyGoesOn
<1> DEFINE P == {p \in Procs : InProgress(p)}
<1>t. /\ Procs = Requests \union Cancellers
      /\ Requests \intersect Cancellers = {} /\ NoProc \notin Procs
      /\ lock \in [Sessions -> Procs \union {NoProc}]
      /\ \A a \in Cancellers : target[a] \in Sessions
  BY ProcAssumption DEF TypeOK, Procs
<1>1. \A s \in Sessions : lock[s] # NoProc => lock[s] \in P
  BY <1>t DEF HoldersWork
<1>2. ASSUME P # {} PROVE \E p \in Procs : InProgress(p) /\ Unblocked(p)
  <2>1. PICK p \in P : \A q \in P : ~WaitsFor(p, q)
    <3>1. P \in (SUBSET Procs) \ {{}}
      BY <1>2
    <3> HIDE DEF P
    <3>2. QED  BY <3>1, NobodyStuck
  <2>2. CASE p \in Requests /\ pc[p] = "locking"
    <3>1. /\ Missing(p) # {} /\ Missing(p) \subseteq Sessions
          /\ \A s \in Missing(p) : lock[s] # p
      BY <2>2, MissingTypes DEF HoldersWork
    <3>2. PICK s \in Missing(p) : \A u \in Missing(p) : s <= u
      BY <3>1, TimetableAssumption, Least
    <3>3. NextToLock(p, s) /\ s \in Sessions
      BY <3>1, <3>2 DEF NextToLock
    <3>4. lock[s] = NoProc
      <4>1. SUFFICES ASSUME lock[s] # NoProc PROVE FALSE
        OBVIOUS
      <4>2. lock[s] \in P /\ lock[s] # p
        BY <1>1, <3>1, <3>2, <3>3, <4>1
      <4>3. WaitsFor(p, lock[s])
        BY <2>2, <3>3, <4>2 DEF WaitsFor
      <4>4. QED  BY <2>1, <4>2, <4>3
    <3>5. QED  BY <1>t, <2>2, <3>3, <3>4 DEF Unblocked
  <2>3. CASE p \in Cancellers /\ pc[p] = "loaded"
    <3>1. lock[target[p]] = NoProc
      <4>1. SUFFICES ASSUME lock[target[p]] # NoProc PROVE FALSE
        OBVIOUS
      <4>2. lock[target[p]] \in P /\ lock[target[p]] # p
        BY <1>1, <1>t, <2>3, <4>1 DEF LockOrder, Held
      <4>3. WaitsFor(p, lock[target[p]])
        BY <2>3, <4>2 DEF WaitsFor
      <4>4. QED  BY <2>1, <4>2, <4>3
    <3>2. QED  BY <1>t, <2>3, <3>1 DEF Unblocked
  <2>4. CASE p \in Cancellers /\ pc[p] = "listed"
    BY <2>4, MarkersWaitForNobody
  <2>5. CASE /\ ~(p \in Requests /\ pc[p] = "locking")
             /\ ~(p \in Cancellers /\ pc[p] \in {"loaded", "listed"})
    BY <2>5 DEF Unblocked
  <2>6. QED  BY <2>2, <2>3, <2>4, <2>5
<1>3. QED  BY <1>2, MarkersWaitForNobody DEF SomebodyGoesOn

Moving == IInv /\ CancelCover /\ LockOrder /\ HoldersWork

\* The locks stay in the hands of calls at work.
LEMMA MovingStays == Spec => []Moving
<1>1. Init => LockOrder /\ CancelCover /\ HoldersWork
  <2>1. ASSUME Init PROVE LockOrder /\ CancelCover /\ HoldersWork
    <3>1. \A p \in Procs : pc[p] = "new" /\ p # NoProc
      BY <2>1, ProcAssumption DEF Init, Procs
    <3>2. \A p \in Procs : Held(p) = {}
      BY <2>1, <3>1 DEF Init, Held
    <3>3. \A r \in Requests : pc[r] # "locking" /\ rowLock[r] = NoProc
      BY <2>1, <3>1 DEF Init, Procs
    <3>4. \A a \in Cancellers : pc[a] = "new" /\ a # NoProc
      BY <3>1 DEF Procs
    <3>5. LockOrder
      BY <3>2, <3>3, <3>4 DEF LockOrder
    <3>6. CancelCover
      BY <3>4 DEF CancelCover
    <3>7. \A s \in Sessions : lock[s] = NoProc
      BY <2>1 DEF Init
    <3>8. HoldersWork
      BY <3>3, <3>4, <3>7 DEF HoldersWork
    <3>9. QED  BY <3>5, <3>6, <3>8
  <2>2. QED  BY <2>1
<1>2. IInv /\ CancelCover /\ LockOrder /\ HoldersWork /\ [Next]_vars
        => CancelCover' /\ LockOrder' /\ HoldersWork'
  BY StepKinds, CancelStep, OrderStep, HoldersStep DEF IInv
<1>3. QED
  BY <1>1, <1>2, InductiveInvariant, PTL DEF Spec, Moving

\* While a booking or a cancellation of a session is under way, one of them waits for no
\* row, whatever the timetable and however many of them run.
THEOREM SomebodyAlwaysGoesOn == Spec => []SomebodyGoesOn
<1>1. Moving => SomebodyGoesOn
  BY SomebodyFree DEF Moving, IInv
<1>2. QED  BY <1>1, MovingStays, PTL

\* Every step leaves each call where it was or brings it nearer to its end.
LEMMA NearerOrStands ==
  ASSUME TypeOK, Step, NEW p \in Procs PROVE Nearer(p) \/ Stands(p)
<1>t. /\ pc \in [Procs -> RequestStates \union CancellerStates]
      /\ Requests \subseteq Procs /\ Cancellers \subseteq Procs
      /\ Requests \intersect Cancellers = {} /\ NoProc \notin Procs
      /\ lock \in [Sessions -> Procs \union {NoProc}]
      /\ todo \in [Cancellers -> SUBSET Requests]
  BY ProcAssumption DEF TypeOK, Procs
<1>u. UNCHANGED <<req, target>>
  BY DEF Step, Rollback, ReadSession, LockSession, Pass, CountSeats, SeatsPass, ManualPass,
         CommitBooking, Remark, SetStatus, ReadLiveSession, LockCancelledSession, ListBookings,
         MarkOne, CommitCancel, inputs, vars
\* The calls that a step leaves alone
<1>s. ASSUME pc'[p] = pc[p],
             \A s \in Sessions : lock'[s] = p <=> lock[s] = p,
             p \in Cancellers => todo'[p] = todo[p]
      PROVE  Stands(p)
  <2>1. Held(p)' = Held(p)
    BY <1>s DEF Held
  <2>2. Missing(p)' = Missing(p)
    BY <1>u, <2>1 DEF Missing
  <2>3. QED  BY <1>s, <2>2 DEF Stands
\* The calls that go to a later statement
<1>n. ASSUME \/ pc[p] = "new" /\ pc'[p] \in {"locking", "loaded"}
             \/ pc[p] = "locking" /\ pc'[p] = "locked"
             \/ pc[p] = "locked" /\ pc'[p] \in {"allowed", "passed"}
             \/ pc[p] = "allowed" /\ pc'[p] = "clear"
             \/ pc[p] = "clear" /\ pc'[p] = "counted"
             \/ pc[p] = "counted" /\ pc'[p] = "passed"
             \/ pc[p] = "loaded" /\ pc'[p] = "updated"
             \/ pc[p] = "updated" /\ pc'[p] = "listed"
             \/ pc[p] \notin {"new"} \union Finished /\ pc'[p] \in Finished
      PROVE  Nearer(p)
  <2>1. pc[p] \in RequestStates \union CancellerStates
    BY <1>t
  <2>2. Stage(p)' < Stage(p)
    BY <1>n, <2>1 DEF Stage, RequestStates, CancellerStates, Finished
  <2>3. QED  BY <2>2 DEF Nearer
<1>1. ASSUME NEW q \in Procs, pc[q] \notin {"new"} \union Finished, Rollback(q, pc[q])
      PROVE  Nearer(p) \/ Stands(p)
  <2>1. CASE p = q
    BY <1>1, <1>n, <1>t, <2>1 DEF Rollback, Goto, Finished
  <2>2. CASE p # q
    BY <1>1, <1>s, <1>t, <2>2 DEF Rollback, ReleaseLocks, Goto
  <2>3. QED  BY <2>1, <2>2
<1>2. ASSUME NEW r \in Requests,
             \/ ReadSession(r) \/ CountSeats(r) \/ SeatsPass(r) \/ ManualPass(r)
             \/ Pass(r, "locked", "allowed") \/ Pass(r, "allowed", "clear")
      PROVE  Nearer(p) \/ Stands(p)
  <2>1. CASE p = r
    BY <1>2, <1>n, <1>t, <2>1 DEF ReadSession, CountSeats, SeatsPass, ManualPass, Pass, Goto
  <2>2. CASE p # r
    BY <1>2, <1>s, <1>t, <2>2 DEF ReadSession, CountSeats, SeatsPass, ManualPass, Pass, Goto
  <2>3. QED  BY <2>1, <2>2
<1>3. ASSUME NEW r \in Requests, LockSession(r) PROVE Nearer(p) \/ Stands(p)
  <2>1. PICK s \in Sessions :
          /\ NextToLock(r, s)
          /\ lock[s] = NoProc
          /\ lock' = [lock EXCEPT ![s] = r]
          /\ Goto(r, "locking", IF Missing(r) = {s} THEN "locked" ELSE "locking")
          /\ UNCHANGED <<rowLock, todo>>
    BY <1>3 DEF LockSession
  <2>2. CASE p = r
    <3>1. pc[r] = "locking" /\ pc'[r] \in {"locking", "locked"}
      BY <1>t, <2>1 DEF Goto
    <3>2. Held(r)' = Held(r) \union {s}
      BY <1>t, <2>1 DEF Held
    <3>3. Missing(r)' = Missing(r) \ {s} /\ s \in Missing(r)
      BY <1>u, <2>1, <3>2 DEF Missing, NextToLock
    <3>4. QED  BY <1>n, <2>2, <3>1, <3>3 DEF Nearer
  <2>3. CASE p # r
    BY <1>s, <1>t, <2>1, <2>3 DEF Goto
  <2>4. QED  BY <2>2, <2>3
<1>4. ASSUME NEW r \in Requests, CommitBooking(r) PROVE Nearer(p) \/ Stands(p)
  <2>1. CASE p = r
    BY <1>4, <1>n, <1>t, <2>1 DEF CommitBooking, Goto, Finished
  <2>2. CASE p # r
    BY <1>4, <1>s, <1>t, <2>2 DEF CommitBooking, ReleaseLocks, Goto
  <2>3. QED  BY <2>1, <2>2
<1>5. ASSUME NEW b \in Requests, Remark(b) PROVE Stands(p)
  BY <1>5, <1>s DEF Remark, SetStatus
<1>6. ASSUME NEW a \in Cancellers,
             ReadLiveSession(a) \/ LockCancelledSession(a) \/ ListBookings(a) \/ CommitCancel(a)
      PROVE  Nearer(p) \/ Stands(p)
  <2>1. CASE p = a
    BY <1>6, <1>n, <1>t, <2>1
    DEF ReadLiveSession, LockCancelledSession, ListBookings, CommitCancel, Goto, Finished
  <2>2. CASE p # a
    <3>1. pc'[p] = pc[p]
      BY <1>6, <1>t, <2>2
      DEF ReadLiveSession, LockCancelledSession, ListBookings, CommitCancel, Goto
    <3>2. p \in Cancellers => todo'[p] = todo[p]
      BY <1>6, <1>t, <2>2 DEF ReadLiveSession, LockCancelledSession, ListBookings, CommitCancel
    <3>3. \A s \in Sessions : lock'[s] = p <=> lock[s] = p
      BY <1>6, <1>t, <2>2
      DEF ReadLiveSession, LockCancelledSession, ListBookings, CommitCancel, ReleaseLocks
    <3>4. QED  BY <1>s, <3>1, <3>2, <3>3
  <2>3. QED  BY <2>1, <2>2
<1>7. ASSUME NEW a \in Cancellers, NEW b \in Requests, MarkOne(a, b)
      PROVE  Nearer(p) \/ Stands(p)
  <2>1. /\ pc[a] = "listed" /\ pc' = pc /\ lock' = lock /\ b \in todo[a]
        /\ todo' = [todo EXCEPT ![a] = @ \ {b}]
    BY <1>7, <1>t DEF MarkOne, Goto
  <2>2. CASE p = a
    BY <1>t, <2>1, <2>2 DEF Nearer
  <2>3. CASE p # a
    BY <1>s, <1>t, <2>1, <2>3
  <2>4. QED  BY <2>2, <2>3
<1>8. CASE UNCHANGED vars
  BY <1>8, <1>s DEF vars
<1>9. QED  BY <1>1, <1>2, <1>3, <1>4, <1>5, <1>6, <1>7, <1>8 DEF Step

\* A statement of a call does not leave the call where it was.
LEMMA RequestsMove == ASSUME TypeOK, NEW r \in Requests, RequestStep(r) PROVE ~Stands(r)
<1>t. /\ pc \in [Procs -> RequestStates \union CancellerStates] /\ r \in Procs
      /\ lock \in [Sessions -> Procs \union {NoProc}]
  BY DEF TypeOK, Procs
<1>1. ASSUME NEW from, NEW to, Goto(r, from, to), from # to PROVE ~Stands(r)
  BY <1>1, <1>t DEF Goto, Stands
<1>2. CASE LockSession(r)
  <2>1. PICK s \in Sessions :
          /\ NextToLock(r, s)
          /\ lock' = [lock EXCEPT ![s] = r]
    BY <1>2 DEF LockSession
  <2>2. s \in Missing(r) /\ s \notin Missing(r)'
    BY <1>t, <2>1 DEF NextToLock, Missing, Held
  <2>3. QED  BY <2>2 DEF Stands
<1>3. CASE ReadSession(r) \/ CountSeats(r) \/ CommitBooking(r)
  BY <1>1, <1>3 DEF ReadSession, CountSeats, CommitBooking
<1>4. CASE CheckDiscipline(r) \/ CheckOverlap(r) \/ CheckSeats(r) \/ CheckManual(r)
  BY <1>1, <1>4 DEF CheckDiscipline, CheckOverlap, CheckSeats, CheckManual, Rollback
<1>5. QED  BY <1>2, <1>3, <1>4 DEF RequestStep

\* The same for a cancellation.
LEMMA CancellersMove == ASSUME TypeOK, NEW a \in Cancellers, CancellerStep(a) PROVE ~Stands(a)
<1>t. /\ pc \in [Procs -> RequestStates \union CancellerStates] /\ a \in Procs
      /\ todo \in [Cancellers -> SUBSET Requests]
  BY DEF TypeOK, Procs
<1>1. ASSUME NEW from, NEW to, Goto(a, from, to), from # to PROVE ~Stands(a)
  BY <1>1, <1>t DEF Goto, Stands
<1>2. CASE MarkSlotCancelled(a)
  <2>1. PICK b \in todo[a] : todo' = [todo EXCEPT ![a] = @ \ {b}] \/ Rollback(a, "listed")
    BY <1>2 DEF MarkSlotCancelled
  <2>2. CASE todo' = [todo EXCEPT ![a] = @ \ {b}]
    BY <1>t, <2>2 DEF Stands
  <2>3. CASE Rollback(a, "listed")
    BY <1>1, <2>3 DEF Rollback
  <2>4. QED  BY <2>1, <2>2, <2>3
<1>3. CASE ReadLiveSession(a) \/ LockCancelledSession(a) \/ ListBookings(a) \/ CommitCancel(a)
  BY <1>1, <1>3 DEF ReadLiveSession, LockCancelledSession, ListBookings, CommitCancel
<1>4. QED  BY <1>2, <1>3 DEF CancellerStep

\* Bookings and cancellations advance towards their end: there is no statement that they
\* repeat for ever, and no other call that sends them back.
THEOREM CallsGoOn == Spec => CallsAdvance
<1>1. TypeOK /\ [Next]_vars =>
        [/\ \A r \in Requests : RequestStep(r) => Nearer(r)
         /\ \A a \in Cancellers : CancellerStep(a) => Nearer(a)
         /\ \A p \in Procs : Nearer(p) \/ Stands(p)]_vars
  <2>1. ASSUME TypeOK, [Next]_vars
        PROVE  /\ \A r \in Requests : RequestStep(r) => Nearer(r)
               /\ \A a \in Cancellers : CancellerStep(a) => Nearer(a)
               /\ \A p \in Procs : Nearer(p) \/ Stands(p)
    <3>1. \A p \in Procs : Nearer(p) \/ Stands(p)
      BY <2>1, StepKinds, NearerOrStands
    <3>2. QED  BY <2>1, <3>1, RequestsMove, CancellersMove DEF Procs
  <2>2. QED  BY <2>1
<1>2. QED  BY <1>1, TypesHold, PTL DEF Spec, CallsAdvance

-----------------------------------------------------------------------------
(* How far the rules of a student reach *)

CommonRow(b, c) == LockIds(req[b].session) \intersect LockIds(req[c].session) # {}

Rivals(b, c) ==
  /\ b # c /\ CommonRow(b, c)
  /\ req[b].student = req[c].student
  /\ ~req[b].manual /\ ~req[c].manual

\* Where the lock sets of two sessions meet, a student who books both of them without
\* staff has them in different disciplines and at different times.
RulesHoldUnderLocks ==
  \A b, c \in Booked : Rivals(b, c) =>
    /\ req[b].discipline # req[c].discipline
    /\ ~Overlaps(req[b].session, req[c].session)

\* What a request has found out about the bookings that it could have to wait for
RulesCover ==
  \A r \in Requests, b \in Booked : Rivals(b, r) =>
    /\ pc[r] \in {"allowed", "clear", "counted", "passed"} =>
         req[b].discipline # req[r].discipline
    /\ pc[r] \in {"clear", "counted", "passed"} =>
         ~Overlaps(req[b].session, req[r].session)

\* A request that books for itself comes to the insert by all of its checks.
LEMMA ChecksInOrder ==
  ASSUME TypeOK, [Next]_vars, NEW r \in Requests, ~req[r].manual,
         pc'[r] # pc[r], pc'[r] \in {"allowed", "clear", "counted", "passed"}
  PROVE  \/ pc'[r] = "allowed" /\ DisciplineFree(r)
         \/ pc'[r] = "clear" /\ pc[r] = "allowed" /\ ~StudentBusy(r)
         \/ pc'[r] = "counted" /\ pc[r] = "clear"
         \/ pc'[r] = "passed" /\ pc[r] = "counted"
<1>t. /\ pc \in [Procs -> RequestStates \union CancellerStates]
      /\ Requests \subseteq Procs /\ Cancellers \subseteq Procs
      /\ Requests \intersect Cancellers = {}
  BY ProcAssumption DEF TypeOK, Procs
<1>g. ASSUME NEW p \in Procs, NEW from, NEW to, Goto(p, from, to)
      PROVE  p = r /\ pc[r] = from /\ pc'[r] = to
  BY <1>g, <1>t DEF Goto
<1>1. ASSUME NEW q \in Requests, ReadSession(q) \/ LockSession(q) \/ CommitBooking(q)
      PROVE  FALSE
  <2>1. \E from, to : Goto(q, from, to) /\ to \in {"locking", "locked", "done"}
    BY <1>1 DEF ReadSession, LockSession, CommitBooking
  <2>2. QED  BY <1>g, <1>t, <2>1
<1>2. ASSUME NEW p \in Procs, NEW from, Rollback(p, from) PROVE FALSE
  BY <1>2, <1>g DEF Rollback
<1>3. ASSUME NEW q \in Requests, CheckDiscipline(q)
      PROVE  pc'[r] = "allowed" /\ DisciplineFree(r)
  BY <1>2, <1>3, <1>g, <1>t DEF CheckDiscipline
<1>4. ASSUME NEW q \in Requests, CheckOverlap(q)
      PROVE  pc'[r] = "clear" /\ pc[r] = "allowed" /\ ~StudentBusy(r)
  BY <1>2, <1>4, <1>g, <1>t DEF CheckOverlap
<1>5. ASSUME NEW q \in Requests, CountSeats(q)
      PROVE  pc'[r] = "counted" /\ pc[r] = "clear"
  BY <1>5, <1>g, <1>t DEF CountSeats
<1>6. ASSUME NEW q \in Requests, CheckSeats(q)
      PROVE  pc'[r] = "passed" /\ pc[r] = "counted"
  BY <1>2, <1>6, <1>g, <1>t DEF CheckSeats
<1>7. ASSUME NEW q \in Requests, CheckManual(q) PROVE FALSE
  BY <1>2, <1>7, <1>g, <1>t DEF CheckManual
<1>8. ASSUME NEW q \in Requests, RefuseAccess(q) \/ RefuseWindow(q) PROVE FALSE
  BY <1>2, <1>8, <1>t DEF RefuseAccess, RefuseWindow
<1>9. ASSUME NEW a \in Cancellers, CancellerStep(a) PROVE FALSE
  <2>1. \E from, to : Goto(a, from, to)
    BY <1>9 DEF CancellerStep, ReadLiveSession, LockCancelledSession, ListBookings,
                MarkSlotCancelled, CommitCancel, Rollback
  <2>2. QED  BY <1>g, <1>t, <2>1
<1>10. ASSUME NEW p \in Procs, Die(p) PROVE FALSE
  BY <1>2, <1>10 DEF Die
<1>11. ASSUME NEW b \in Requests, CancelBooking(b) \/ ChangeStatus(b) PROVE FALSE
  BY <1>11 DEF CancelBooking, ChangeStatus, SetStatus
<1>12. CASE UNCHANGED vars
  BY <1>12 DEF vars
<1>13. QED
  BY <1>1, <1>3, <1>4, <1>5, <1>6, <1>7, <1>8, <1>9, <1>10, <1>11, <1>12
  DEF Next, RequestStep, Quiet

\* A booking that is committed while a request holds its rows lies beyond them.
LEMMA RulesStep ==
  ASSUME IInv, RulesCover, RulesHoldUnderLocks, [Next]_vars
  PROVE  RulesCover' /\ RulesHoldUnderLocks'
<1>0. TypeOK /\ Step
  BY StepKinds DEF IInv
<1>u. UNCHANGED req
  BY <1>0, BookedStep
<1>t. /\ pc \in [Procs -> RequestStates \union CancellerStates] /\ Requests \subseteq Procs
      /\ Booked \subseteq Requests
  BY <1>0 DEF TypeOK, Procs, Booked
<1>r. \A b, c \in Requests : Rivals(b, c)' <=> Rivals(b, c)
  BY <1>u DEF Rivals, CommonRow
<1>y. \A b, c \in Requests : Rivals(b, c) => Rivals(c, b)
  BY DEF Rivals, CommonRow
<1>o. \A s, v : Overlaps(s, v) => Overlaps(v, s)
  BY DEF Overlaps
\* What the request finds is there, or was found before.
<1>1. ASSUME NEW r \in Requests, NEW b \in Booked, Rivals(b, r)
      PROVE  /\ pc'[r] \in {"allowed", "clear", "counted", "passed"} =>
                  req[b].discipline # req[r].discipline
             /\ pc'[r] \in {"clear", "counted", "passed"} =>
                  ~Overlaps(req[b].session, req[r].session)
  <2>1. CASE pc'[r] = pc[r] \/ pc'[r] \notin {"allowed", "clear", "counted", "passed"}
    BY <1>1, <2>1 DEF RulesCover
  <2>2. CASE pc'[r] # pc[r] /\ pc'[r] \in {"allowed", "clear", "counted", "passed"}
    <3>1. ~req[r].manual /\ req[b].student = req[r].student
      BY <1>1 DEF Rivals
    <3>2. CASE pc'[r] = "allowed" /\ DisciplineFree(r)
      BY <1>t, <3>1, <3>2 DEF DisciplineFree, Booked
    <3>3. CASE pc'[r] = "clear" /\ pc[r] = "allowed" /\ ~StudentBusy(r)
      BY <1>1, <3>1, <3>3 DEF StudentBusy, RulesCover
    <3>4. CASE \/ pc'[r] = "counted" /\ pc[r] = "clear"
               \/ pc'[r] = "passed" /\ pc[r] = "counted"
      BY <1>1, <3>4 DEF RulesCover
    <3>5. QED  BY <1>0, <2>2, <3>1, <3>2, <3>3, <3>4, ChecksInOrder
  <2>3. QED  BY <2>1, <2>2
<1>2. CASE Booked' \subseteq Booked
  <2>1. RulesCover'
    BY <1>1, <1>2, <1>r, <1>t, <1>u DEF RulesCover
  <2>2. RulesHoldUnderLocks'
    BY <1>2, <1>r, <1>t, <1>u DEF RulesHoldUnderLocks
  <2>3. QED  BY <2>1, <2>2
<1>3. ASSUME NEW q \in Requests, CommitBooking(q), Booked' = Booked \union {q}
      PROVE  RulesCover' /\ RulesHoldUnderLocks'
  <2>1. pc[q] = "passed" /\ pc'[q] = "done" /\ \A r \in Requests \ {q} : pc'[r] = pc[r]
    BY <1>3, <1>t DEF CommitBooking, Goto
  <2>2. ASSUME NEW r \in Requests, pc'[r] \in {"allowed", "clear", "counted", "passed"}
        PROVE  ~CommonRow(q, r)
    <3>1. r # q /\ pc[r] \in Locked
      BY <2>1, <2>2 DEF Locked
    <3>2. \A s \in LockIds(req[q].session) : lock[s] = q
      BY <2>1 DEF IInv, HoldsLocks, Locked
    <3>3. \A s \in LockIds(req[r].session) : lock[s] = r
      BY <3>1 DEF IInv, HoldsLocks
    <3>4. QED  BY <3>1, <3>2, <3>3 DEF CommonRow
  <2>3. \A r \in Requests : pc'[r] \in {"allowed", "clear", "counted", "passed"} => ~Rivals(q, r)
    BY <2>2 DEF Rivals
  <2>4. RulesCover'
    <3>1. ASSUME NEW r \in Requests, NEW b \in Booked \union {q}, Rivals(b, r)
          PROVE  /\ pc'[r] \in {"allowed", "clear", "counted", "passed"} =>
                      req[b].discipline # req[r].discipline
                 /\ pc'[r] \in {"clear", "counted", "passed"} =>
                      ~Overlaps(req[b].session, req[r].session)
      BY <1>1, <2>3, <3>1
    <3>2. QED  BY <1>3, <1>r, <1>t, <1>u, <3>1 DEF RulesCover
  <2>5. ASSUME NEW b \in Booked, Rivals(b, q)
        PROVE  /\ req[b].discipline # req[q].discipline
               /\ ~Overlaps(req[b].session, req[q].session)
    BY <2>1, <2>5 DEF RulesCover
  <2>6. RulesHoldUnderLocks'
    <3>1. ASSUME NEW b \in Booked \union {q}, NEW c \in Booked \union {q}, Rivals(b, c)
          PROVE  /\ req[b].discipline # req[c].discipline
                 /\ ~Overlaps(req[b].session, req[c].session)
      <4>1. b # c /\ b \in Requests /\ c \in Requests
        BY <1>t, <3>1 DEF Rivals
      <4>2. CASE b \in Booked /\ c \in Booked
        BY <3>1, <4>2 DEF RulesHoldUnderLocks
      <4>3. CASE c = q
        BY <2>5, <3>1, <4>1, <4>3
      <4>4. CASE b = q
        BY <1>o, <1>y, <2>5, <3>1, <4>1, <4>4
      <4>5. QED  BY <4>2, <4>3, <4>4
    <3>2. QED  BY <1>3, <1>r, <1>t, <1>u, <3>1 DEF RulesHoldUnderLocks
  <2>7. QED  BY <2>4, <2>6
<1>4. QED  BY <1>0, <1>2, <1>3, BookedStep

\* The discipline limit and the ban on overlapping bookings hold between sessions whose
\* lock sets meet.  The counterexample to OneActivePerDiscipline needs two sessions that
\* are locked by no common row.
THEOREM RulesHold == Spec => []RulesHoldUnderLocks
<1>1. Init => RulesCover /\ RulesHoldUnderLocks
  <2>1. Init => Booked = {}
    BY DEF Init, Booked
  <2>2. QED  BY <2>1 DEF RulesCover, RulesHoldUnderLocks
<1>2. IInv /\ RulesCover /\ RulesHoldUnderLocks /\ [Next]_vars
        => RulesCover' /\ RulesHoldUnderLocks'
  BY RulesStep
<1>3. QED  BY <1>1, <1>2, InductiveInvariant, PTL DEF Spec

=============================================================================
