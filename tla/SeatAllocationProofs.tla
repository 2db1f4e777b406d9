------------------------ MODULE SeatAllocationProofs ------------------------
(***************************************************************************)
(* The seat limits are invariants of SeatAllocation, for every timetable,  *)
(* every limit and every finite set of requests.                           *)
(***************************************************************************)
EXTENDS SeatAllocation, SeatCapacityProofs

\* The abstract specification keeps its types.
THEOREM SeatTypes == Spec => []TypeOK
<1>1. Init => TypeOK
  BY DEF Init, TypeOK
<1>2. TypeOK /\ [Next]_seatVars => TypeOK'
  BY DEF TypeOK, Next, Take, Vacate, seatVars
<1>3. QED  BY <1>1, <1>2, PTL DEF Spec

\* No limit is exceeded, in any order of bookings and cancellations.
THEOREM SeatLimitsHold == Spec => []SeatLimits
<1>1. Init => SeatLimits
  <2> SUFFICES ASSUME Init PROVE SeatLimits
    OBVIOUS
  <2>1. /\ \A s \in Sessions : SessionBooked(req, SelfBooked(req, booked), s) = {}
        /\ \A w, t : DoingAt(req, booked, w, t) = {}
        /\ \A m, t : InRoomAt(req, booked, m, t) = {}
    BY DEF Init, SessionBooked, SelfBooked, DoingAt, InRoomAt
  <2>2. Cardinality({}) = 0
    BY FS_EmptySet
  <2>3. WithinSlots(req, booked)
    BY <2>1, <2>2, TimetableAssumption DEF WithinSlots
  <2>4. WithinLabWorks(req, booked)
    BY <2>1, <2>2, TimetableAssumption DEF WithinLabWorks
  <2>5. WithinSharedRooms(req, booked)
    BY <2>1 DEF WithinSharedRooms
  <2>6. OneLabWorkPerStand(req, booked)
    BY DEF Init, OneLabWorkPerStand
  <2>7. QED  BY <2>3, <2>4, <2>5, <2>6 DEF SeatLimits
<1>2. TypeOK /\ SeatLimits /\ [Next]_seatVars => SeatLimits'
  <2> SUFFICES ASSUME TypeOK, SeatLimits, [Next]_seatVars
               PROVE  SeatLimits'
    OBVIOUS
  <2>1. ASSUME NEW r \in Requests, Take(r)
        PROVE  SeatLimits'
    <3>1. /\ WithinSlots(req, booked \union {r})
          /\ WithinLabWorks(req, booked \union {r})
          /\ WithinSharedRooms(req, booked \union {r})
          /\ OneLabWorkPerStand(req, booked \union {r})
      BY <2>1, TakeKeepsSlots, TakeKeepsLabWorks, TakeKeepsSharedRooms, TakeKeepsStands
         DEF Take, TypeOK, SeatLimits
    <3>2. QED  BY <2>1, <3>1 DEF SeatLimits, Take
  <2>2. ASSUME NEW B \in SUBSET booked, Vacate(B)
        PROVE  SeatLimits'
    <3>1. /\ WithinSlots(req, booked \ B)
          /\ WithinLabWorks(req, booked \ B)
          /\ WithinSharedRooms(req, booked \ B)
          /\ OneLabWorkPerStand(req, booked \ B)
      BY <2>2, FewerKeepLimits DEF TypeOK, SeatLimits
    <3>2. QED  BY <2>2, <3>1 DEF SeatLimits, Vacate
  <2>3. CASE UNCHANGED seatVars
    BY <2>3 DEF seatVars, SeatLimits
  <2>4. QED  BY <2>1, <2>2, <2>3 DEF Next
<1>3. QED  BY <1>1, <1>2, SeatTypes, PTL DEF Spec
=============================================================================
