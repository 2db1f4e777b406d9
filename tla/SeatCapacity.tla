---------------------------- MODULE SeatCapacity ----------------------------
(***************************************************************************)
(* The seat arithmetic shared by the booking checks and the catalog        *)
(* (apps/bookings/services/seat_capacity.py) over a fixed timetable of lab *)
(* sessions, and the booking requests made against it.                     *)
(*                                                                         *)
(* A request is also the id of the booking it makes: rows[b].session is    *)
(* the session of booking b, and B is always the set of the bookings that  *)
(* are BOOKED.                                                             *)
(***************************************************************************)
EXTENDS Integers, FiniteSets

CONSTANTS
  Sessions,          \* primary keys of LabSession rows: locks are taken in this order
  LabWorks, Rooms,
  NoStand,           \* the value of a null primary_stand
  StartsAt, EndsAt,  \* the half-open interval of a session
  LabWorkOf, RoomOf, \* foreign keys of a session
  PrimaryStand,      \* the stand of a lab work, or NoStand
  Capacity,          \* seats of a session
  LabWorkCapacity,   \* seats of a lab work over overlapping sessions
  RoomCapacity,      \* seats of a room over overlapping sessions
  Requests,          \* booking requests
  RequestData        \* what a request may ask: [session, manual, ...]

ASSUME TimetableAssumption ==
  /\ Sessions \subseteq Int /\ IsFiniteSet(Sessions)
  /\ StartsAt \in [Sessions -> Int] /\ EndsAt \in [Sessions -> Int]
  /\ \A s \in Sessions : StartsAt[s] < EndsAt[s]
  /\ LabWorkOf \in [Sessions -> LabWorks] /\ RoomOf \in [Sessions -> Rooms]
  /\ Capacity \in [Sessions -> Nat]
  /\ LabWorkCapacity \in [LabWorks -> Nat]
  /\ RoomCapacity \in [Rooms -> Nat]

ASSUME RequestAssumption ==
  /\ IsFiniteSet(Requests)
  /\ \A d \in RequestData : d.session \in Sessions /\ d.manual \in BOOLEAN

StandOf(s) == PrimaryStand[LabWorkOf[s]]

\* starts_at < other.ends_at and ends_at > other.starts_at
Overlaps(s, u) == StartsAt[s] < EndsAt[u] /\ EndsAt[s] > StartsAt[u]

SharesStand(s, u) == StandOf(s) # NoStand /\ StandOf(s) = StandOf(u)

(***************************************************************************)
(* session_seat_counts: the bookings of the session, those of the same lab *)
(* work and of the same room on other overlapping sessions, and whether    *)
(* another lab work occupies the stand.                                    *)
(***************************************************************************)
SessionBooked(rows, B, s) == {b \in B : rows[b].session = s}

Elsewhere(rows, B, s) ==
  {b \in B : rows[b].session # s /\ Overlaps(rows[b].session, s)}

LabOther(rows, B, s) ==
  {b \in Elsewhere(rows, B, s) : LabWorkOf[rows[b].session] = LabWorkOf[s]}

RoomOther(rows, B, s) ==
  {b \in Elsewhere(rows, B, s) : RoomOf[rows[b].session] = RoomOf[s]}

StandBlocked(rows, B, s) ==
  \E b \in B :
    /\ SharesStand(s, rows[b].session)
    /\ Overlaps(rows[b].session, s)
    /\ LabWorkOf[rows[b].session] # LabWorkOf[s]

SeatCounts(rows, B, s) ==
  [session |-> Cardinality(SessionBooked(rows, B, s)),
   lab     |-> Cardinality(LabOther(rows, B, s)),
   room    |-> Cardinality(RoomOther(rows, B, s))]

\* Defect: the lab work's bookings on other sessions are left out.
HasSeatIgnoringLabOther(s, n) ==
  /\ Capacity[s] - n.session > 0
  /\ LabWorkCapacity[LabWorkOf[s]] - n.session > 0
  /\ n.room # 0 => RoomCapacity[RoomOf[s]] - n.room - n.session > 0

\* Defect: >= 0 instead of > 0.
HasSeatOffByOne(s, n) ==
  /\ Capacity[s] - n.session >= 0
  /\ LabWorkCapacity[LabWorkOf[s]] - n.lab - n.session > 0
  /\ n.room # 0 => RoomCapacity[RoomOf[s]] - n.room - n.session > 0

(***************************************************************************)
(* seat_remainings and the comparisons of _enforce_capacity_limits.  A     *)
(* room limits the session only once an overlapping session in the same    *)
(* room has bookings of its own.                                           *)
(***************************************************************************)
HasSeat(s, n) ==
  /\ Capacity[s] - n.session > 0
  /\ LabWorkCapacity[LabWorkOf[s]] - n.lab - n.session > 0
  /\ n.room # 0 => RoomCapacity[RoomOf[s]] - n.room - n.session > 0

(***************************************************************************)
(* A student's booking obeys every limit, a manual one only the stand.     *)
(***************************************************************************)
MayTake(rows, B, r) ==
  LET s == rows[r].session IN
  /\ ~StandBlocked(rows, B, s)
  /\ ~rows[r].manual => HasSeat(s, SeatCounts(rows, B, s))

-----------------------------------------------------------------------------
(* What the limits mean for a set B of bookings *)

\* The bookings students made themselves: staff may exceed the seats on purpose.
SelfBooked(rows, B) == {b \in B : ~rows[b].manual}

\* The fullest moments: only at the start of a session do more sessions run.
Instants == {StartsAt[s] : s \in Sessions}

Runs(s, t) == StartsAt[s] <= t /\ t < EndsAt[s]

WithinSlots(rows, B) ==
  \A s \in Sessions : Cardinality(SessionBooked(rows, SelfBooked(rows, B), s)) <= Capacity[s]

DoingAt(rows, B, w, t) ==
  {b \in SelfBooked(rows, B) : Runs(rows[b].session, t) /\ LabWorkOf[rows[b].session] = w}

WithinLabWorks(rows, B) ==
  \A w \in LabWorks, t \in Instants :
    Cardinality(DoingAt(rows, B, w, t)) <= LabWorkCapacity[w]

InRoomAt(rows, B, m, t) ==
  {b \in SelfBooked(rows, B) : Runs(rows[b].session, t) /\ RoomOf[rows[b].session] = m}

\* One session alone in a room is not limited by the room.
WithinSharedRooms(rows, B) ==
  \A m \in Rooms, t \in Instants :
    \/ Cardinality(InRoomAt(rows, B, m, t)) <= RoomCapacity[m]
    \/ \A b, c \in InRoomAt(rows, B, m, t) : rows[b].session = rows[c].session

OneLabWorkPerStand(rows, B) ==
  \A b, c \in B :
    LET s == rows[b].session
        u == rows[c].session
    IN  SharesStand(s, u) /\ Overlaps(s, u) => LabWorkOf[s] = LabWorkOf[u]

=============================================================================
