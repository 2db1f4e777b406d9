--------------------------- MODULE SeatAllocation ---------------------------
(***************************************************************************)
(* What the booking service promises about seats, with no transactions in  *)
(* sight: a booking is placed in one step, against the bookings of that    *)
(* very moment, and any set of bookings may give its seats back.           *)
(***************************************************************************)
EXTENDS SeatCapacity

VARIABLES
  req,      \* what each request asks for
  booked    \* the requests whose booking is BOOKED

seatVars == <<req, booked>>

Init ==
  /\ req \in [Requests -> RequestData]
  /\ booked = {}

Take(r) ==
  /\ r \notin booked
  /\ MayTake(req, booked, r)
  /\ booked' = booked \union {r}
  /\ UNCHANGED req

Vacate(B) ==
  /\ booked' = booked \ B
  /\ UNCHANGED req

Next ==
  \/ \E r \in Requests : Take(r)
  \/ \E B \in SUBSET booked : Vacate(B)

Spec == Init /\ [][Next]_seatVars

-----------------------------------------------------------------------------
TypeOK ==
  /\ req \in [Requests -> RequestData]
  /\ booked \subseteq Requests

SeatLimits ==
  /\ WithinSlots(req, booked)
  /\ WithinLabWorks(req, booked)
  /\ WithinSharedRooms(req, booked)
  /\ OneLabWorkPerStand(req, booked)

=============================================================================
