---------------------------- MODULE MCAttendance ----------------------------
(***************************************************************************)
(* One student in one laboratory: three bookings in an ended session and a *)
(* threshold of two no-shows, so that a correction can leave the count     *)
(* above, at or below it.                                                  *)
(***************************************************************************)
EXTENDS Attendance, TLC

CONSTANTS b1, b2, b3, s1, ann

MCSessionOf == [b \in Bookings |-> s1]
MCAccountOf == [b \in Bookings |-> ann]
=============================================================================
