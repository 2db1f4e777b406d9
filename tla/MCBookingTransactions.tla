----------------------- MODULE MCBookingTransactions -----------------------
(***************************************************************************)
(* A small timetable for BookingTransactions.  Session 1 takes two pairs;  *)
(* 2 runs in the first of them, 3 in the second and 4 in the first.        *)
(*                                                                         *)
(*   time      0        1        2                                         *)
(*   1         [ work A, room X  )     shares the room with 2              *)
(*   2         [B, X    )              shares its stand with 4             *)
(*   3                  [A, Y    )     shares the lab work with 1          *)
(*   4         [C, Y    )                                                  *)
(*                                                                         *)
(* Each limit is the only one in the way of some requests: the slot for    *)
(* two students in 1, the lab work for one in 1 and two in 3, the room for *)
(* one in 1 and one in 2, the stand for one in 2 and one in 4.             *)
(***************************************************************************)
EXTENDS BookingTransactions, TLC

CONSTANTS r1, r2, r3, a1, A, B, C, X, Y, noStand, stand

MCStartsAt == (1 :> 0) @@ (2 :> 0) @@ (3 :> 1) @@ (4 :> 0)
MCEndsAt   == (1 :> 2) @@ (2 :> 1) @@ (3 :> 2) @@ (4 :> 1)
MCLabWorkOf == (1 :> A) @@ (2 :> B) @@ (3 :> A) @@ (4 :> C)
MCRoomOf    == (1 :> X) @@ (2 :> X) @@ (3 :> Y) @@ (4 :> Y)
MCPrimaryStand == (A :> noStand) @@ (B :> stand) @@ (C :> stand)
MCCapacity == (1 :> 1) @@ (2 :> 1) @@ (3 :> 2) @@ (4 :> 1)
MCLabWorkCapacity == (A :> 2) @@ (B :> 2) @@ (C :> 2)
MCRoomCapacity == (X :> 1) @@ (Y :> 2)

Ask(st, s, d, m) == [student |-> st, session |-> s, discipline |-> d, manual |-> m]

\* Lab works A and C belong to discipline "d", B to "e".
MCRequestData ==
  {Ask("ann", 1, "d", FALSE), Ask("bob", 1, "d", FALSE), Ask("bob", 2, "e", FALSE),
   Ask("bob", 3, "d", FALSE), Ask("cat", 2, "e", TRUE),
   Ask("cat", 3, "d", FALSE), Ask("cat", 4, "d", FALSE)}

Symmetry == Permutations(Requests)
=============================================================================
