-------------------------- MODULE MCSupportTickets --------------------------
(***************************************************************************)
(* One ticket, a student, two members of staff of whom one has no access   *)
(* to the centre.  A day has four moments; the run begins on a Friday      *)
(* and goes on until Tuesday.                                              *)
(***************************************************************************)
EXTENDS SupportTickets, TLC

CONSTANTS ann, admin, stranger, c1, c2, r1, r2

MCReachable == ann :> {c1}
MCCenterOf == (admin :> c1) @@ (stranger :> c2)

ThreadSymmetry == Permutations(Requests)
=============================================================================
