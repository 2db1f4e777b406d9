----------------------------- MODULE MCWaitlist -----------------------------
(***************************************************************************)
(* The instances of Waitlist: a session of two seats with two students,    *)
(* whose three rows let a position repeat, and two workers, whose          *)
(* promotions may meet on one row; and a session of one seat with four     *)
(* students and one worker.                                                *)
(***************************************************************************)
EXTENDS Waitlist, TLC
=============================================================================
