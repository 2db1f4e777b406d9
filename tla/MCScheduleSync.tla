--------------------------- MODULE MCScheduleSync ---------------------------
(***************************************************************************)
(* Three sessions: lab works A and B on Monday, A on Tuesday.              *)
(***************************************************************************)
EXTENDS ScheduleSync, TLC

CONSTANTS A, B

MCDayOf == (1 :> 1) @@ (2 :> 1) @@ (3 :> 2)
MCWorkOf == (1 :> A) @@ (2 :> B) @@ (3 :> A)
MCWorkCap == (A :> 1) @@ (B :> 2)

MCForm(day, works, cap) == [day |-> day, works |-> works, cap |-> cap]

MCForms == {MCForm(1, {A, B}, 2), MCForm(1, {B}, 1), MCForm(2, {A}, 2)}

WorkerSymmetry == Permutations(Workers)
=============================================================================
