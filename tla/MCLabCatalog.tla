---------------------------- MODULE MCLabCatalog ----------------------------
(***************************************************************************)
(* From Saturday to the Tuesday that is 1 September (day 8; day 7 is its   *)
(* Monday, the last of an even week, day 8 belongs to the first, odd, one).*)
(* Lab work A has one discipline, B two.  Room r1 belongs to laboratory 1, *)
(* which has settings of its own, r2 to none.                              *)
(***************************************************************************)
EXTENDS LabCatalog, TLC

CONSTANTS ann, bob, head, adm, teacher, g1, g2, A, B, r1, r2, c1, c2, stand

MCGroupOf == ann :> g1 @@ bob :> g2
MCPlan == g1 :> {} @@ g2 :> {1, 2}
MCPlanWorks == g1 :> {B} @@ g2 :> {}
MCLoad == g1 :> {1} @@ g2 :> {}
MCDisciplines == A :> {1} @@ B :> {1, 2}
MCLabsOfWork == A :> {1} @@ B :> {1, 2}
MCCenterOfLab == 1 :> c1 @@ 2 :> c2
MCCenterOfRoom == r1 :> c1 @@ r2 :> c1
MCRole == head :> "LAB_HEAD" @@ adm :> "LAB_ADMIN" @@ teacher :> "TEACHER"
MCLabOf == head :> 1 @@ adm :> NoLab @@ teacher :> 1
MCCenterOf == head :> c1 @@ adm :> c1 @@ teacher :> c1
MCSameFaculty == {<<1, 1>>}
MCBound == {<<1, 1>>, <<2, 2>>}
MCRoomLab == r1 :> 1 @@ r2 :> NoLab

MCSeptemberFirsts == {-358, 8}
MCSettings == 1 :> [horizon |-> 3, cancel |-> Null, base |-> Time(9, 0), hours |-> 11,
                    mode |-> "AT_22_00"]

\* Saturday; after the deadline for Monday; at the deadline for Tuesday; in the first pair
MCMoments == {At(5, Time(12, 0)), At(6, Time(23, 0)), At(7, Time(22, 0)), At(8, Time(9, 10))}

MCSize(cap, duration) == [cap |-> cap, duration |-> duration]
MCSizeAtFirst == A :> MCSize(1, 45) @@ B :> MCSize(2, 60)
MCSizes == {MCSize(1, 45), MCSize(2, 45), MCSize(2, 60)}
MCRoomCap == r1 :> 2 @@ r2 :> 1
MCStand == A :> stand @@ B :> stand

\* On Mondays of even weeks in the second pair, on Tuesdays in the first, on Tuesdays
\* of odd weeks over the end of the fifth, where group g2 is with its teacher
MCEntries == <<
  [room |-> r1, weekday |-> 0, parity |-> "EVEN", start |-> Time(10, 35), duration |-> 45,
   picks |-> (1 :> {A}), cap |-> 2, group |-> NoGroup],
  [room |-> r1, weekday |-> 1, parity |-> "BOTH", start |-> Time(8, 50), duration |-> 60,
   picks |-> (1 :> {}), cap |-> 2, group |-> NoGroup],
  [room |-> r2, weekday |-> 1, parity |-> "ODD", start |-> Time(16, 10), duration |-> 90,
   picks |-> (2 :> {B}), cap |-> 2, group |-> g2]>>
=============================================================================
