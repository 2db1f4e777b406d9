------------------------- MODULE SeatCapacityProofs -------------------------
(***************************************************************************)
(* The limits of SeatCapacity survive a booking that MayTake allows and    *)
(* the removal of any bookings: facts about sets of bookings, for every    *)
(* timetable.                                                              *)
(***************************************************************************)
EXTENDS SeatCapacity, FiniteSetTheorems, TLAPS

-----------------------------------------------------------------------------
(* Cardinalities *)

\* A subset of a finite set is no larger.
LEMMA SmallerSet ==
  ASSUME NEW S, IsFiniteSet(S), NEW T, T \subseteq S
  PROVE  /\ IsFiniteSet(T)
         /\ Cardinality(T) \in Nat /\ Cardinality(S) \in Nat
         /\ Cardinality(T) <= Cardinality(S)
BY FS_Subset, FS_CardinalityType

\* Adding an element to a set of at most n - 1 elements leaves at most n.
LEMMA OneMore ==
  ASSUME NEW T, IsFiniteSet(T), NEW x, NEW n \in Nat, Cardinality(T) < n
  PROVE  Cardinality(T \union {x}) <= n
<1>1. Cardinality(T) \in Nat
  BY FS_CardinalityType
<1>2. Cardinality(T \union {x}) = IF x \in T THEN Cardinality(T) ELSE Cardinality(T) + 1
  BY FS_AddElement
<1>3. QED  BY <1>1, <1>2

\* Of two disjoint sets, the sum of the counts bounds any set made of both.
LEMMA SumOfCounts ==
  ASSUME NEW S, IsFiniteSet(S), NEW T, IsFiniteSet(T), S \intersect T = {},
         NEW U, U \subseteq S \union T
  PROVE  /\ IsFiniteSet(U)
         /\ Cardinality(S) \in Nat /\ Cardinality(T) \in Nat /\ Cardinality(U) \in Nat
         /\ Cardinality(U) <= Cardinality(S) + Cardinality(T)
<1>1. IsFiniteSet(S \union T)
      /\ Cardinality(S \union T) = Cardinality(S) + Cardinality(T) - Cardinality(S \intersect T)
  BY FS_Union
<1>2. Cardinality(S \intersect T) = 0
  BY FS_EmptySet
<1>3. Cardinality(S) \in Nat /\ Cardinality(T) \in Nat
  BY FS_CardinalityType
<1>4. IsFiniteSet(U) /\ Cardinality(U) \in Nat /\ Cardinality(U) <= Cardinality(S \union T)
  BY <1>1, SmallerSet
<1>5. QED  BY <1>1, <1>2, <1>3, <1>4

-----------------------------------------------------------------------------
(* Bookings *)

\* The data of a request are of their types.
LEMMA RequestTypes ==
  ASSUME NEW rows \in [Requests -> RequestData], NEW b \in Requests
  PROVE  rows[b].session \in Sessions /\ rows[b].manual \in BOOLEAN
BY RequestAssumption

\* Two sessions that run at the same moment overlap.
LEMMA RunningSessionsOverlap ==
  ASSUME NEW s \in Sessions, NEW u \in Sessions, NEW t \in Instants,
         Runs(s, t), Runs(u, t)
  PROVE  Overlaps(s, u)
BY TimetableAssumption DEF Overlaps, Runs, Instants

\* The bookings that a check counts are finite sets: those of the session
\* itself and, disjoint from them, those elsewhere.
LEMMA CountedSets ==
  ASSUME NEW rows, NEW B, B \subseteq Requests, NEW s
  PROVE  /\ IsFiniteSet(SessionBooked(rows, B, s))
         /\ IsFiniteSet(LabOther(rows, B, s))
         /\ IsFiniteSet(RoomOther(rows, B, s))
         /\ SessionBooked(rows, B, s) \intersect LabOther(rows, B, s) = {}
         /\ SessionBooked(rows, B, s) \intersect RoomOther(rows, B, s) = {}
<1>1. /\ SessionBooked(rows, B, s) \subseteq Requests
      /\ LabOther(rows, B, s) \subseteq Requests
      /\ RoomOther(rows, B, s) \subseteq Requests
  BY DEF SessionBooked, LabOther, RoomOther, Elsewhere
<1>2. QED
  BY <1>1, RequestAssumption, SmallerSet DEF SessionBooked, LabOther, RoomOther, Elsewhere

-----------------------------------------------------------------------------
(* One booking is placed *)

\* A student's own booking is counted against the session it is for.
LEMMA TakeKeepsSlots ==
  ASSUME NEW rows \in [Requests -> RequestData], NEW B, B \subseteq Requests,
         NEW r \in Requests, MayTake(rows, B, r), WithinSlots(rows, B)
  PROVE  WithinSlots(rows, B \union {r})
<1> DEFINE s == rows[r].session
           on(u) == SessionBooked(rows, SelfBooked(rows, B), u)
           onNow(u) == SessionBooked(rows, SelfBooked(rows, B \union {r}), u)
<1> SUFFICES ASSUME NEW u \in Sessions
             PROVE  Cardinality(onNow(u)) <= Capacity[u]
  BY DEF WithinSlots
<1>1. CASE rows[r].manual \/ u # s
  <2>1. onNow(u) = on(u)
    BY <1>1 DEF SessionBooked, SelfBooked
  <2>2. QED  BY <2>1 DEF WithinSlots
<1>2. CASE ~rows[r].manual /\ u = s
  <2>1. onNow(u) = on(u) \union {r}
    BY <1>2 DEF SessionBooked, SelfBooked
  <2>2. /\ IsFiniteSet(SessionBooked(rows, B, s))
        /\ on(u) \subseteq SessionBooked(rows, B, s)
    <3>1. IsFiniteSet(SessionBooked(rows, B, s))
      BY CountedSets
    <3>2. on(u) \subseteq SessionBooked(rows, B, s)
      BY <1>2 DEF SessionBooked, SelfBooked
    <3>3. QED  BY <3>1, <3>2
  <2>3. /\ IsFiniteSet(on(u)) /\ Cardinality(on(u)) \in Nat
        /\ Cardinality(SessionBooked(rows, B, s)) \in Nat
        /\ Cardinality(on(u)) <= Cardinality(SessionBooked(rows, B, s))
    <3> HIDE DEF on
    <3> QED  BY <2>2, SmallerSet
  <2>4. Capacity[u] - Cardinality(SessionBooked(rows, B, s)) > 0
    BY <1>2 DEF MayTake, HasSeat, SeatCounts
  <2>5. Capacity[u] \in Nat
    BY TimetableAssumption
  <2>6. Cardinality(on(u)) < Capacity[u]
    <3> HIDE DEF on
    <3> QED  BY <2>3, <2>4, <2>5
  <2>7. Cardinality(on(u) \union {r}) <= Capacity[u]
    <3> HIDE DEF on
    <3> QED  BY <2>3, <2>5, <2>6, OneMore
  <2>8. QED  BY <2>1, <2>7
<1>3. QED  BY <1>1, <1>2, RequestTypes

\* What runs at a moment of the new session overlaps it: the check counted it.
LEMMA TakeKeepsLabWorks ==
  ASSUME NEW rows \in [Requests -> RequestData], NEW B, B \subseteq Requests,
         NEW r \in Requests, MayTake(rows, B, r), WithinLabWorks(rows, B)
  PROVE  WithinLabWorks(rows, B \union {r})
<1> DEFINE s == rows[r].session
           own == SessionBooked(rows, B, s)
           other == LabOther(rows, B, s)
<1> SUFFICES ASSUME NEW w \in LabWorks, NEW t \in Instants
             PROVE  Cardinality(DoingAt(rows, B \union {r}, w, t)) <= LabWorkCapacity[w]
  BY DEF WithinLabWorks
<1> DEFINE at == DoingAt(rows, B, w, t)
           atNow == DoingAt(rows, B \union {r}, w, t)
<1>0. s \in Sessions /\ rows[r].manual \in BOOLEAN
  BY RequestTypes
<1>1. CASE r \notin atNow
  <2>1. atNow = at
    BY <1>1 DEF DoingAt, SelfBooked
  <2>2. QED  BY <2>1 DEF WithinLabWorks
<1>2. CASE r \in atNow
  <2>1. ~rows[r].manual /\ LabWorkOf[s] = w /\ Runs(s, t)
    BY <1>2 DEF DoingAt, SelfBooked
  <2>2. at \subseteq own \union other
    <3> SUFFICES ASSUME NEW b \in at, rows[b].session # s
                 PROVE  b \in other
      BY DEF SessionBooked, DoingAt, SelfBooked
    <3>1. b \in B /\ Runs(rows[b].session, t) /\ LabWorkOf[rows[b].session] = w
      BY DEF DoingAt, SelfBooked
    <3>2. Overlaps(rows[b].session, s)
      BY <1>0, <2>1, <3>1, RequestTypes, RunningSessionsOverlap
    <3>3. QED  BY <2>1, <3>1, <3>2 DEF LabOther, Elsewhere
  <2>3. atNow = at \union {r}
    BY <1>2 DEF DoingAt, SelfBooked
  <2>4. IsFiniteSet(own) /\ IsFiniteSet(other) /\ own \intersect other = {}
    BY CountedSets
  <2>5. LabWorkCapacity[w] - Cardinality(other) - Cardinality(own) > 0
    BY <2>1 DEF MayTake, HasSeat, SeatCounts
  <2>6. LabWorkCapacity[w] \in Nat
    BY TimetableAssumption
  <2> HIDE DEF at, atNow, own, other
  <2>7. IsFiniteSet(at) /\ Cardinality(at) < LabWorkCapacity[w]
    BY <2>2, <2>4, <2>5, <2>6, SumOfCounts
  <2>8. Cardinality(at \union {r}) <= LabWorkCapacity[w]
    BY <2>6, <2>7, OneMore
  <2>9. QED  BY <2>3, <2>8 DEF atNow
<1>3. QED  BY <1>1, <1>2

\* Either the new session is alone in the room, or the check counted the others.
LEMMA TakeKeepsSharedRooms ==
  ASSUME NEW rows \in [Requests -> RequestData], NEW B, B \subseteq Requests,
         NEW r \in Requests, MayTake(rows, B, r), WithinSharedRooms(rows, B)
  PROVE  WithinSharedRooms(rows, B \union {r})
<1> DEFINE s == rows[r].session
           own == SessionBooked(rows, B, s)
           other == RoomOther(rows, B, s)
<1> SUFFICES ASSUME NEW m \in Rooms, NEW t \in Instants
             PROVE  \/ Cardinality(InRoomAt(rows, B \union {r}, m, t)) <= RoomCapacity[m]
                    \/ \A b, c \in InRoomAt(rows, B \union {r}, m, t) :
                         rows[b].session = rows[c].session
  BY DEF WithinSharedRooms
<1> DEFINE at == InRoomAt(rows, B, m, t)
           atNow == InRoomAt(rows, B \union {r}, m, t)
<1>0. s \in Sessions /\ rows[r].manual \in BOOLEAN
  BY RequestTypes
<1>1. CASE r \notin atNow
  <2>1. atNow = at
    BY <1>1 DEF InRoomAt, SelfBooked
  <2>2. QED  BY <2>1 DEF WithinSharedRooms
<1>2. CASE r \in atNow
  <2>1. ~rows[r].manual /\ RoomOf[s] = m /\ Runs(s, t)
    BY <1>2 DEF InRoomAt, SelfBooked
  <2>2. at \subseteq own \union other
    <3> SUFFICES ASSUME NEW b \in at, rows[b].session # s
                 PROVE  b \in other
      BY DEF SessionBooked, InRoomAt, SelfBooked
    <3>1. b \in B /\ Runs(rows[b].session, t) /\ RoomOf[rows[b].session] = m
      BY DEF InRoomAt, SelfBooked
    <3>2. Overlaps(rows[b].session, s)
      BY <1>0, <2>1, <3>1, RequestTypes, RunningSessionsOverlap
    <3>3. QED  BY <2>1, <3>1, <3>2 DEF RoomOther, Elsewhere
  <2>3. atNow = at \union {r}
    BY <1>2 DEF InRoomAt, SelfBooked
  <2>4. IsFiniteSet(own) /\ IsFiniteSet(other) /\ own \intersect other = {}
    BY CountedSets
  <2>5. CASE Cardinality(other) = 0
    <3>1. other = {}
      BY <2>4, <2>5, FS_EmptySet
    <3>2. \A b \in atNow : rows[b].session = s
      BY <2>2, <2>3, <3>1 DEF SessionBooked
    <3>3. QED  BY <3>2
  <2>6. CASE Cardinality(other) # 0
    <3>1. RoomCapacity[m] - Cardinality(other) - Cardinality(own) > 0
      BY <2>1, <2>6 DEF MayTake, HasSeat, SeatCounts
    <3>2. RoomCapacity[m] \in Nat
      BY TimetableAssumption
    <3> HIDE DEF at, atNow, own, other
    <3>3. IsFiniteSet(at) /\ Cardinality(at) < RoomCapacity[m]
      BY <2>2, <2>4, <3>1, <3>2, SumOfCounts
    <3>4. Cardinality(at \union {r}) <= RoomCapacity[m]
      BY <3>2, <3>3, OneMore
    <3>5. QED  BY <2>3, <3>4 DEF atNow
  <2>7. QED  BY <2>5, <2>6
<1>3. QED  BY <1>1, <1>2

\* The stand check sees every booking, whichever side of the pair it is.
LEMMA TakeKeepsStands ==
  ASSUME NEW rows \in [Requests -> RequestData], NEW B, B \subseteq Requests,
         NEW r \in Requests, MayTake(rows, B, r), OneLabWorkPerStand(rows, B)
  PROVE  OneLabWorkPerStand(rows, B \union {r})
<1> DEFINE s == rows[r].session
<1>1. ~StandBlocked(rows, B, s)
  BY DEF MayTake
<1>2. \A b \in B : SharesStand(s, rows[b].session) /\ Overlaps(rows[b].session, s)
                   => LabWorkOf[rows[b].session] = LabWorkOf[s]
  BY <1>1 DEF StandBlocked
<1>3. \A b \in B : Overlaps(s, rows[b].session) => Overlaps(rows[b].session, s)
  BY RequestTypes, TimetableAssumption DEF Overlaps
<1>4. \A b \in B : SharesStand(rows[b].session, s) => SharesStand(s, rows[b].session)
  BY DEF SharesStand
<1>5. QED  BY <1>2, <1>3, <1>4 DEF OneLabWorkPerStand

-----------------------------------------------------------------------------
(* Bookings give their seats back *)

\* Fewer bookings break no limit.
LEMMA FewerKeepLimits ==
  ASSUME NEW rows \in [Requests -> RequestData], NEW B, B \subseteq Requests,
         NEW C, C \subseteq B
  PROVE  /\ WithinSlots(rows, B) => WithinSlots(rows, C)
         /\ WithinLabWorks(rows, B) => WithinLabWorks(rows, C)
         /\ WithinSharedRooms(rows, B) => WithinSharedRooms(rows, C)
         /\ OneLabWorkPerStand(rows, B) => OneLabWorkPerStand(rows, C)
<1>1. ASSUME NEW s \in Sessions, WithinSlots(rows, B)
      PROVE  Cardinality(SessionBooked(rows, SelfBooked(rows, C), s)) <= Capacity[s]
  <2>1. /\ IsFiniteSet(SessionBooked(rows, SelfBooked(rows, B), s))
        /\ SessionBooked(rows, SelfBooked(rows, C), s)
             \subseteq SessionBooked(rows, SelfBooked(rows, B), s)
    <3>1. SelfBooked(rows, B) \subseteq Requests
      BY DEF SelfBooked
    <3>2. IsFiniteSet(SessionBooked(rows, SelfBooked(rows, B), s))
      BY <3>1, CountedSets
    <3>3. SessionBooked(rows, SelfBooked(rows, C), s)
            \subseteq SessionBooked(rows, SelfBooked(rows, B), s)
      BY DEF SessionBooked, SelfBooked
    <3>4. QED  BY <3>2, <3>3
  <2>2. Cardinality(SessionBooked(rows, SelfBooked(rows, B), s)) <= Capacity[s]
    BY <1>1 DEF WithinSlots
  <2>3. QED  BY <2>1, <2>2, SmallerSet, TimetableAssumption
<1>2. ASSUME NEW w \in LabWorks, NEW t \in Instants, WithinLabWorks(rows, B)
      PROVE  Cardinality(DoingAt(rows, C, w, t)) <= LabWorkCapacity[w]
  <2>1. /\ DoingAt(rows, B, w, t) \subseteq Requests
        /\ DoingAt(rows, C, w, t) \subseteq DoingAt(rows, B, w, t)
    BY DEF DoingAt, SelfBooked
  <2>2. Cardinality(DoingAt(rows, B, w, t)) <= LabWorkCapacity[w]
    BY <1>2 DEF WithinLabWorks
  <2>3. QED  BY <2>1, <2>2, RequestAssumption, SmallerSet, TimetableAssumption
<1>3. ASSUME NEW m \in Rooms, NEW t \in Instants, WithinSharedRooms(rows, B)
      PROVE  \/ Cardinality(InRoomAt(rows, C, m, t)) <= RoomCapacity[m]
             \/ \A b, c \in InRoomAt(rows, C, m, t) : rows[b].session = rows[c].session
  <2>1. /\ InRoomAt(rows, B, m, t) \subseteq Requests
        /\ InRoomAt(rows, C, m, t) \subseteq InRoomAt(rows, B, m, t)
    BY DEF InRoomAt, SelfBooked
  <2>2. \/ Cardinality(InRoomAt(rows, B, m, t)) <= RoomCapacity[m]
        \/ \A b, c \in InRoomAt(rows, B, m, t) : rows[b].session = rows[c].session
    BY <1>3 DEF WithinSharedRooms
  <2>3. CASE Cardinality(InRoomAt(rows, B, m, t)) <= RoomCapacity[m]
    BY <2>1, <2>3, RequestAssumption, SmallerSet, TimetableAssumption
  <2>4. CASE \A b, c \in InRoomAt(rows, B, m, t) : rows[b].session = rows[c].session
    BY <2>1, <2>4
  <2>5. QED  BY <2>2, <2>3, <2>4
<1>4. OneLabWorkPerStand(rows, B) => OneLabWorkPerStand(rows, C)
  BY DEF OneLabWorkPerStand
<1>5. QED
  BY <1>1, <1>2, <1>3, <1>4 DEF WithinSlots, WithinLabWorks, WithinSharedRooms

NoMore(k, n) == k.session <= n.session /\ k.lab <= n.lab /\ k.room <= n.room

\* Counts are natural numbers, and they only drop when bookings go.
LEMMA FewerCounted ==
  ASSUME NEW rows, NEW B, B \subseteq Requests, NEW C, C \subseteq B, NEW s
  PROVE  /\ SeatCounts(rows, B, s) \in [session : Nat, lab : Nat, room : Nat]
         /\ NoMore(SeatCounts(rows, C, s), SeatCounts(rows, B, s))
<1>1. /\ SessionBooked(rows, C, s) \subseteq SessionBooked(rows, B, s)
      /\ LabOther(rows, C, s) \subseteq LabOther(rows, B, s)
      /\ RoomOther(rows, C, s) \subseteq RoomOther(rows, B, s)
  BY DEF SessionBooked, LabOther, RoomOther, Elsewhere
<1>2. QED  BY <1>1, CountedSets, SmallerSet, FS_CardinalityType DEF SeatCounts, NoMore

\* A seat that is free at some counts is free at lower ones.
LEMMA FewerLeaveSeat ==
  ASSUME NEW s \in Sessions,
         NEW n \in [session : Nat, lab : Nat, room : Nat],
         NEW k \in [session : Nat, lab : Nat, room : Nat], NoMore(k, n), HasSeat(s, n)
  PROVE  HasSeat(s, k)
<1>1. /\ Capacity[s] \in Nat
      /\ LabWorkCapacity[LabWorkOf[s]] \in Nat
      /\ RoomCapacity[RoomOf[s]] \in Nat
  BY TimetableAssumption
<1>2. QED  BY <1>1 DEF NoMore, HasSeat

\* A booking that may be placed next to B may be placed next to any part of B.
LEMMA FewerKeepMayTake ==
  ASSUME NEW rows \in [Requests -> RequestData], NEW B, B \subseteq Requests,
         NEW C, C \subseteq B, NEW r \in Requests, MayTake(rows, B, r)
  PROVE  MayTake(rows, C, r)
<1> DEFINE s == rows[r].session
<1>1. ~StandBlocked(rows, C, s)
  BY DEF MayTake, StandBlocked
<1>2. ASSUME ~rows[r].manual
      PROVE  HasSeat(s, SeatCounts(rows, C, s))
  <2>1. HasSeat(s, SeatCounts(rows, B, s))
    BY <1>2 DEF MayTake
  <2>2. C \subseteq Requests
    OBVIOUS
  <2>3. QED  BY <2>1, <2>2, FewerCounted, FewerLeaveSeat, RequestTypes
<1>3. QED  BY <1>1, <1>2 DEF MayTake
=============================================================================
