-------------------------- MODULE LabCatalogProofs --------------------------
(***************************************************************************)
(* What holds of the catalogs and of the booking service for every         *)
(* timetable, every academic plan and every set of people.  The catalog    *)
(* and the service read the same rows, so that most of it follows from the *)
(* types of the rows; two parts need more: what the generator makes        *)
(* (dates, pairs, parity), and how the seats are counted.                  *)
(***************************************************************************)
EXTENDS LabCatalog, FiniteSetTheorems, SequenceTheorems, WellFoundedInduction, TLAPS

SessionKeys == [work : Works, room : Rooms, start : Nat]

SessionRows == [cap : Nat \ {0}, end : Nat, status : {"OPEN", "CLOSED", "CANCELLED"}]

BookingStatus == {"BOOKED", "VISITED", "CANCELLED", "SLOT_CANCELLED"}

BookingRows(keys) ==
  [student : Students, session : keys, discipline : Disciplines,
   by : Staff \union {Self}, status : BookingStatus]

\* The rows of LabSession and of Booking, whatever else the program keeps
SessionTypes ==
  /\ DOMAIN session \subseteq SessionKeys
  /\ \A s \in DOMAIN session : session[s] \in SessionRows

BookingTypes == bookings \in Seq(BookingRows(DOMAIN session))

DataTypes ==
  /\ now \in Moments
  /\ size \in [Works -> Sizes] /\ roomCap \in [Rooms -> RoomCapacities]
  /\ holidays \subseteq HolidayDates /\ blocked \subseteq Rooms
  /\ edits \in 0 .. MaxChanges - Len(bookings)

Types == DataTypes /\ ScopeTypeOK /\ SessionTypes /\ BookingTypes

-----------------------------------------------------------------------------
(* Numbers *)

\* Min of a finite set of naturals is one of them.
LEMMA Least ==
  ASSUME NEW S, S \subseteq Nat, IsFiniteSet(S), S # {}
  PROVE  Min(S) \in S /\ \A n \in S : Min(S) <= n
<1> DEFINE Below(n) == {u \in S : u < n}
           Bottoms == {Below(n) : n \in S}
<1>1. IsWellFoundedOn(StrictSubsetOrdering(S), SUBSET S)
  BY FS_StrictSubsetOrderingWellFounded, FS_FiniteSubsetsOfFinite
<1>2. Bottoms \subseteq SUBSET S /\ Bottoms # {}
  OBVIOUS
<1>3. PICK x \in Bottoms : \A y \in Bottoms : <<y, x>> \notin StrictSubsetOrdering(S)
  <2> HIDE DEF Bottoms
  <2>1. QED  BY <1>1, <1>2, WFMin
<1>4. PICK m \in S : x = Below(m)
  BY <1>3
<1>5. ASSUME NEW n \in S, ~(m <= n) PROVE FALSE
  <2>1. n \in Nat /\ m \in Nat /\ n < m
    BY <1>5
  <2>2. ASSUME NEW u \in Below(n) PROVE u \in Below(m)
    <3>1. u \in S /\ u \in Nat /\ u < n
      OBVIOUS
    <3>2. u < m
      BY <2>1, <3>1
    <3>3. QED  BY <3>1, <3>2
  <2>3. n \in Below(m) /\ n \notin Below(n)
    BY <2>1
  <2>4. <<Below(n), Below(m)>> \in StrictSubsetOrdering(S)
    BY <2>2, <2>3 DEF StrictSubsetOrdering
  <2>5. QED  BY <1>3, <1>4, <2>4
<1>6. \E m1 \in S : \A n \in S : m1 <= n
  BY <1>5
<1>7. QED  BY <1>6 DEF Min

\* The smaller of two numbers
LEMMA MinOfTwo ==
  ASSUME NEW a \in Int, NEW b \in Int
  PROVE  Min({a, b}) \in {a, b} /\ Min({a, b}) <= a /\ Min({a, b}) <= b
<1>1. \E x \in {a, b} : \A y \in {a, b} : x <= y
  <2>1. CASE a <= b  BY <2>1
  <2>2. CASE b <= a  BY <2>2
  <2>3. QED  BY <2>1, <2>2
<1>2. QED  BY <1>1 DEF Min

\* The smallest of three numbers
LEMMA MinOfThree ==
  ASSUME NEW a \in Int, NEW b \in Int, NEW c \in Int
  PROVE  /\ Min({a, b, c}) \in {a, b, c}
         /\ Min({a, b, c}) <= a /\ Min({a, b, c}) <= b /\ Min({a, b, c}) <= c
<1>1. \E x \in {a, b, c} : \A y \in {a, b, c} : x <= y
  <2>1. CASE a <= b /\ a <= c  BY <2>1
  <2>2. CASE b <= a /\ b <= c  BY <2>2
  <2>3. CASE c <= a /\ c <= b  BY <2>3
  <2>4. QED  BY <2>1, <2>2, <2>3
<1>2. QED  BY <1>1 DEF Min

\* The larger of two numbers
LEMMA MaxOfTwo ==
  ASSUME NEW a \in Int, NEW b \in Int
  PROVE  Max({a, b}) \in {a, b} /\ Max({a, b}) >= a /\ Max({a, b}) >= b
<1>1. \E x \in {a, b} : \A y \in {a, b} : x >= y
  <2>1. CASE a <= b  BY <2>1
  <2>2. CASE b <= a  BY <2>2
  <2>3. QED  BY <2>1, <2>2
<1>2. QED  BY <1>1 DEF Max

\* A day and a minute of it are found again in the moment they make.
LEMMA Clock ==
  ASSUME NEW day \in Int, NEW m \in 0 .. DayMinutes - 1
  PROVE  DateOf(At(day, m)) = day /\ MinuteOf(At(day, m)) = m
BY DEF DateOf, MinuteOf, At, DayMinutes

\* A start time of pair_start_times_for_duration lies on the grid of a pair, and the
\* session ends within that pair.
LEMMA StartsFit ==
  ASSUME NEW d \in {30, 45, 60, 90}, NEW m \in StartTimes(d)
  PROVE  /\ m \in Nat /\ m + d < DayMinutes
         /\ \E p \in PairsAt(m) : (m - p.from) % GridMinutes = 0 /\ m + d <= p.to
<1>1. PICK p \in Pairs : /\ d <= p.to - p.from
                         /\ \E k \in 0 .. (p.to - p.from - d) \div 15 : m = p.from + 15 * k
  BY DEF StartTimes, GridMinutes
<1>2. PICK f, t : f = p.from /\ t = p.to
  OBVIOUS
<1>3. f \in 0..1439 /\ t \in 0..1439 /\ d \in 1..90
  BY <1>2 DEF Pairs, Time
<1>4. PICK k \in 0 .. (t - f - d) \div 15 : d <= t - f /\ m = f + 15 * k
  BY <1>1, <1>2
<1>5. k \in Nat /\ 15 * k <= t - f - d
  BY <1>3, <1>4
<1>6. m \in Nat /\ f <= m /\ m + d <= t
  BY <1>3, <1>4, <1>5
<1>7. m < t /\ m + d < DayMinutes
  BY <1>3, <1>6 DEF DayMinutes
<1>8. (m - f) % GridMinutes = 0
  <2>1. m - f = 15 * k
    BY <1>3, <1>4, <1>5
  <2>2. (15 * k) % 15 = 0
    BY <1>5
  <2>3. QED  BY <2>1, <2>2 DEF GridMinutes
<1>9. p \in PairsAt(m)
  BY <1>2, <1>6, <1>7 DEF PairsAt
<1>10. QED  BY <1>2, <1>6, <1>7, <1>8, <1>9

-----------------------------------------------------------------------------
(* The generator *)

\* The sizes that lab works can have
LEMMA SizesFit ==
  ASSUME Types, NEW w \in Works
  PROVE  size[w].cap \in Nat \ {0} /\ size[w].duration \in {30, 45, 60, 90}
<1>1. size[w] \in Sizes
  BY DEF Types, DataTypes
<1>2. QED  BY <1>1, CatalogAssumption

\* The seats that an entry gives to a session
LEMMA CapacityFits ==
  ASSUME NEW i \in DOMAIN Entries, NEW cap \in Nat \ {0}
  PROVE  GeneratedCapacity(i, cap) \in Nat \ {0}
<1>1. Entries[i].cap \in Nat \ {0}
  BY CatalogAssumption
<1>2. PICK c : c = Entries[i].cap
  OBVIOUS
<1>3. Min({c, cap}) \in {c, cap}
  <2>1. c \in Int /\ cap \in Int
    BY <1>1, <1>2
  <2>2. QED  BY <2>1, MinOfTwo
<1>4. QED  BY <1>1, <1>2, <1>3 DEF GeneratedCapacity

\* The lab works of an entry are lab works.
LEMMA EntryWorks ==
  ASSUME NEW i \in DOMAIN Entries
  PROVE  WorksOf(Entries[i]) \subseteq Works
<1>1. \A d \in DOMAIN Entries[i].picks : Entries[i].picks[d] \subseteq Works
  BY CatalogAssumption
<1>2. QED  BY <1>1 DEF WorksOf

\* A slot of an entry, whatever the day: when it begins and what the entry says of it
LEMMA SlotFits ==
  ASSUME Types, NEW i \in DOMAIN Entries, NEW day \in Nat, NEW s \in SlotsOf(i, day)
  PROVE  /\ s \in SessionKeys
         /\ DateOf(s.start) = day
         /\ MinuteOf(s.start) \in StartTimes(size[s.work].duration)
         /\ s.room = Entries[i].room /\ s.work \in WorksOf(Entries[i])
         /\ Entries[i].weekday = WeekdayOf(day) /\ ParityMatches(Entries[i].parity, day)
         /\ Entries[i].start <= MinuteOf(s.start)
         /\ MinuteOf(s.start) + size[s.work].duration <= Entries[i].start + Entries[i].duration
<1> DEFINE e == Entries[i]
<1>1. /\ e.weekday = WeekdayOf(day) /\ ParityMatches(e.parity, day)
      /\ s \in SessionsAt(e, day)
  BY DEF SlotsOf
<1>2. PICK w \in WorksOf(e) : \E m \in StartsWithin(e, w) :
        s = [work |-> w, room |-> e.room, start |-> At(day, m)]
  BY <1>1 DEF SessionsAt
<1>3. PICK m \in StartsWithin(e, w) : s = [work |-> w, room |-> e.room, start |-> At(day, m)]
  BY <1>2
<1>4. w \in Works /\ e.room \in Rooms
  BY EntryWorks, CatalogAssumption
<1>5. size[w].duration \in {30, 45, 60, 90}
  BY <1>4, SizesFit
<1>6. /\ m \in StartTimes(size[w].duration)
      /\ e.start <= m /\ m + size[w].duration <= e.start + e.duration
  BY <1>5 DEF StartsWithin, StartsByDuration
<1>7. m \in Nat /\ m + size[w].duration < DayMinutes
  BY <1>5, <1>6, StartsFit
<1>8. m \in 0 .. DayMinutes - 1
  BY <1>5, <1>7 DEF DayMinutes
<1>9. DateOf(At(day, m)) = day /\ MinuteOf(At(day, m)) = m
  BY <1>8, Clock
<1>10. At(day, m) \in Nat
  BY <1>7 DEF At, DayMinutes
<1>11. s.work = w /\ s.room = e.room /\ s.start = At(day, m)
  BY <1>3
<1>12. s \in SessionKeys
  BY <1>3, <1>4, <1>10 DEF SessionKeys
<1>13. QED  BY <1>1, <1>2, <1>6, <1>9, <1>11, <1>12

\* Today is a natural number.
LEMMA Today ==
  ASSUME Types
  PROVE  now \in Nat /\ DateOf(now) \in Nat
<1>1. now \in Nat
  BY CatalogAssumption DEF Types, DataTypes
<1>2. QED  BY <1>1 DEF DateOf, DayMinutes

\* generate_lab_sessions keeps what exists, and what it adds is a slot of the entry
\* that gives the capacity, on a day that is no holiday.
LEMMA Generation ==
  ASSUME Types, NEW closed
  PROVE  LET made == SessionsAfterGeneration(closed) IN
         /\ DOMAIN session \subseteq DOMAIN made
         /\ DOMAIN made \subseteq SessionKeys
         /\ \A s \in DOMAIN made : made[s] \in SessionRows
         /\ \A s \in DOMAIN made \ DOMAIN session :
              /\ DateOf(s.start) \in Nat \ holidays
              /\ made[s].end = s.start + size[s.work].duration
              /\ \E i \in DOMAIN Entries : s \in SlotsOf(i, DateOf(s.start))
<1> DEFINE made  == SessionsAfterGeneration(closed)
           today == DateOf(now)
           days  == today + 1 .. today + DaysAhead \ holidays
           from  == {i \in DOMAIN Entries : Entries[i].room \notin closed \union ExcludedRooms}
           by(s) == Min({i \in from : s \in SlotsOf(i, DateOf(s.start))})
           added == UNION {SlotsOf(i, day) : i \in from, day \in days} \ DOMAIN session
<1>1. made = [s \in DOMAIN session \union added |->
                IF s \in added
                  THEN [cap |-> GeneratedCapacity(by(s), size[s.work].cap),
                        end |-> s.start + size[s.work].duration, status |-> "OPEN"]
                  ELSE session[s]]
  BY DEF SessionsAfterGeneration
<1>2. days \subseteq Nat \ holidays
  <2>1. today \in Nat
    BY Today
  <2>2. QED  BY <2>1
<1>3. ASSUME NEW s \in added
      PROVE  /\ s \in SessionKeys /\ DateOf(s.start) \in Nat \ holidays
             /\ \E i \in from : s \in SlotsOf(i, DateOf(s.start))
  <2>1. PICK i \in from, day \in days : s \in SlotsOf(i, day)
    OBVIOUS
  <2>2. i \in DOMAIN Entries /\ day \in Nat \ holidays
    BY <1>2
  <2>3. s \in SessionKeys /\ DateOf(s.start) = day
    BY <2>1, <2>2, SlotFits
  <2>4. QED  BY <2>1, <2>2, <2>3
<1>4. ASSUME NEW s \in added PROVE by(s) \in DOMAIN Entries
  <2> DEFINE those == {i \in from : s \in SlotsOf(i, DateOf(s.start))}
  <2>1. those # {} /\ those \subseteq DOMAIN Entries
    BY <1>3
  <2>2. those \subseteq Nat /\ IsFiniteSet(those)
    <3>1. DOMAIN Entries = 1..Len(Entries) /\ Len(Entries) \in Nat
      BY CatalogAssumption
    <3>2. IsFiniteSet(DOMAIN Entries) /\ DOMAIN Entries \subseteq Nat
      BY <3>1, FS_Interval
    <3>3. QED  BY <2>1, <3>2, FS_Subset
  <2>3. Min(those) \in those
    <3> HIDE DEF those
    <3>1. QED  BY <2>1, <2>2, Least
  <2>4. QED  BY <2>1, <2>3
<1>5. ASSUME NEW s \in added
      PROVE  [cap |-> GeneratedCapacity(by(s), size[s.work].cap),
              end |-> s.start + size[s.work].duration, status |-> "OPEN"] \in SessionRows
  <2>1. s.work \in Works /\ s.start \in Nat
    BY <1>3 DEF SessionKeys
  <2>2. size[s.work].cap \in Nat \ {0} /\ size[s.work].duration \in Nat
    BY <2>1, SizesFit
  <2>3. by(s) \in DOMAIN Entries
    BY <1>4
  <2> HIDE DEF by
  <2>4. GeneratedCapacity(by(s), size[s.work].cap) \in Nat \ {0}
    BY <2>2, <2>3, CapacityFits
  <2>5. s.start + size[s.work].duration \in Nat
    BY <2>1, <2>2
  <2>6. QED  BY <2>4, <2>5 DEF SessionRows
<1> HIDE DEF made, by, added, from, days
<1>6. /\ DOMAIN made = DOMAIN session \union added
      /\ \A s \in added : made[s] = [cap |-> GeneratedCapacity(by(s), size[s.work].cap),
                                     end |-> s.start + size[s.work].duration, status |-> "OPEN"]
      /\ \A s \in DOMAIN session \ added : made[s] = session[s]
  BY <1>1
<1>7. DOMAIN made \subseteq SessionKeys
  BY <1>3, <1>6 DEF Types, SessionTypes
<1>8. \A s \in DOMAIN made : made[s] \in SessionRows
  BY <1>5, <1>6 DEF Types, SessionTypes
<1>9. ASSUME NEW s \in DOMAIN made \ DOMAIN session
      PROVE  /\ DateOf(s.start) \in Nat \ holidays
             /\ made[s].end = s.start + size[s.work].duration
             /\ \E i \in DOMAIN Entries : s \in SlotsOf(i, DateOf(s.start))
  <2>1. s \in added
    BY <1>6
  <2>2. made[s].end = s.start + size[s.work].duration
    BY <2>1, <1>6
  <2>3. QED  BY <2>1, <2>2, <1>3 DEF from
<1>10. QED  BY <1>6, <1>7, <1>8, <1>9 DEF made

-----------------------------------------------------------------------------
(* The scope of a member of staff *)

\* resolve_staff_laboratory finds a laboratory unless the centre has none.
LEMMA StaffLabs ==
  ASSUME NEW u \in Staff
  PROVE  /\ StaffLaboratory(u) \in Labs \union {NoLab}
         /\ StaffLaboratory(u) = NoLab =>
              LabOf[u] = NoLab /\ \A l \in Labs : CenterOfLab[l] # CenterOf[u]
<1> DEFINE here == {l \in Labs : CenterOfLab[l] = CenterOf[u]}
<1>1. LabOf[u] \in Labs \union {NoLab} /\ NoLab \notin Labs
  BY ScopeAssumption
<1>2. here # {} => Min(here) \in here
  <2>1. here \subseteq Nat /\ IsFiniteSet(here)
    BY ScopeAssumption, FS_Subset
  <2> HIDE DEF here
  <2>2. QED  BY <2>1, Least
<1>3. CASE LabOf[u] # NoLab
  BY <1>1, <1>3 DEF StaffLaboratory
<1>4. CASE LabOf[u] = NoLab /\ here = {}
  BY <1>4 DEF StaffLaboratory
<1>5. CASE LabOf[u] = NoLab /\ here # {}
  <2>1. StaffLaboratory(u) = Min(here)
    BY <1>5 DEF StaffLaboratory
  <2>2. QED  BY <2>1, <1>1, <1>2, <1>5
<1>6. QED  BY <1>3, <1>4, <1>5

\* What belongs to laboratories in the catalog of a member of staff belongs to their own.
LEMMA CatalogIsOwn ==
  ASSUME NEW u \in Staff, NEW labs \in SUBSET Labs, InCatalog(u, labs)
  PROVE  Role[u] = "SYS_ADMIN" \/ (StaffLaboratory(u) # NoLab /\ StaffLaboratory(u) \in labs)
<1>1. CASE Role[u] = "SYS_ADMIN"
  BY <1>1
<1>2. CASE StaffLaboratory(u) \in labs
  BY <1>2, ScopeAssumption
<1>3. CASE StaffLaboratory(u) = NoLab /\ \E l \in labs : CenterOfLab[l] = StaffCenter(u)
  BY <1>3, StaffLabs DEF StaffCenter
<1>4. QED  BY <1>1, <1>2, <1>3 DEF InCatalog

-----------------------------------------------------------------------------
(* Types *)

\* No session row is ever deleted.
SessionsGrow == DOMAIN session \subseteq DOMAIN session'

\* Bookings change their status only.
StatusesChange ==
  /\ bookings' = [b \in DOMAIN bookings |-> bookings'[b]]
  /\ \A b \in DOMAIN bookings :
       \E st \in BookingStatus : bookings'[b] = [bookings[b] EXCEPT !.status = st]

\* A sequence of rows and what reading one of them gives
LEMMA RowTypes ==
  ASSUME Types, NEW b \in DOMAIN bookings
  PROVE  bookings[b] \in BookingRows(DOMAIN session)
BY DEF Types, BookingTypes

\* The keys of the booking rows
LEMMA NumberOfRows ==
  ASSUME Types
  PROVE  Len(bookings) \in Nat /\ DOMAIN bookings = 1..Len(bookings)
BY DEF Types, BookingTypes

\* Rows that change their status remain rows.
LEMMA KeepRows ==
  ASSUME Types, SessionsGrow, StatusesChange
  PROVE  BookingTypes' /\ Len(bookings') = Len(bookings)
<1> DEFINE n == Len(bookings)
           T == BookingRows(DOMAIN session')
<1>1. n \in Nat /\ DOMAIN bookings = 1..n
  BY NumberOfRows
<1>2. ASSUME NEW b \in DOMAIN bookings PROVE bookings'[b] \in T
  <2>1. PICK st \in BookingStatus : bookings'[b] = [bookings[b] EXCEPT !.status = st]
    BY DEF StatusesChange
  <2>2. bookings[b] \in BookingRows(DOMAIN session)
    BY RowTypes
  <2>3. QED  BY <2>1, <2>2 DEF BookingRows, SessionsGrow
<1>3. bookings' = [b \in 1..n |-> bookings'[b]]
  BY <1>1 DEF StatusesChange
<1>4. bookings' \in [1..n -> T]
  BY <1>1, <1>2, <1>3
<1>5. bookings' \in Seq(T)
  BY <1>1, <1>4, SeqDef
<1>6. Len(bookings') = n
  BY <1>1, <1>3, <1>5, LenProperties
<1>7. QED  BY <1>5, <1>6 DEF BookingTypes

\* What happens to the academic data keeps its types.
LEMMA ScopeStep ==
  ASSUME ScopeTypeOK, EditScope
  PROVE  ScopeTypeOK'
<1>1. CASE SetOverride
  BY <1>1 DEF SetOverride, ScopeTypeOK
<1>2. CASE ChangeLoad
  BY <1>2 DEF ChangeLoad, ScopeTypeOK
<1>3. CASE PublishDiscipline
  BY <1>3 DEF PublishDiscipline, ScopeTypeOK
<1>4. CASE MoveRoom
  BY <1>4 DEF MoveRoom, ScopeTypeOK
<1>5. ASSUME NEW u \in Staff PROVE PortalLaboratories(u) \subseteq Labs
  <2>1. StaffLaboratory(u) \in Labs \union {NoLab}
    BY StaffLabs
  <2>2. QED  BY <2>1 DEF PortalLaboratories
<1>6. ASSUME NEW u \in Staff, Bind(u) PROVE ScopeTypeOK'
  BY <1>5, <1>6 DEF Bind, ScopeTypeOK
<1>7. ASSUME NEW u \in Staff, Unbind(u) PROVE ScopeTypeOK'
  BY <1>7 DEF Unbind, ScopeTypeOK
<1>8. ASSUME NEW u \in Staff, UpdateLabWork(u) PROVE ScopeTypeOK'
  <2>1. PICK l \in PortalLaboratories(u), w \in Works, p \in BOOLEAN :
          \E ds \in DisciplineChoices(l) :
            /\ work' = [work EXCEPT ![w] = [published |-> p, disciplines |-> ds]]
            /\ UNCHANGED <<load, override, published, bound, roomLab>>
    BY <1>8 DEF UpdateLabWork
  <2>2. PICK ds \in DisciplineChoices(l) :
          /\ work' = [work EXCEPT ![w] = [published |-> p, disciplines |-> ds]]
          /\ UNCHANGED <<load, override, published, bound, roomLab>>
    BY <2>1
  <2>3. ds \in (SUBSET Disciplines) \ {{}}
    BY DEF DisciplineChoices
  <2>4. [published |-> p, disciplines |-> ds] \in
          [published : BOOLEAN, disciplines : (SUBSET Disciplines) \ {{}}]
    BY <2>3
  <2>5. work' \in [Works -> [published : BOOLEAN, disciplines : (SUBSET Disciplines) \ {{}}]]
    BY <2>2, <2>4 DEF ScopeTypeOK
  <2>6. QED  BY <2>2, <2>5 DEF ScopeTypeOK
<1>9. QED  BY <1>1, <1>2, <1>3, <1>4, <1>6, <1>7, <1>8 DEF EditScope

\* Rows that stay as they are
LEMMA SameRows ==
  ASSUME Types, UNCHANGED bookings
  PROVE  StatusesChange
<1>1. ASSUME NEW b \in DOMAIN bookings
      PROVE  \E st \in BookingStatus : bookings'[b] = [bookings[b] EXCEPT !.status = st]
  <2>1. bookings[b] \in BookingRows(DOMAIN session)
    BY RowTypes
  <2>2. bookings[b].status \in BookingStatus
    BY <2>1 DEF BookingRows
  <2>3. bookings[b] = [bookings[b] EXCEPT !.status = bookings[b].status]
    BY <2>1 DEF BookingRows
  <2>4. QED  BY <2>2, <2>3
<1>2. bookings' = [b \in DOMAIN bookings |-> bookings'[b]]
  BY DEF Types, BookingTypes
<1>3. QED  BY <1>1, <1>2 DEF StatusesChange

\* The bound of changes allows an edit.
LEMMA EditFits ==
  ASSUME Types, Edited, Len(bookings') = Len(bookings)
  PROVE  edits' \in 0 .. MaxChanges - Len(bookings')
<1>1. Len(bookings) \in Nat /\ MaxChanges \in Nat
  BY NumberOfRows, CatalogAssumption
<1>2. edits \in 0 .. MaxChanges - Len(bookings)
  BY DEF Types, DataTypes
<1>3. QED  BY <1>1, <1>2 DEF Edited

\* A step that leaves the data alone, but perhaps the sessions, and bookings but for
\* their status
LEMMA QuietStep ==
  ASSUME Types, SessionTypes', SessionsGrow, StatusesChange, now' \in Moments, UNCHANGED catalog
  PROVE  Types'
<1>1. BookingTypes' /\ Len(bookings') = Len(bookings)
  BY KeepRows
<1>2. ScopeTypeOK'
  BY DEF Types, ScopeTypeOK, catalog, scope
<1>3. UNCHANGED <<size, roomCap, holidays, blocked, edits>>
  BY DEF catalog
<1>4. DataTypes'
  BY <1>1, <1>3 DEF Types, DataTypes
<1>5. QED  BY <1>1, <1>2, <1>4 DEF Types

\* Sessions that are closed or cancelled, or change their end or capacity
LEMMA ChangedSessions ==
  ASSUME Types, session' = [s \in DOMAIN session |-> session'[s]],
         \A s \in DOMAIN session : session'[s] \in SessionRows
  PROVE  SessionTypes' /\ SessionsGrow
<1>1. DOMAIN session' = DOMAIN session
  OBVIOUS
<1>2. QED  BY <1>1 DEF Types, SessionTypes, SessionsGrow

\* Sessions that stay as they are
LEMMA SameSessions ==
  ASSUME Types, UNCHANGED session
  PROVE  SessionTypes' /\ SessionsGrow
BY DEF Types, SessionTypes, SessionsGrow

-----------------------------------------------------------------------------
(* Types, step by step *)

\* A moment passes.
LEMMA TickTypes ==
  ASSUME Types, Tick
  PROVE  Types' /\ SessionsGrow /\ StatusesChange
<1> DEFINE later == {t \in Moments : t > now}
<1>1. later # {} /\ now' = Min(later) /\ UNCHANGED <<session, bookings, catalog>>
  BY DEF Tick
<1>2. later \subseteq Nat /\ IsFiniteSet(later) /\ later \subseteq Moments
  BY CatalogAssumption, FS_Subset
<1>3. now' \in Moments
  <2> HIDE DEF later
  <2>1. QED  BY <1>1, <1>2, Least
<1>4. SessionTypes' /\ SessionsGrow /\ StatusesChange
  BY <1>1, SameSessions, SameRows
<1>5. QED  BY <1>1, <1>3, <1>4, QuietStep

\* generate_sessions keeps the types.
LEMMA GenerateTypes ==
  ASSUME Types, Generate
  PROVE  Types' /\ SessionsGrow /\ StatusesChange
<1>1. SessionTypes' /\ SessionsGrow
  BY Generation DEF Generate, SessionTypes, SessionsGrow
<1>2. StatusesChange
  BY SameRows DEF Generate
<1>3. QED  BY <1>1, <1>2, QuietStep DEF Generate, Types, DataTypes

\* The first discipline that fits is one that fits.
LEMMA Resolved ==
  ASSUME Types, NEW st \in Students, NEW w, DisciplinesFor(st, w) # {}
  PROVE  ResolveDiscipline(st, w) \in DisciplinesFor(st, w) /\ ResolveDiscipline(st, w) \in Disciplines
<1>1. DisciplinesFor(st, w) \subseteq Disciplines
  BY DEF DisciplinesFor, StudentDisciplines, PublishedDisciplines, Types, ScopeTypeOK
<1>2. DisciplinesFor(st, w) \subseteq Nat /\ IsFiniteSet(DisciplinesFor(st, w))
  BY <1>1, ScopeAssumption, FS_Subset
<1>3. Min(DisciplinesFor(st, w)) \in DisciplinesFor(st, w)
  BY <1>2, Least
<1>4. QED  BY <1>1, <1>3 DEF ResolveDiscipline

\* The row that a booking adds
NewRow(st, s, by) ==
  [student |-> st, session |-> s, discipline |-> ResolveDiscipline(st, s.work),
   by |-> by, status |-> "BOOKED"]

\* A booking adds its row behind the others.
LEMMA BookingAdded ==
  ASSUME Types, NEW st \in Students, NEW s \in DOMAIN session, NEW by \in Staff \union {Self},
         DisciplinesFor(st, s.work) # {}, CreateBooking(st, s, by)
  PROVE  /\ Types' /\ SessionsGrow
         /\ DOMAIN bookings' = DOMAIN bookings \union {Len(bookings) + 1}
         /\ \A b \in DOMAIN bookings : bookings'[b] = bookings[b]
         /\ bookings'[Len(bookings) + 1] = NewRow(st, s, by)
<1> DEFINE n == Len(bookings)
           T == BookingRows(DOMAIN session)
           row == NewRow(st, s, by)
<1>1. /\ n + edits < MaxChanges /\ bookings' = Append(bookings, row)
      /\ UNCHANGED <<now, session, catalog>>
  BY DEF CreateBooking, NewRow
<1>2. row \in T
  BY Resolved DEF NewRow, BookingRows, BookingStatus
<1>3. bookings \in Seq(T) /\ n \in Nat /\ DOMAIN bookings = 1..n
  BY NumberOfRows DEF Types, BookingTypes
<1> HIDE DEF T, row
<1>4. /\ bookings' \in Seq(T) /\ Len(bookings') = n + 1
      /\ DOMAIN bookings' = 1 .. n + 1
      /\ \A b \in 1..n : bookings'[b] = bookings[b]
      /\ bookings'[n + 1] = row
  BY <1>1, <1>2, <1>3, AppendProperties
<1>5. BookingTypes'
  BY <1>1, <1>4 DEF BookingTypes, T
<1>6. SessionTypes' /\ SessionsGrow
  BY <1>1, SameSessions
<1>7. ScopeTypeOK'
  BY <1>1 DEF Types, ScopeTypeOK, catalog, scope
<1>8. edits' \in 0 .. MaxChanges - Len(bookings')
  <2>1. edits \in 0 .. MaxChanges - n /\ MaxChanges \in Nat /\ edits' = edits
    BY <1>1, CatalogAssumption DEF Types, DataTypes, catalog
  <2>2. QED  BY <2>1, <1>1, <1>3, <1>4
<1>9. DataTypes'
  BY <1>1, <1>8 DEF Types, DataTypes, catalog
<1>10. 1 .. n + 1 = 1..n \union {n + 1}
  BY <1>3
<1>11. QED  BY <1>3, <1>4, <1>5, <1>6, <1>7, <1>9, <1>10 DEF Types, row

\* A booking, whoever makes it: its student may open the lab work and has a discipline
\* for it, and staff who make it have the lab work in their catalog.
Booked(st, s, by) ==
  /\ CanAccess(st, s.work) /\ DisciplinesFor(st, s.work) # {}
  /\ by # Self => s.work \in StaffLabWorks(by)
  /\ CreateBooking(st, s, by)

Booking ==
  \E st \in Students, s \in DOMAIN session, by \in Staff \union {Self} : Booked(st, s, by)

\* What a student books satisfies the checks on student and lab work.
LEMMA StudentsBook ==
  ASSUME NEW st \in Students, BookConfirm(st)
  PROVE  Booking
<1>1. PICK w \in StudentLabWorks(st) : \E s \in StudentSlots(st, w) :
        MayBook(st, s) /\ CreateBooking(st, s, Self)
  BY DEF BookConfirm
<1>2. PICK s \in StudentSlots(st, w) : MayBook(st, s) /\ CreateBooking(st, s, Self)
  BY <1>1
<1>3. s \in DOMAIN session
  BY DEF StudentSlots
<1>4. Booked(st, s, Self)
  BY <1>2 DEF MayBook, Booked
<1>5. QED  BY <1>3, <1>4 DEF Booking

\* What staff book for a student satisfies them too, and is in their catalog.
LEMMA StaffBook ==
  ASSUME NEW u \in Staff, NEW st \in Students, ManualBook(u, st)
  PROVE  Booking
<1>1. PICK s \in ManualBookable : MayBookManually(u, st, s) /\ CreateBooking(st, s, u)
  BY DEF ManualBook
<1>2. s \in DOMAIN session
  BY DEF ManualBookable
<1>3. Booked(st, s, u)
  BY <1>1 DEF MayBookManually, Booked
<1>4. QED  BY <1>2, <1>3 DEF Booking

\* CancelBookingView changes one status.
LEMMA CancelTypes ==
  ASSUME Types, NEW b \in DOMAIN bookings, CancelBooking(b)
  PROVE  Types' /\ SessionsGrow /\ StatusesChange
<1>1. /\ bookings' = [bookings EXCEPT ![b].status = "CANCELLED"]
      /\ UNCHANGED <<now, session, catalog>>
  BY DEF CancelBooking
<1>2. SessionTypes' /\ SessionsGrow
  BY <1>1, SameSessions
<1>3. ASSUME NEW c \in DOMAIN bookings
      PROVE  \E st \in BookingStatus : bookings'[c] = [bookings[c] EXCEPT !.status = st]
  <2>1. CASE c = b
    BY <1>1, <2>1 DEF BookingStatus
  <2>2. CASE c # b
    <3>1. bookings[c] \in BookingRows(DOMAIN session) /\ bookings'[c] = bookings[c]
      BY <1>1, <2>2, RowTypes
    <3>2. bookings[c].status \in BookingStatus
      BY <3>1 DEF BookingRows
    <3>3. bookings[c] = [bookings[c] EXCEPT !.status = bookings[c].status]
      BY <3>1 DEF BookingRows
    <3>4. QED  BY <3>1, <3>2, <3>3
  <2>3. QED  BY <2>1, <2>2
<1>4. StatusesChange
  <2>1. bookings' = [c \in DOMAIN bookings |-> bookings'[c]]
    BY <1>1
  <2>2. QED  BY <1>3, <2>1 DEF StatusesChange
<1>5. QED  BY <1>1, <1>2, <1>4, QuietStep DEF Types, DataTypes

\* Some bookings get a status, the others keep theirs.
LEMMA SomeStatuses ==
  ASSUME Types, NEW B, NEW st \in BookingStatus,
         bookings' = [b \in DOMAIN bookings |->
           IF b \in B THEN [bookings[b] EXCEPT !.status = st] ELSE bookings[b]]
  PROVE  StatusesChange
<1>1. ASSUME NEW b \in DOMAIN bookings
      PROVE  \E x \in BookingStatus : bookings'[b] = [bookings[b] EXCEPT !.status = x]
  <2>1. CASE b \in B
    BY <2>1
  <2>2. CASE b \notin B
    <3>1. bookings[b] \in BookingRows(DOMAIN session) /\ bookings'[b] = bookings[b]
      BY <2>2, RowTypes
    <3>2. bookings[b].status \in BookingStatus
      BY <3>1 DEF BookingRows
    <3>3. bookings[b] = [bookings[b] EXCEPT !.status = bookings[b].status]
      BY <3>1 DEF BookingRows
    <3>4. QED  BY <3>1, <3>2, <3>3
  <2>3. QED  BY <2>1, <2>2
<1>2. QED  BY <1>1 DEF StatusesChange

\* Some sessions get a status, the others keep theirs.
LEMMA SomeSessions ==
  ASSUME Types, NEW S, NEW st \in {"CLOSED", "CANCELLED"},
         session' = [s \in DOMAIN session |->
           IF s \in S THEN [session[s] EXCEPT !.status = st] ELSE session[s]]
  PROVE  SessionTypes' /\ SessionsGrow
<1>1. \A s \in DOMAIN session : session[s] \in SessionRows
  BY DEF Types, SessionTypes
<1>2. \A s \in DOMAIN session : session'[s] \in SessionRows
  BY <1>1 DEF SessionRows
<1>3. session' = [s \in DOMAIN session |-> session'[s]]
  OBVIOUS
<1>4. QED  BY <1>2, <1>3, ChangedSessions

\* mark_visited_for_ended_sessions closes sessions and marks their bookings.
LEMMA JobTypes ==
  ASSUME Types, RunJob
  PROVE  Types' /\ SessionsGrow /\ StatusesChange
<1> DEFINE mode(s) == ModeOf(LaboratoryOf(s))
           taken(s) == \E b \in Active : bookings[b].session = s
           ended == {s \in DOMAIN session :
                       End(s) <= now /\ (Open(s) \/ (session[s].status = "CLOSED" /\ taken(s)))}
           ready == {s \in ended : ReadyForAutoVisited(s.start, End(s), now, mode(s))}
           closing == ready \union {s \in ended : mode(s) = "MANUAL"}
           marked == {b \in Active : bookings[b].session \in ready}
<1>1. /\ session' = [s \in DOMAIN session |->
           IF s \in closing THEN [session[s] EXCEPT !.status = "CLOSED"] ELSE session[s]]
      /\ bookings' = [b \in DOMAIN bookings |->
           IF b \in Active /\ bookings[b].session \in ready
             THEN [bookings[b] EXCEPT !.status = "VISITED"] ELSE bookings[b]]
      /\ UNCHANGED <<now, catalog>>
  BY DEF RunJob
<1> HIDE DEF closing, ready
<1>2. bookings' = [b \in DOMAIN bookings |->
        IF b \in marked THEN [bookings[b] EXCEPT !.status = "VISITED"] ELSE bookings[b]]
  BY <1>1
<1> HIDE DEF marked
<1>3. SessionTypes' /\ SessionsGrow
  BY <1>1, SomeSessions
<1>4. StatusesChange
  BY <1>2, SomeStatuses DEF BookingStatus
<1>5. QED  BY <1>1, <1>3, <1>4, QuietStep DEF Types, DataTypes

\* A room that is blocked cancels its sessions and their bookings.
LEMMA BlockTypes ==
  ASSUME Types, NEW r, CancelSessionsOf(r)
  PROVE  SessionTypes' /\ SessionsGrow /\ StatusesChange
<1> DEFINE lost == {s \in DOMAIN session : s.room = r /\ s.start > now /\ Open(s)}
           marked == {b \in Active : bookings[b].session \in lost}
<1>1. /\ session' = [s \in DOMAIN session |->
           IF s \in lost THEN [session[s] EXCEPT !.status = "CANCELLED"] ELSE session[s]]
      /\ bookings' = [b \in DOMAIN bookings |->
           IF b \in Active /\ bookings[b].session \in lost
             THEN [bookings[b] EXCEPT !.status = "SLOT_CANCELLED"] ELSE bookings[b]]
  BY DEF CancelSessionsOf
<1> HIDE DEF lost
<1>2. bookings' = [b \in DOMAIN bookings |->
        IF b \in marked THEN [bookings[b] EXCEPT !.status = "SLOT_CANCELLED"] ELSE bookings[b]]
  BY <1>1
<1> HIDE DEF marked
<1>3. SessionTypes' /\ SessionsGrow
  BY <1>1, SomeSessions
<1>4. StatusesChange
  BY <1>2, SomeStatuses DEF BookingStatus
<1>5. QED  BY <1>3, <1>4

\* An edit that does not touch the times, bound by the number of changes
LEMMA EditTypes ==
  ASSUME Types, SessionTypes', SessionsGrow, StatusesChange, Edited, ScopeTypeOK', UNCHANGED now,
         size' \in [Works -> Sizes], roomCap' \in [Rooms -> RoomCapacities],
         holidays' \subseteq HolidayDates, blocked' \subseteq Rooms
  PROVE  Types'
<1>1. BookingTypes' /\ Len(bookings') = Len(bookings)
  BY KeepRows
<1>2. edits' \in 0 .. MaxChanges - Len(bookings')
  BY <1>1, EditFits
<1>3. QED  BY <1>1, <1>2 DEF Types, DataTypes

\* LabHeadRoomUpdateView blocks a room, generates for it or changes its seats.
LEMMA RoomTypes ==
  ASSUME Types, NEW u \in Staff, UpdateRoom(u)
  PROVE  Types' /\ SessionsGrow /\ StatusesChange
<1>1. PICK r \in Rooms, form \in RoomForms :
        /\ Edited
        /\ roomCap' = [roomCap EXCEPT ![r] = form.cap]
        /\ blocked' = IF form.block THEN blocked \union {r} ELSE blocked \ {r}
        /\ \/ CancelSessionsOf(r)
           \/ session' = SessionsAfterGeneration(blocked \ {r}) /\ UNCHANGED bookings
           \/ UNCHANGED <<session, bookings>>
        /\ UNCHANGED <<now, size, holidays, scope>>
  BY DEF UpdateRoom
<1>2. SessionTypes' /\ SessionsGrow /\ StatusesChange
  <2>1. CASE CancelSessionsOf(r)
    BY <2>1, BlockTypes
  <2>2. CASE session' = SessionsAfterGeneration(blocked \ {r}) /\ UNCHANGED bookings
    BY <2>2, Generation, SameRows DEF SessionTypes, SessionsGrow
  <2>3. CASE UNCHANGED <<session, bookings>>
    BY <2>3, SameSessions, SameRows
  <2>4. QED  BY <1>1, <2>1, <2>2, <2>3
<1>3. form.cap \in RoomCapacities
  BY DEF RoomForms
<1>4. /\ size' \in [Works -> Sizes] /\ roomCap' \in [Rooms -> RoomCapacities]
      /\ holidays' \subseteq HolidayDates /\ blocked' \subseteq Rooms
  BY <1>1, <1>3 DEF Types, DataTypes
<1>5. ScopeTypeOK'
  BY <1>1 DEF Types, ScopeTypeOK, scope
<1>6. QED  BY <1>1, <1>2, <1>4, <1>5, EditTypes

\* The capacity that an entry gives to one of the sessions it covers
LEMMA SyncedCapacity ==
  ASSUME NEW s, Matching(s) # {}, NEW cap \in Nat \ {0}
  PROVE  GeneratedCapacity(Min(Matching(s)), cap) \in Nat \ {0}
<1>1. DOMAIN Entries = 1..Len(Entries) /\ Len(Entries) \in Nat
  BY CatalogAssumption
<1>2. IsFiniteSet(DOMAIN Entries) /\ DOMAIN Entries \subseteq Nat
  BY <1>1, FS_Interval
<1>3. Matching(s) \subseteq DOMAIN Entries
  BY DEF Matching
<1>4. IsFiniteSet(Matching(s)) /\ Matching(s) \subseteq Nat
  BY <1>2, <1>3, FS_Subset
<1>5. Min(Matching(s)) \in DOMAIN Entries
  BY <1>3, <1>4, Least
<1>6. QED  BY <1>5, CapacityFits

\* LabHeadLabWorkUpdateView moves capacities or ends of open sessions.
LEMMA ResizeTypes ==
  ASSUME Types, NEW u \in Staff, ResizeLabWork(u)
  PROVE  Types' /\ SessionsGrow /\ StatusesChange
<1>1. PICK w \in Works, new \in Sizes :
        /\ Edited
        /\ size' = [size EXCEPT ![w] = new]
        /\ SyncCapacities(w, new.cap) \/ SyncDurations(w, new.duration)
        /\ UNCHANGED <<now, bookings, roomCap, holidays, blocked, scope>>
  BY DEF ResizeLabWork
<1>2. new.cap \in Nat \ {0} /\ new.duration \in Nat
  BY CatalogAssumption
<1>3. ASSUME NEW s \in DOMAIN session
      PROVE  session[s] \in SessionRows /\ s.start \in Nat
  BY DEF Types, SessionTypes, SessionKeys
<1>4. SessionTypes' /\ SessionsGrow
  <2>1. CASE SyncCapacities(w, new.cap)
    <3>1. session' = [s \in DOMAIN session |->
            IF s \in FutureOpen(w) /\ Matching(s) # {}
              THEN [session[s] EXCEPT !.cap = GeneratedCapacity(Min(Matching(s)), new.cap)]
              ELSE session[s]]
      BY <2>1 DEF SyncCapacities
    <3>2. ASSUME NEW s \in DOMAIN session PROVE session'[s] \in SessionRows
      <4>1. CASE s \in FutureOpen(w) /\ Matching(s) # {}
        <5>1. GeneratedCapacity(Min(Matching(s)), new.cap) \in Nat \ {0}
          BY <1>2, <4>1, SyncedCapacity
        <5>2. session'[s] = [session[s] EXCEPT !.cap = GeneratedCapacity(Min(Matching(s)), new.cap)]
          BY <3>1, <4>1
        <5>3. QED  BY <1>3, <5>1, <5>2 DEF SessionRows
      <4>2. CASE ~(s \in FutureOpen(w) /\ Matching(s) # {})
        BY <1>3, <3>1, <4>2
      <4>3. QED  BY <4>1, <4>2
    <3>3. session' = [s \in DOMAIN session |-> session'[s]]
      BY <3>1
    <3>4. QED  BY <3>2, <3>3, ChangedSessions
  <2>2. CASE SyncDurations(w, new.duration)
    <3>1. session' = [s \in DOMAIN session |->
            IF s \in FutureOpen(w) /\ \A b \in Active : bookings[b].session # s
              THEN [session[s] EXCEPT !.end = s.start + new.duration] ELSE session[s]]
      BY <2>2 DEF SyncDurations
    <3>2. ASSUME NEW s \in DOMAIN session PROVE session'[s] \in SessionRows
      <4>1. s.start + new.duration \in Nat
        BY <1>2, <1>3
      <4>2. session'[s] \in {session[s], [session[s] EXCEPT !.end = s.start + new.duration]}
        BY <3>1
      <4>3. QED  BY <1>3, <4>1, <4>2 DEF SessionRows
    <3>3. session' = [s \in DOMAIN session |-> session'[s]]
      BY <3>1
    <3>4. QED  BY <3>2, <3>3, ChangedSessions
  <2>3. QED  BY <1>1, <2>1, <2>2
<1>5. StatusesChange
  BY <1>1, SameRows
<1>6. /\ size' \in [Works -> Sizes] /\ roomCap' \in [Rooms -> RoomCapacities]
      /\ holidays' \subseteq HolidayDates /\ blocked' \subseteq Rooms
  BY <1>1 DEF Types, DataTypes
<1>7. ScopeTypeOK'
  BY <1>1 DEF Types, ScopeTypeOK, scope
<1>8. QED  BY <1>1, <1>4, <1>5, <1>6, <1>7, EditTypes

\* The Django admin and the academic edits leave sessions and bookings alone.
LEMMA AdminTypes ==
  ASSUME Types, SetBlockedInAdmin \/ AddHoliday \/ Edit
  PROVE  Types' /\ SessionsGrow /\ StatusesChange
<1>1. /\ Edited
      /\ UNCHANGED <<now, session, bookings, size, roomCap>>
      /\ blocked' \subseteq Rooms /\ holidays' \subseteq HolidayDates
      /\ UNCHANGED scope \/ EditScope
  <2>1. CASE SetBlockedInAdmin
    BY <2>1 DEF SetBlockedInAdmin, Types, DataTypes
  <2>2. CASE AddHoliday
    BY <2>2 DEF AddHoliday, Types, DataTypes
  <2>3. CASE Edit
    BY <2>3 DEF Edit, Types, DataTypes
  <2>4. QED  BY <2>1, <2>2, <2>3
<1>2. ScopeTypeOK'
  <2>1. CASE UNCHANGED scope
    BY <2>1 DEF Types, ScopeTypeOK, scope
  <2>2. CASE EditScope
    BY <2>2, ScopeStep DEF Types
  <2>3. QED  BY <1>1, <2>1, <2>2
<1>3. SessionTypes' /\ SessionsGrow /\ StatusesChange
  BY <1>1, SameSessions, SameRows
<1>4. size' \in [Works -> Sizes] /\ roomCap' \in [Rooms -> RoomCapacities]
  BY <1>1 DEF Types, DataTypes
<1>5. QED  BY <1>1, <1>2, <1>3, <1>4, EditTypes

\* Every step but a booking only changes the status of bookings.
LEMMA StepTypes ==
  ASSUME Types, [Next]_vars
  PROVE  Types' /\ SessionsGrow /\ (StatusesChange \/ Booking)
<1>1. CASE Tick  BY <1>1, TickTypes
<1>2. CASE Generate  BY <1>2, GenerateTypes
<1>3. CASE RunJob  BY <1>3, JobTypes
<1>4. CASE Booking
  BY <1>4, BookingAdded DEF Booking, Booked
<1>5. ASSUME NEW st \in Students, BookConfirm(st) PROVE Booking
  BY <1>5, StudentsBook
<1>6. ASSUME NEW st \in Students, NEW u \in Staff, ManualBook(u, st) PROVE Booking
  BY <1>6, StaffBook
<1>7. ASSUME NEW b \in DOMAIN bookings, CancelBooking(b)
      PROVE  Types' /\ SessionsGrow /\ StatusesChange
  BY <1>7, CancelTypes
<1>8. ASSUME NEW u \in Staff, UpdateRoom(u) PROVE Types' /\ SessionsGrow /\ StatusesChange
  BY <1>8, RoomTypes
<1>9. ASSUME NEW u \in Staff, ResizeLabWork(u) PROVE Types' /\ SessionsGrow /\ StatusesChange
  BY <1>9, ResizeTypes
<1>10. CASE SetBlockedInAdmin \/ AddHoliday \/ Edit
  BY <1>10, AdminTypes
<1>11. CASE UNCHANGED vars
  <2>1. SessionTypes' /\ SessionsGrow /\ StatusesChange
    BY <1>11, SameSessions, SameRows DEF vars
  <2>2. QED  BY <1>11, <2>1, QuietStep DEF vars, Types, DataTypes
<1>12. QED
  BY <1>1, <1>2, <1>3, <1>4, <1>5, <1>6, <1>7, <1>8, <1>9, <1>10, <1>11 DEF Next

\* The empty database has its types.
LEMMA InitTypes ==
  ASSUME Init
  PROVE  Types /\ bookings = <<>>
<1>1. now \in Moments
  BY CatalogAssumption, Least DEF Init
<1>2. ScopeTypeOK
  BY ScopeAssumption DEF Init, ScopeInit, ScopeTypeOK
<1>3. SessionTypes
  BY DEF Init, SessionTypes
<1>4. BookingTypes /\ Len(bookings) = 0
  BY EmptySeq DEF Init, BookingTypes
<1>5. DataTypes
  BY <1>1, <1>4, CatalogAssumption DEF Init, DataTypes
<1>6. QED  BY <1>2, <1>3, <1>4, <1>5 DEF Types, Init

-----------------------------------------------------------------------------
(* Theorems *)

\* The types of the rows are those of the type invariant.
LEMMA TypesImplyTypeOK ==
  ASSUME Types
  PROVE  TypeOK
<1>1. \A b \in DOMAIN bookings : bookings[b] \in BookingRows(DOMAIN session)
  BY RowTypes
<1>2. QED
  BY <1>1 DEF Types, DataTypes, SessionTypes, SessionKeys, SessionRows, BookingRows,
              BookingStatus, TypeOK

\* The types hold in every reachable state.
LEMMA AlwaysTyped == Spec => []Types
<1>1. Init => Types
  BY InitTypes
<1>2. Types /\ [Next]_vars => Types'
  BY StepTypes
<1>3. QED  BY <1>1, <1>2, PTL DEF Spec

\* Every variable keeps its type; no edit takes the last discipline from a lab work,
\* and every booking is for a session that exists.
THEOREM CatalogTypes == Spec => []TypeOK
<1>1. Types => TypeOK
  BY TypesImplyTypeOK
<1>2. QED  BY <1>1, AlwaysTyped, PTL

\* Staff book only what is in their catalog, and no edit changes the laboratories of
\* a lab work.
StaffBookTheirWorks ==
  \A b \in DOMAIN bookings : bookings[b].by # Self =>
    InCatalog(bookings[b].by, LabsOfWork[bookings[b].session.work])

\* No step takes a lab work out of the catalog of the staff who booked it.
LEMMA StaffWorksStay ==
  ASSUME Types, StaffBookTheirWorks, [Next]_vars
  PROVE  StaffBookTheirWorks'
<1>1. CASE StatusesChange
  <2>1. ASSUME NEW b \in DOMAIN bookings
        PROVE  bookings'[b].by = bookings[b].by /\ bookings'[b].session = bookings[b].session
    <3>1. bookings[b] \in BookingRows(DOMAIN session)
      BY RowTypes
    <3>2. PICK st \in BookingStatus : bookings'[b] = [bookings[b] EXCEPT !.status = st]
      BY <1>1 DEF StatusesChange
    <3>3. QED  BY <3>1, <3>2 DEF BookingRows
  <2>2. DOMAIN bookings' = DOMAIN bookings
    BY <1>1 DEF StatusesChange
  <2>3. QED  BY <2>1, <2>2 DEF StaffBookTheirWorks, InCatalog
<1>2. CASE Booking
  <2>1. PICK st \in Students, s \in DOMAIN session, by \in Staff \union {Self} : Booked(st, s, by)
    BY <1>2 DEF Booking
  <2>2. /\ DOMAIN bookings' = DOMAIN bookings \union {Len(bookings) + 1}
        /\ \A b \in DOMAIN bookings : bookings'[b] = bookings[b]
        /\ bookings'[Len(bookings) + 1] = NewRow(st, s, by)
    BY <2>1, BookingAdded DEF Booked
  <2>3. by # Self => InCatalog(by, LabsOfWork[s.work])
    BY <2>1 DEF Booked, StaffLabWorks
  <2>4. NewRow(st, s, by).by = by /\ NewRow(st, s, by).session = s
    BY DEF NewRow
  <2>5. QED  BY <2>2, <2>3, <2>4 DEF StaffBookTheirWorks, InCatalog
<1>3. QED  BY <1>1, <1>2, StepTypes

\* What is in the catalog of staff is in their scope.
LEMMA ScopeFollows ==
  ASSUME Types, StaffBookTheirWorks
  PROVE  ManualBookingInScope
<1>1. SUFFICES ASSUME NEW b \in DOMAIN bookings, bookings[b].by # Self
               PROVE  /\ bookings[b] \in StaffBookings(bookings[b].by, Rows)
                      /\ bookings[b].student \in StaffStudents(bookings[b].by, Rows)
  BY DEF ManualBookingInScope, Rows
<1> DEFINE r == bookings[b]
           u == r.by
           labs == LabsOfWork[r.session.work]
<1>2. r \in BookingRows(DOMAIN session) /\ DOMAIN session \subseteq SessionKeys
  BY RowTypes DEF Types, SessionTypes
<1>3. u \in Staff /\ r.student \in Students /\ r.session.work \in Works
  BY <1>1, <1>2 DEF BookingRows, SessionKeys
<1>4. labs \in SUBSET Labs
  BY <1>3, ScopeAssumption
<1>5. InCatalog(u, labs)
  BY <1>1 DEF StaffBookTheirWorks
<1>6. Role[u] = "SYS_ADMIN" \/ (StaffLaboratory(u) # NoLab /\ StaffLaboratory(u) \in labs)
  BY <1>3, <1>4, <1>5, CatalogIsOwn
<1>7. r \in StaffBookings(u, Rows)
  BY <1>6 DEF StaffBookings, Rows
<1>8. r.student \in StaffStudents(u, Rows)
  BY <1>3, <1>7 DEF StaffStudents
<1>9. QED  BY <1>7, <1>8

\* A booking that a member of staff made is in their scope ever after, and its student
\* too: the way into staff_bookings_qs by the lab work depends on nothing that is edited.
THEOREM OwnBookingsStayInScope == Spec => []ManualBookingInScope
<1>1. Init => StaffBookTheirWorks
  BY InitTypes DEF StaffBookTheirWorks
<1>2. Types /\ StaffBookTheirWorks /\ [Next]_vars => StaffBookTheirWorks'
  BY StaffWorksStay
<1>3. Types /\ StaffBookTheirWorks => ManualBookingInScope
  BY ScopeFollows
<1>4. QED  BY <1>1, <1>2, <1>3, AlwaysTyped, PTL DEF Spec

\* New sessions come from the generator only.
LEMMA NewSessions ==
  ASSUME Types, [Next]_vars
  PROVE  DOMAIN session' = DOMAIN session \/ \E closed : session' = SessionsAfterGeneration(closed)
<1>1. CASE Tick \/ SetBlockedInAdmin \/ AddHoliday \/ Edit \/ UNCHANGED vars
  BY <1>1 DEF Tick, SetBlockedInAdmin, AddHoliday, Edit, vars
<1>2. CASE Generate
  BY <1>2 DEF Generate
<1>3. CASE RunJob
  BY <1>3 DEF RunJob
<1>4. ASSUME NEW st \in Students, BookConfirm(st) PROVE UNCHANGED session
  BY <1>4 DEF BookConfirm, CreateBooking
<1>5. ASSUME NEW u \in Staff, NEW st \in Students, ManualBook(u, st) PROVE UNCHANGED session
  BY <1>5 DEF ManualBook, CreateBooking
<1>6. ASSUME NEW b \in DOMAIN bookings, CancelBooking(b) PROVE UNCHANGED session
  BY <1>6 DEF CancelBooking
<1>7. ASSUME NEW u \in Staff, UpdateRoom(u)
      PROVE  \/ DOMAIN session' = DOMAIN session
             \/ \E closed : session' = SessionsAfterGeneration(closed)
  <2>1. \/ \E r \in Rooms : CancelSessionsOf(r)
        \/ \E closed : session' = SessionsAfterGeneration(closed)
        \/ UNCHANGED session
    BY <1>7 DEF UpdateRoom
  <2>2. ASSUME NEW r \in Rooms, CancelSessionsOf(r) PROVE DOMAIN session' = DOMAIN session
    BY <2>2 DEF CancelSessionsOf
  <2>3. QED  BY <2>1, <2>2
<1>8. ASSUME NEW u \in Staff, ResizeLabWork(u) PROVE DOMAIN session' = DOMAIN session
  <2>1. \E w \in Works, new \in Sizes : SyncCapacities(w, new.cap) \/ SyncDurations(w, new.duration)
    BY <1>8 DEF ResizeLabWork
  <2>2. ASSUME NEW w \in Works, NEW n, SyncCapacities(w, n) PROVE DOMAIN session' = DOMAIN session
    BY <2>2 DEF SyncCapacities
  <2>3. ASSUME NEW w \in Works, NEW n, SyncDurations(w, n) PROVE DOMAIN session' = DOMAIN session
    BY <2>3 DEF SyncDurations
  <2>4. QED  BY <2>1, <2>2, <2>3
<1>9. QED  BY <1>1, <1>2, <1>3, <1>4, <1>5, <1>6, <1>7, <1>8 DEF Next

\* A slot on the grid of a pair, of the length of its lab work, is covered by its entry.
LEMMA SlotIsCovered ==
  ASSUME Types, NEW i \in DOMAIN Entries, NEW s, DateOf(s.start) \in Nat,
         s \in SlotsOf(i, DateOf(s.start))
  PROVE  LET end == s.start + size[s.work].duration IN
         /\ OnGrid(s.start)
         /\ \E p \in PairsAt(MinuteOf(s.start)) : MinuteOf(end) <= p.to
         /\ EntryMatches(Entries[i], s, end)
<1> DEFINE day == DateOf(s.start)
           m   == MinuteOf(s.start)
           d   == size[s.work].duration
<1>1. /\ s \in SessionKeys /\ m \in StartTimes(d)
      /\ s.room = Entries[i].room /\ s.work \in WorksOf(Entries[i])
      /\ Entries[i].weekday = WeekdayOf(day) /\ ParityMatches(Entries[i].parity, day)
      /\ Entries[i].start <= m /\ m + d <= Entries[i].start + Entries[i].duration
  BY SlotFits
<1>2. s.work \in Works /\ s.start \in Nat
  BY <1>1 DEF SessionKeys
<1>3. d \in {30, 45, 60, 90}
  BY <1>2, SizesFit
<1> HIDE DEF d
<1>4. /\ m \in Nat /\ m + d < DayMinutes
      /\ \E p \in PairsAt(m) : (m - p.from) % GridMinutes = 0 /\ m + d <= p.to
  BY <1>1, <1>3, StartsFit
<1>5. MinuteOf(s.start + d) = m + d
  <2>1. PICK x : x = s.start
    OBVIOUS
  <2>2. x \in Nat /\ d \in Nat /\ (x % 1440) + d < 1440
    BY <1>2, <1>3, <1>4, <2>1 DEF MinuteOf, DayMinutes
  <2>3. (x + d) % 1440 = (x % 1440) + d
    BY <2>2
  <2>4. QED  BY <2>1, <2>3 DEF MinuteOf, DayMinutes
<1>6. OnGrid(s.start)
  BY <1>4 DEF OnGrid
<1>7. \E p \in PairsAt(m) : MinuteOf(s.start + d) <= p.to
  BY <1>4, <1>5
<1>8. Entries[i].start \in Nat
  BY CatalogAssumption
<1>9. m >= Entries[i].start
  BY <1>1, <1>4, <1>8
<1>10. EntryMatches(Entries[i], s, s.start + d)
  BY <1>1, <1>5, <1>9 DEF EntryMatches
<1>11. QED  BY <1>6, <1>7, <1>10 DEF d

\* A session that the generator makes is on the grid, within one pair of a day that is
\* no holiday, and covered by an entry on the parity of its own week, for every
\* schedule: no start of an entry, no length of a lab work and no 1 September makes a
\* session that its own whitelist would refuse.
THEOREM GeneratedSessionsFit == Spec => GeneratedIsBookable
<1> DEFINE Fit ==
      \A s \in DOMAIN session' \ DOMAIN session :
        /\ OnGrid(s.start) /\ DateOf(s.start) \notin holidays
        /\ \E p \in PairsAt(MinuteOf(s.start)) : MinuteOf(session'[s].end) <= p.to
        /\ \E i \in DOMAIN Entries : EntryMatches(Entries[i], s, session'[s].end)
<1>1. Types /\ [Next]_vars => [Fit]_vars
  <2>1. SUFFICES ASSUME Types, [Next]_vars, NEW s \in DOMAIN session' \ DOMAIN session
                 PROVE  /\ OnGrid(s.start) /\ DateOf(s.start) \notin holidays
                        /\ \E p \in PairsAt(MinuteOf(s.start)) : MinuteOf(session'[s].end) <= p.to
                        /\ \E i \in DOMAIN Entries : EntryMatches(Entries[i], s, session'[s].end)
    OBVIOUS
  <2>2. PICK closed : session' = SessionsAfterGeneration(closed)
    BY <2>1, NewSessions
  <2>3. /\ DateOf(s.start) \in Nat \ holidays
        /\ session'[s].end = s.start + size[s.work].duration
        /\ \E i \in DOMAIN Entries : s \in SlotsOf(i, DateOf(s.start))
    BY <2>1, <2>2, Generation
  <2>4. PICK i \in DOMAIN Entries : s \in SlotsOf(i, DateOf(s.start))
    BY <2>3
  <2>5. /\ OnGrid(s.start)
        /\ \E p \in PairsAt(MinuteOf(s.start)) : MinuteOf(session'[s].end) <= p.to
        /\ EntryMatches(Entries[i], s, session'[s].end)
    BY <2>1, <2>3, <2>4, SlotIsCovered
  <2>6. QED  BY <2>3, <2>5
<1>2. Spec => [][Fit]_vars
  <2>1. Spec => []Types /\ [][Next]_vars
    BY AlwaysTyped, PTL DEF Spec
  <2>2. QED  BY <1>1, <2>1, PTL
<1>3. QED  BY <1>2 DEF GeneratedIsBookable

-----------------------------------------------------------------------------
(* Seats *)

\* The parameters that the bulk count and the count of one session share
LEMMA SameTimetable ==
  ASSUME Types, NEW s \in DOMAIN session
  PROVE  /\ \A b \in Active : Seat!Overlaps(bookings[b].session, s) <=>
                                Overlap(bookings[b].session, s)
         /\ \A b \in Active : bookings[b].session \in DOMAIN session
<1>1. ASSUME NEW b \in Active PROVE bookings[b].session \in DOMAIN session
  <2>1. bookings[b] \in BookingRows(DOMAIN session)
    BY RowTypes DEF Active
  <2>2. QED  BY <2>1 DEF BookingRows
<1>2. ASSUME NEW b \in Active
      PROVE  Seat!Overlaps(bookings[b].session, s) <=> Overlap(bookings[b].session, s)
  BY <1>1 DEF Seat!Overlaps, Overlap, End
<1>3. QED  BY <1>1, <1>2

\* The instance has its own copy of the module FiniteSets.
LEMMA SameCardinality ==
  ASSUME NEW S
  PROVE  Seat!Cardinality(S) = Cardinality(S)
BY DEF Seat!Cardinality, Cardinality

\* _accumulate_seat_counters counts over all sessions what session_seat_counts counts
\* for one of them.
LEMMA SameCounts ==
  ASSUME Types, NEW s \in DOMAIN session
  PROVE  LET n == Counters(s)
             k == Seat!SeatCounts(bookings, Active, s) IN
         /\ n.booked = k.session /\ n.lab = k.lab /\ n.room = k.room
         /\ n.booked \in Nat /\ n.lab \in Nat /\ n.room \in Nat
         /\ n.stand <=> ~StandFree(s)
<1> DEFINE elsewhere == Seat!Elsewhere(bookings, Active, s)
<1>1. elsewhere = Others(s)
  BY SameTimetable DEF Seat!Elsewhere, Others
<1>2. {b \in Active : bookings[b].session = s} = Seat!SessionBooked(bookings, Active, s)
  BY DEF Seat!SessionBooked
<1>3. {b \in Others(s) : bookings[b].session.work = s.work} = Seat!LabOther(bookings, Active, s)
  BY <1>1, SameTimetable DEF Seat!LabOther, Others
<1>4. {b \in Others(s) : bookings[b].session.room = s.room} = Seat!RoomOther(bookings, Active, s)
  BY <1>1, SameTimetable DEF Seat!RoomOther, Others
<1>5. IsFiniteSet(Active)
  <2>1. IsFiniteSet(DOMAIN bookings)
    BY NumberOfRows, FS_Interval
  <2>2. QED  BY <2>1, FS_Subset DEF Active
<1>6. /\ Cardinality({b \in Active : bookings[b].session = s}) \in Nat
      /\ Cardinality({b \in Others(s) : bookings[b].session.work = s.work}) \in Nat
      /\ Cardinality({b \in Others(s) : bookings[b].session.room = s.room}) \in Nat
  BY <1>5, FS_Subset, FS_CardinalityType DEF Others
<1>7. StandTaken(s) <=> Seat!StandBlocked(bookings, Active, s)
  <2>1. ASSUME NEW b \in Active
        PROVE  Seat!SharesStand(s, bookings[b].session) <=>
                 /\ PrimaryStand[s.work] # NoStand
                 /\ PrimaryStand[bookings[b].session.work] = PrimaryStand[s.work]
    BY SameTimetable DEF Seat!SharesStand, Seat!StandOf
  <2>2. ASSUME NEW b \in Active
        PROVE  [x \in DOMAIN session |-> x.work][bookings[b].session]
                 # [x \in DOMAIN session |-> x.work][s]
               <=> bookings[b].session.work # s.work
    BY SameTimetable
  <2>3. QED  BY <2>1, <2>2, SameTimetable DEF StandTaken, Others, Seat!StandBlocked
<1>8. Seat!SeatCounts(bookings, Active, s) =
        [session |-> Cardinality(Seat!SessionBooked(bookings, Active, s)),
         lab     |-> Cardinality(Seat!LabOther(bookings, Active, s)),
         room    |-> Cardinality(Seat!RoomOther(bookings, Active, s))]
  BY SameCardinality DEF Seat!SeatCounts
<1>9. PICK x, y, z :
        /\ x = Cardinality({b \in Active : bookings[b].session = s})
        /\ y = Cardinality({b \in Others(s) : bookings[b].session.work = s.work})
        /\ z = Cardinality({b \in Others(s) : bookings[b].session.room = s.room})
  OBVIOUS
<1>10. Counters(s) = [booked |-> x, lab |-> y, room |-> z, stand |-> StandTaken(s)]
  BY <1>9, Zenon DEF Counters
<1>11. Seat!SeatCounts(bookings, Active, s) = [session |-> x, lab |-> y, room |-> z]
  BY <1>2, <1>3, <1>4, <1>8, <1>9
<1>12. Counters(s).stand <=> ~StandFree(s)
  <2>1. Counters(s).stand = StandTaken(s)
    BY <1>10
  <2>2. QED  BY <2>1, <1>7 DEF StandFree
<1>13. QED  BY <1>6, <1>9, <1>10, <1>11, <1>12

\* What is left of the smallest limit, which is 0 if the limit is exceeded
LEMMA SeatsLeft ==
  ASSUME NEW m \in Int, NEW k \in Nat
  PROVE  Max({0, m}) \in Nat /\ (k < Max({0, m}) <=> k < m)
<1>1. Max({0, m}) \in {0, m} /\ Max({0, m}) >= 0 /\ Max({0, m}) >= m
  BY MaxOfTwo
<1>2. QED  BY <1>1

\* As many students as seats are shown can book one after the other, and no more: if k
\* of them have booked, there is a seat left exactly if k is less than that number.
LEMMA SeatsAsShown ==
  ASSUME Types, NEW s \in DOMAIN session, NEW k \in Nat
  PROVE  LET after == [Seat!SeatCounts(bookings, Active, s) EXCEPT !.session = @ + k] IN
         /\ Available(s) \in Nat
         /\ StandFree(s) /\ Seat!HasSeat(s, after) <=> k < Available(s)
<1> DEFINE c == Seat!SeatCounts(bookings, Active, s)
           after == [c EXCEPT !.session = @ + k]
<1>1. PICK n : n = Counters(s)
  OBVIOUS
<1>2. /\ n.booked = c.session /\ n.lab = c.lab /\ n.room = c.room
      /\ n.booked \in Nat /\ n.lab \in Nat /\ n.room \in Nat
      /\ n.stand <=> ~StandFree(s)
  BY <1>1, SameCounts
<1>3. PICK x, y, z : x = n.booked /\ y = n.lab /\ z = n.room
  OBVIOUS
<1>4. x \in Nat /\ y \in Nat /\ z \in Nat
  BY <1>2, <1>3
<1>5. after.session = x + k /\ after.lab = y /\ after.room = z
  BY <1>2, <1>3 DEF Seat!SeatCounts
<1>6. /\ session[s].cap \in Nat /\ size[s.work].cap \in Nat /\ roomCap[s.room] \in Nat
      /\ s.work \in Works /\ s.room \in Rooms
  <2>1. s \in SessionKeys /\ session[s] \in SessionRows
    BY DEF Types, SessionTypes
  <2>2. s.work \in Works /\ s.room \in Rooms /\ session[s].cap \in Nat
    BY <2>1 DEF SessionKeys, SessionRows
  <2>3. roomCap[s.room] \in Nat
    BY <2>2, CatalogAssumption DEF Types, DataTypes
  <2>4. QED  BY <2>2, <2>3, SizesFit
<1>7. PICK a, b, r : a = session[s].cap /\ b = size[s.work].cap /\ r = roomCap[s.room]
  OBVIOUS
<1>8. a \in Nat /\ b \in Nat /\ r \in Nat
  BY <1>6, <1>7
<1>9. Seat!HasSeat(s, after) <=>
        a - (x + k) > 0 /\ b - y - (x + k) > 0 /\ (z # 0 => r - z - (x + k) > 0)
  BY <1>5, <1>6, <1>7 DEF Seat!HasSeat
<1> DEFINE limits == {a - x, b - y - x} \union IF z # 0 THEN {r - z - x} ELSE {}
<1>10. Available(s) = IF n.stand THEN 0 ELSE Max({0, Min(limits)})
  BY <1>1, <1>3, <1>7 DEF Available
<1>11. /\ Min(limits) \in Int
       /\ k < Min(limits) <=>
            a - (x + k) > 0 /\ b - y - (x + k) > 0 /\ (z # 0 => r - z - (x + k) > 0)
  <2>1. CASE z # 0
    <3>1. limits = {a - x, b - y - x, r - z - x}
      BY <2>1
    <3>2. PICK p, q, t : p = a - x /\ q = b - y - x /\ t = r - z - x
      OBVIOUS
    <3>3. p \in Int /\ q \in Int /\ t \in Int
      BY <1>4, <1>8, <3>2
    <3>4. /\ Min({p, q, t}) \in {p, q, t}
          /\ Min({p, q, t}) <= p /\ Min({p, q, t}) <= q /\ Min({p, q, t}) <= t
      BY <3>3, MinOfThree
    <3>5. Min({p, q, t}) \in Int /\ (k < Min({p, q, t}) <=> k < p /\ k < q /\ k < t)
      BY <3>3, <3>4
    <3>6. /\ k < p <=> a - (x + k) > 0
          /\ k < q <=> b - y - (x + k) > 0
          /\ k < t <=> r - z - (x + k) > 0
      BY <1>4, <1>8, <3>2
    <3>7. QED  BY <2>1, <3>1, <3>2, <3>5, <3>6
  <2>2. CASE z = 0
    <3>1. limits = {a - x, b - y - x}
      BY <2>2
    <3>2. PICK p, q : p = a - x /\ q = b - y - x
      OBVIOUS
    <3>3. p \in Int /\ q \in Int
      BY <1>4, <1>8, <3>2
    <3>4. Min({p, q}) \in {p, q} /\ Min({p, q}) <= p /\ Min({p, q}) <= q
      BY <3>3, MinOfTwo
    <3>5. Min({p, q}) \in Int /\ (k < Min({p, q}) <=> k < p /\ k < q)
      BY <3>3, <3>4
    <3>6. /\ k < p <=> a - (x + k) > 0
          /\ k < q <=> b - y - (x + k) > 0
      BY <1>4, <1>8, <3>2
    <3>7. QED  BY <2>2, <3>1, <3>2, <3>5, <3>6
  <2>3. QED  BY <2>1, <2>2
<1> HIDE DEF limits
<1>12. CASE n.stand
  <2>1. Available(s) = 0 /\ ~StandFree(s)
    BY <1>2, <1>10, <1>12
  <2>2. QED  BY <2>1
<1>13. CASE ~n.stand
  <2>1. Available(s) = Max({0, Min(limits)}) /\ StandFree(s)
    BY <1>2, <1>10, <1>13
  <2>2. Max({0, Min(limits)}) \in Nat /\ (k < Max({0, Min(limits)}) <=> k < Min(limits))
    BY <1>11, SeatsLeft
  <2>3. QED  BY <1>9, <1>11, <2>1, <2>2
<1>14. QED  BY <1>12, <1>13

\* The catalog counts seats in bulk and the service one session at a time; for every
\* set of bookings, overlapping sessions, shared rooms and stands, both say the same.
THEOREM SeatsShownAreThere == Spec => []SeatsShownCanBeTaken
<1>1. ASSUME Types PROVE SeatsShownCanBeTaken
  <2>1. SUFFICES
          ASSUME NEW s \in DOMAIN session, NEW k \in 0..Available(s)
          PROVE  StandFree(s) /\ Seat!HasSeat(s, [Seat!SeatCounts(bookings, Active, s)
                                                    EXCEPT !.session = @ + k])
                   <=> k < Available(s)
    BY DEF SeatsShownCanBeTaken
  <2>2. Available(s) \in Nat
    BY <1>1, SeatsAsShown
  <2>3. k \in Nat
    BY <2>2
  <2>4. QED  BY <1>1, <2>3, SeatsAsShown
<1>2. QED  BY <1>1, AlwaysTyped, PTL

\* A seat is shown exactly when the service has one.
LEMMA ShownIfFree ==
  ASSUME Types, NEW s \in DOMAIN session
  PROVE  Available(s) > 0 <=> SeatFree(s)
<1> DEFINE c == Seat!SeatCounts(bookings, Active, s)
<1>1. /\ Available(s) \in Nat
      /\ StandFree(s) /\ Seat!HasSeat(s, [c EXCEPT !.session = @ + 0]) <=> 0 < Available(s)
  BY SeatsAsShown
<1>2. c.session \in Nat
  BY SameCounts
<1>3. [c EXCEPT !.session = @ + 0] = c
  <2>1. c = [session |-> c.session, lab |-> c.lab, room |-> c.room]
    BY DEF Seat!SeatCounts
  <2> HIDE DEF c
  <2>2. c.session + 0 = c.session
    BY <1>2
  <2>3. [c EXCEPT !.session = @ + 0] = [session |-> c.session + 0, lab |-> c.lab, room |-> c.room]
    BY <2>1
  <2>4. QED  BY <2>1, <2>2, <2>3
<1>4. QED  BY <1>1, <1>3 DEF SeatFree

\* What the catalog offers, the service accepts, up to the three checks that only the
\* service makes: for every plan, window, parity, holiday and count of seats.
THEOREM OffersAreTrue == Spec => []OffersAreHonoured
<1>1. ASSUME Types PROVE OffersAreHonoured
  <2>1. SUFFICES
          ASSUME NEW st \in Students, NEW w \in StudentLabWorks(st), NEW s \in StudentSlots(st, w),
                 DisciplinesFor(st, w) # {}, ~HasActiveIn(st, ResolveDiscipline(st, w)),
                 ~HasVisited(st, w)
          PROVE  MayBook(st, s)
    BY DEF OffersAreHonoured
  <2>2. /\ s \in DOMAIN session /\ s.work = w /\ Open(s) /\ s.start > now
        /\ DateOf(s.start) \notin holidays /\ OnGrid(s.start)
        /\ DayOpen(DateOf(s.start), now, roomLab[s.room])
        /\ BeforeDeadline(s.start, now, roomLab[s.room])
        /\ ~BusyAt(st, s) /\ Whitelisted(st, s) /\ Available(s) > 0
    BY <2>1 DEF StudentSlots
  <2>3. SeatFree(s)
    BY <1>1, <2>2, ShownIfFree
  <2>4. InBookingWindow(st, s)
    BY <2>2 DEF InBookingWindow, SlotBookable
  <2>5. CanAccess(st, s.work)
    BY <2>2 DEF CanAccess
  <2>6. QED  BY <2>1, <2>2, <2>3, <2>4, <2>5 DEF MayBook
<1>2. QED  BY <1>1, AlwaysTyped, PTL

\* What the service accepts, the catalog offers, but for blocked rooms and what lies
\* beyond the global horizon.
THEOREM AcceptedAreOffered == Spec => []AcceptedIsOffered
<1>1. ASSUME Types PROVE AcceptedIsOffered
  <2>1. SUFFICES
          ASSUME NEW st \in Students, NEW s \in DOMAIN session, MayBook(st, s),
                 s.room \notin blocked, ~(DateOf(s.start) > DateOf(now) + HorizonDays)
          PROVE  s \in StudentSlots(st, s.work)
    BY DEF AcceptedIsOffered
  <2>2. /\ OnGrid(s.start) /\ Open(s) /\ DateOf(s.start) \notin holidays
        /\ s.start > now /\ Whitelisted(st, s)
        /\ DayOpen(DateOf(s.start), now, roomLab[s.room])
        /\ BeforeDeadline(s.start, now, roomLab[s.room])
        /\ ~BusyAt(st, s) /\ SeatFree(s)
    BY <2>1 DEF MayBook, InBookingWindow, SlotBookable
  <2>3. Available(s) > 0
    BY <1>1, <2>2, ShownIfFree
  <2>4. DateOf(s.start) \in WindowDates(HorizonDays, now)
    <3>1. s.start \in Nat
      BY <1>1 DEF Types, SessionTypes, SessionKeys
    <3>2. PICK day, today : day = DateOf(s.start) /\ today = DateOf(now)
      OBVIOUS
    <3>3. day \in Int /\ today \in Int /\ HorizonDays \in Int
      BY <1>1, <3>1, <3>2, Today, CalendarAssumption DEF DateOf, DayMinutes
    <3>4. today + 1 <= day
      BY <2>2, <3>2, <3>3 DEF DayOpen, WindowDates
    <3>5. day <= today + HorizonDays
      BY <2>1, <3>2, <3>3
    <3>6. QED  BY <3>2, <3>3, <3>4, <3>5 DEF WindowDates
  <2>5. QED  BY <2>1, <2>2, <2>3, <2>4 DEF StudentSlots
<1>2. QED  BY <1>1, AlwaysTyped, PTL

\* The wizard of a manual booking ends in something that the service accepts.
THEOREM WizardHolds == Spec => []WizardIsHonoured
<1>1. WizardIsHonoured
  <2>1. SUFFICES
          ASSUME NEW w \in Works, NEW s \in StaffSlots(w), StandFree(s),
                 NEW u \in Staff, CanModifyBookings(u), NEW st \in Students,
                 w \in ManualLabWorkItems(u, st), DisciplinesFor(st, w) # {}
          PROVE  s \in ManualBookable /\ MayBookManually(u, st, s)
    BY DEF WizardIsHonoured, StaffStudents
  <2>2. /\ s \in DOMAIN session /\ s.work = w /\ Open(s)
        /\ InManualWindow(s.start, End(s), now, ManualMaxDate(now, holidays), holidays)
    BY <2>1 DEF StaffSlots
  <2>3. s \in ManualBookable
    BY <2>2 DEF InManualWindow, ManualBookable, SlotBookable
  <2>4. MayBookManually(u, st, s)
    BY <2>1, <2>2 DEF ManualLabWorkItems, MayBookManually, CanAccess
  <2>5. QED  BY <2>3, <2>4
<1>2. QED  BY <1>1, PTL

-----------------------------------------------------------------------------
(* The horizon of manual bookings *)

WorkingDays(a, b, free) == {d \in a .. b : WeekdayOf(d) < 5 /\ d \notin free}

\* The loop of manual_booking_max_date ends, within as many weeks more as there are
\* holidays, on a working day, and it has then counted all the working days it has to.
ManualHorizonIsFull ==
  LET today == DateOf(now)
      last  == ManualMaxDate(now, holidays)
      days  == WorkingDays(today + 1, last, holidays)
  IN  /\ last \in days /\ last <= today + 7 * (WorkingWeeks + Cardinality(holidays))
      /\ Cardinality(days) = 5 * WorkingWeeks

\* What holds of 0 and of the successor of each number that it holds of
LEMMA Successors ==
  ASSUME NEW G, 0 \in G, \A n \in Nat : n \in G => n + 1 \in G
  PROVE  Nat \subseteq G
<1> SUFFICES ASSUME NEW k \in Nat, k \notin G PROVE FALSE
  OBVIOUS
<1> DEFINE T == {n \in 0 .. k : n \notin G}
<1>1. IsFiniteSet(T) /\ T \subseteq Nat /\ k \in T
  <2>0. T \in SUBSET (0 .. k) /\ k \in T /\ T \subseteq Nat
    OBVIOUS
  <2>1. IsFiniteSet(0 .. k)
    BY FS_Interval
  <2> HIDE DEF T
  <2>2. QED  BY <2>0, <2>1, FS_Subset
<1>2. PICK m \in T : \A n \in T : m <= n
  <2> HIDE DEF T
  <2>1. QED  BY <1>1, Least
<1>3. m \in Nat \ {0} /\ m <= k /\ m \notin G
  OBVIOUS
<1>4. m - 1 \in 0 .. k /\ m - 1 \in G
  BY <1>2, <1>3
<1>5. QED  BY <1>3, <1>4

\* Of seven days on end, five are no weekend.
LEMMA FiveAWeek ==
  ASSUME NEW b \in Int
  PROVE  /\ IsFiniteSet({d \in b .. b + 6 : WeekdayOf(d) < 5})
         /\ Cardinality({d \in b .. b + 6 : WeekdayOf(d) < 5}) = 5
<1>1. PICK q \in Int, r \in 0 .. 6 : b = 7 * q + r
  <2>1. \E r \in 0 .. 6 : b % 7 = r /\ b = 7 * (b \div 7) + r
    BY SMT
  <2>2. b \div 7 \in Int
    BY SMT
  <2>3. QED  BY <2>1, <2>2
<1>2. PICK x \in b .. b + 6, y \in b .. b + 6 :
        x # y /\ \A d \in b .. b + 6 : WeekdayOf(d) < 5 <=> d # x /\ d # y
  <2>1. CASE r = 6
    <3>1. \A d \in b .. b + 6 : WeekdayOf(d) < 5 <=> d # b /\ d # b + 6
      BY <1>1, <2>1 DEF WeekdayOf
    <3>2. QED  BY <3>1
  <2>2. CASE r < 6
    <3>1. \A d \in b .. b + 6 : WeekdayOf(d) < 5 <=> d # b + (5 - r) /\ d # b + (6 - r)
      BY <1>1, <2>2 DEF WeekdayOf
    <3>2. b + (5 - r) \in b .. b + 6 /\ b + (6 - r) \in b .. b + 6
      BY <2>2
    <3>3. QED  BY <3>1, <3>2
  <2>3. QED  BY <1>1, <2>1, <2>2
<1>3. {d \in b .. b + 6 : WeekdayOf(d) < 5} = ((b .. b + 6) \ {x}) \ {y}
  BY <1>2
<1>4. IsFiniteSet(b .. b + 6) /\ Cardinality(b .. b + 6) = 7
  BY FS_Interval
<1>5. IsFiniteSet((b .. b + 6) \ {x}) /\ Cardinality((b .. b + 6) \ {x}) = 6
  <2> DEFINE B == b .. b + 6
  <2>1. x \in B
    OBVIOUS
  <2> HIDE DEF B
  <2>2. IsFiniteSet(B \ {x}) /\ Cardinality(B \ {x}) = Cardinality(B) - 1
    BY <1>4, <2>1, FS_RemoveElement DEF B
  <2>3. QED  BY <1>4, <2>2 DEF B
<1>6. y \in (b .. b + 6) \ {x}
  BY <1>2
<1>7. QED  BY <1>3, <1>5, <1>6, FS_RemoveElement

\* The weekdays of n weeks from tomorrow
LEMMA FiveEachWeek ==
  ASSUME NEW a \in Int, NEW n \in Nat
  PROVE  /\ IsFiniteSet(WorkingDays(a + 1, a + 7 * n, {}))
         /\ Cardinality(WorkingDays(a + 1, a + 7 * n, {})) = 5 * n
<1> DEFINE F(k) == WorkingDays(a + 1, a + 7 * k, {})
           G == {k \in Nat : IsFiniteSet(F(k)) /\ Cardinality(F(k)) = 5 * k}
<1>1. 0 \in G
  <2>1. F(0) = {}
    BY DEF WorkingDays
  <2>2. QED  BY <2>1, FS_EmptySet
<1>2. ASSUME NEW k \in Nat, k \in G PROVE k + 1 \in G
  <2> DEFINE b == a + 7 * k + 1
             week == {d \in b .. b + 6 : WeekdayOf(d) < 5}
  <2>1. b \in Int /\ IsFiniteSet(week) /\ Cardinality(week) = 5
    BY FiveAWeek
  <2>2. F(k + 1) = F(k) \union week /\ F(k) \intersect week = {}
    BY DEF WorkingDays
  <2>3. IsFiniteSet(F(k)) /\ Cardinality(F(k)) = 5 * k
    BY <1>2
  <2>4. IsFiniteSet(F(k + 1)) /\ Cardinality(F(k + 1)) = 5 * k + 5
    <3> HIDE DEF F, week
    <3>1. Cardinality(F(k) \intersect week) = 0
      BY <2>2, FS_EmptySet
    <3>2. IsFiniteSet(F(k) \union week)
          /\ Cardinality(F(k) \union week)
               = Cardinality(F(k)) + Cardinality(week) - Cardinality(F(k) \intersect week)
      BY <2>1, <2>3, FS_Union
    <3>3. QED  BY <2>1, <2>2, <2>3, <3>1, <3>2
  <2>5. QED  BY <2>4
<1>3. n \in G
  <2> HIDE DEF G
  <2>1. QED  BY <1>1, <1>2, Successors
<1>4. QED  BY <1>3

\* Holidays take no more days than there are holidays.
LEMMA EnoughDays ==
  ASSUME NEW a \in Int, NEW n \in Nat, NEW free, IsFiniteSet(free)
  PROVE  /\ Cardinality(free) \in Nat
         /\ IsFiniteSet(WorkingDays(a + 1, a + 7 * (n + Cardinality(free)), free))
         /\ Cardinality(WorkingDays(a + 1, a + 7 * (n + Cardinality(free)), free)) >= 5 * n
<1>1. PICK c \in Nat : c = Cardinality(free)
  BY FS_CardinalityType
<1> DEFINE all == WorkingDays(a + 1, a + 7 * (n + c), {})
<1>2. IsFiniteSet(all) /\ Cardinality(all) = 5 * (n + c)
  BY FiveEachWeek, n + c \in Nat
<1>3. WorkingDays(a + 1, a + 7 * (n + c), free) = all \ free
  BY DEF WorkingDays
<1>4. PICK i \in Nat : i = Cardinality(all \intersect free)
  <2> HIDE DEF all
  <2>1. QED  BY <1>2, FS_Intersection, FS_CardinalityType
<1>5. i <= c
  <2> HIDE DEF all
  <2>1. QED  BY <1>1, <1>4, FS_Subset, all \intersect free \in SUBSET free
<1>6. IsFiniteSet(all \ free) /\ Cardinality(all \ free) = 5 * (n + c) - i
  <2> HIDE DEF all
  <2>1. QED  BY <1>2, <1>4, FS_Difference
<1>7. 5 * (n + c) - i >= 5 * n
  BY <1>4, <1>5
<1> HIDE DEF all
<1>8. QED  BY <1>1, <1>3, <1>6, <1>7

\* Counting day by day meets every number on its way, and meets it on a working day.
LEMMA CountIsMet ==
  ASSUME NEW a \in Nat, NEW b \in Nat, a <= b, NEW free, NEW n \in Nat \ {0},
         Cardinality(WorkingDays(a + 1, b, free)) >= n
  PROVE  \E d \in WorkingDays(a + 1, b, free) : Cardinality(WorkingDays(a + 1, d, free)) = n
<1> DEFINE D(d) == WorkingDays(a + 1, d, free)
           Late == {d \in a .. b : Cardinality(D(d)) >= n}
<1>1. \A d \in a .. b : IsFiniteSet(D(d)) /\ Cardinality(D(d)) \in Nat
  <2>1. TAKE d \in a .. b
  <2>2. IsFiniteSet(a + 1 .. d) /\ D(d) \in SUBSET (a + 1 .. d)
    BY FS_Interval DEF WorkingDays
  <2> HIDE DEF D
  <2>3. QED  BY <2>2, FS_Subset, FS_CardinalityType
<1>2. Late \subseteq Nat /\ IsFiniteSet(Late) /\ b \in Late
  <2>1. IsFiniteSet(a .. b) /\ Late \in SUBSET (a .. b) /\ b \in Late /\ Late \subseteq Nat
    BY FS_Interval
  <2> HIDE DEF Late
  <2>2. QED  BY <2>1, FS_Subset
<1>3. PICK m \in Late : \A d \in Late : m <= d
  <2> HIDE DEF Late
  <2>1. QED  BY <1>2, Least
<1>4. m # a
  <2>1. D(a) = {}
    BY DEF WorkingDays
  <2>2. Cardinality(D(a)) = 0
    BY <2>1, FS_EmptySet
  <2>3. a \notin Late
    BY <2>2
  <2>4. QED  BY <2>3
<1>5. m \in a + 1 .. b /\ m - 1 \in a .. b
  BY <1>4
<1>6. Cardinality(D(m - 1)) \in Nat /\ Cardinality(D(m - 1)) < n /\ Cardinality(D(m)) >= n
  BY <1>1, <1>3, <1>5
<1>7. CASE m \notin D(b)
  <2>1. D(m) = D(m - 1)
    BY <1>5, <1>7 DEF WorkingDays
  <2>2. QED  BY <1>6, <2>1
<1>8. CASE m \in D(b)
  <2>1. D(m) = D(m - 1) \union {m} /\ m \notin D(m - 1)
    BY <1>5, <1>8 DEF WorkingDays
  <2>2. Cardinality(D(m)) = Cardinality(D(m - 1)) + 1
    <3> HIDE DEF D
    <3>1. QED  BY <1>1, <1>5, <2>1, FS_AddElement
  <2>3. Cardinality(D(m)) = n
    BY <1>6, <2>2
  <2>4. QED  BY <1>8, <2>3
<1>9. QED  BY <1>7, <1>8

\* manual_booking_max_date
LEMMA HorizonFound ==
  ASSUME now \in Nat, IsFiniteSet(holidays)
  PROVE  ManualHorizonIsFull
<1>1. PICK today \in Nat : today = DateOf(now)
  BY DEF DateOf, DayMinutes
<1>2. PICK c \in Nat : c = Cardinality(holidays)
  BY FS_CardinalityType
<1>3. WorkingWeeks \in Nat \ {0}
  BY CalendarAssumption
<1> DEFINE latest == today + 7 * (WorkingWeeks + c)
           days == WorkingDays(today + 1, latest, holidays)
<1>4. latest \in Nat /\ today <= latest
  BY <1>3
<1>5. Cardinality(days) >= 5 * WorkingWeeks
  BY <1>2, <1>3, EnoughDays
<1>6. PICK d \in days : Cardinality(WorkingDays(today + 1, d, holidays)) = 5 * WorkingWeeks
  <2>1. 5 * WorkingWeeks \in Nat \ {0}
    BY <1>3
  <2> HIDE DEF latest
  <2>2. QED  BY <1>4, <1>5, <2>1, CountIsMet
<1>7. \A e \in days : {f \in days : f <= e} = WorkingDays(today + 1, e, holidays)
  BY <1>4 DEF WorkingDays
<1> DEFINE last == CHOOSE e \in days : Cardinality({f \in days : f <= e}) = 5 * WorkingWeeks
<1>8. ManualMaxDate(now, holidays) = last
  BY <1>1, <1>2 DEF ManualMaxDate, WorkingDays
<1>9. last \in days /\ Cardinality({f \in days : f <= last}) = 5 * WorkingWeeks
  <2>1. \E e \in days : Cardinality({f \in days : f <= e}) = 5 * WorkingWeeks
    BY <1>6, <1>7
  <2> HIDE DEF days
  <2>2. QED  BY <2>1
<1>10. last \in WorkingDays(today + 1, last, holidays) /\ last <= latest
  BY <1>4, <1>9 DEF WorkingDays
<1>11. Cardinality(WorkingDays(today + 1, last, holidays)) = 5 * WorkingWeeks
  BY <1>7, <1>9
<1>12. QED
  <2> HIDE DEF last
  <2>1. QED  BY <1>1, <1>2, <1>8, <1>10, <1>11 DEF ManualHorizonIsFull

FewHolidays == IsFiniteSet(holidays)

\* Holidays are entered one by one.
LEMMA HolidaysStayFew == ASSUME FewHolidays, [Next]_vars PROVE FewHolidays'
<1> USE DEF FewHolidays
<1>1. CASE AddHoliday
  BY <1>1, FS_AddElement DEF AddHoliday
<1>2. ASSUME NEW u \in Staff, UpdateRoom(u) \/ ResizeLabWork(u) PROVE UNCHANGED holidays
  BY <1>2 DEF UpdateRoom, ResizeLabWork
<1>3. ASSUME NEW b \in DOMAIN bookings, CancelBooking(b) PROVE UNCHANGED holidays
  BY <1>3 DEF CancelBooking, catalog
<1>4. ASSUME NEW st \in Students, BookConfirm(st) \/ \E u \in Staff : ManualBook(u, st)
      PROVE  UNCHANGED holidays
  BY <1>4 DEF BookConfirm, ManualBook, CreateBooking, catalog
<1>5. CASE Tick \/ Generate \/ RunJob \/ SetBlockedInAdmin \/ Edit \/ UNCHANGED vars
  BY <1>5 DEF Tick, Generate, RunJob, SetBlockedInAdmin, Edit, catalog, vars
<1>6. QED  BY <1>1, <1>2, <1>3, <1>4, <1>5 DEF Next

\* Staff can always book manually for exactly as many working days as the settings say,
\* whatever the day and whatever holidays are entered.
THEOREM ManualHorizonHolds == Spec => []ManualHorizonIsFull
<1>1. Init => FewHolidays
  BY FS_EmptySet DEF Init, FewHolidays
<1>2. FewHolidays /\ [Next]_vars => FewHolidays'
  BY HolidaysStayFew
<1>3. Types /\ FewHolidays => ManualHorizonIsFull
  BY Today, HorizonFound DEF FewHolidays
<1>4. QED  BY <1>1, <1>2, <1>3, AlwaysTyped, PTL DEF Spec

-----------------------------------------------------------------------------
(* Odd and even weeks *)

\* Between two firsts of September, the days from a Monday to a Sunday have one parity
\* and the next week has the other: who comes on odd weeks comes every second week.
THEOREM WeeksAlternate ==
  ASSUME NEW d \in Int, NEW e \in Int, YearStart(d) \in Int, YearStart(e) = YearStart(d)
  PROVE  /\ d \div 7 = e \div 7 => AcademicWeekParity(d) = AcademicWeekParity(e)
         /\ e \div 7 = d \div 7 + 1 => AcademicWeekParity(d) # AcademicWeekParity(e)
<1>1. PICK m \in Int : WeekOneMonday(d) = 7 * m
  <2>1. PICK y \in Int : y = YearStart(d)
    OBVIOUS
  <2>2. y - (y % 7) = 7 * (y \div 7) /\ y \div 7 \in Int
    BY SMT
  <2>3. QED  BY <2>1, <2>2 DEF WeekOneMonday, WeekdayOf
<1>2. WeekOneMonday(e) = 7 * m
  BY <1>1 DEF WeekOneMonday
<1>3. ASSUME NEW x \in Int PROVE x \div 7 \in Int /\ (x - 7 * m) \div 7 = x \div 7 - m
  BY SMT
<1>4. PICK v \in Int : v = d \div 7
  BY <1>3
<1>5. PICK w \in Int : w = e \div 7
  BY <1>3
<1>6. /\ AcademicWeekParity(d) = IF (v - m + 1) % 2 = 1 THEN "ODD" ELSE "EVEN"
      /\ AcademicWeekParity(e) = IF (w - m + 1) % 2 = 1 THEN "ODD" ELSE "EVEN"
  BY <1>1, <1>2, <1>3, <1>4, <1>5 DEF AcademicWeekParity
<1>7. w = v + 1 => ((v - m + 1) % 2 = 1 <=> (w - m + 1) % 2 # 1)
  BY SMT
<1>8. QED  BY <1>4, <1>5, <1>6, <1>7

=============================================================================
