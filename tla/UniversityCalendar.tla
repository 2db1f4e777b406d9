------------------------- MODULE UniversityCalendar -------------------------
(***************************************************************************)
(* Dates, pairs and weeks (scheduling/services/slot_grid.py) and the       *)
(* windows in which a session may be booked                                *)
(* (bookings/services/session_availability.py): operators without state.   *)
(*                                                                         *)
(* A moment is a number of minutes in the local time zone, which has no    *)
(* summer time; day 0 is a Monday.                                         *)
(***************************************************************************)
EXTENDS Integers, FiniteSetsExt

CONSTANTS
  SeptemberFirsts,  \* the days that are 1 September
  HorizonDays,      \* BOOKING_HORIZON_DAYS
  CancelHours,      \* BOOKING_CANCEL_HOURS
  WorkingWeeks,     \* MANUAL_BOOKING_WORKING_WEEKS
  Settings          \* LaboratoryBookingSettings of the laboratories that have them:
                    \* [horizon, cancel, base, hours, mode], Null for what is not set

Null == -1

ASSUME CalendarAssumption ==
  /\ SeptemberFirsts \subseteq Int /\ IsFiniteSet(SeptemberFirsts)
  /\ HorizonDays \in Nat /\ CancelHours \in Nat /\ WorkingWeeks \in Nat \ {0}
  /\ \A l \in DOMAIN Settings : Settings[l] \in
       [horizon : Nat \union {Null}, cancel : Nat \union {Null}, base : 0..1439,
        hours : Nat \union {Null}, mode : {"MANUAL", "AT_22_00", "AT_09_00_NEXT"}]

DayMinutes == 1440

At(day, minute) == day * DayMinutes + minute

DateOf(t) == t \div DayMinutes

MinuteOf(t) == t % DayMinutes

WeekdayOf(day) == day % 7

Time(h, m) == h * 60 + m

-----------------------------------------------------------------------------
(* The grid *)

\* UNIVERSITY_PAIR_SLOTS: the fifth pair is 5 minutes short.
Pairs == {
  [from |-> Time(8, 50),  to |-> Time(10, 20)], [from |-> Time(10, 35), to |-> Time(12, 5)],
  [from |-> Time(12, 35), to |-> Time(14, 5)],  [from |-> Time(14, 15), to |-> Time(15, 45)],
  [from |-> Time(15, 55), to |-> Time(17, 20)], [from |-> Time(17, 30), to |-> Time(19, 0)]}

GridMinutes == 15

\* pair_start_times_for_duration
StartTimes(duration) ==
  UNION {{p.from + GridMinutes * k : k \in 0 .. (p.to - p.from - duration) \div GridMinutes} :
         p \in {q \in Pairs : duration <= q.to - q.from}}

\* _pair_slot_for_time
PairsAt(minute) == {p \in Pairs : p.from <= minute /\ minute < p.to}

\* is_pair_time_for_booking
OnGrid(start) ==
  \E p \in PairsAt(MinuteOf(start)) : (MinuteOf(start) - p.from) % GridMinutes = 0

\* The week that contains 1 September is the first; its days before that date
\* still belong to the year before.
YearStart(day) == Max({f \in SeptemberFirsts : f <= day})

WeekOneMonday(day) == YearStart(day) - WeekdayOf(YearStart(day))

\* academic_week_parity
AcademicWeekParity(day) ==
  IF (((day - WeekOneMonday(day)) \div 7) + 1) % 2 = 1 THEN "ODD" ELSE "EVEN"

ParityMatches(parity, day) == parity = "BOTH" \/ parity = AcademicWeekParity(day)

-----------------------------------------------------------------------------
(* Windows of a laboratory, which may be none *)

Or(value, default) == IF value = Null THEN default ELSE value

\* booking_window_config: the global settings with those of the laboratory over them
WindowConfig(l) ==
  IF l \in DOMAIN Settings
    THEN [horizon |-> Or(Settings[l].horizon, HorizonDays),
          cancel  |-> Or(Settings[l].cancel, CancelHours),
          base    |-> Settings[l].base, hours |-> Settings[l].hours]
    ELSE [horizon |-> HorizonDays, cancel |-> CancelHours, base |-> Time(9, 0), hours |-> Null]

\* _window_dates: from tomorrow to the horizon
WindowDates(horizon, now) == DateOf(now) + 1 .. DateOf(now) + horizon

\* is_day_open_for_booking
DayOpen(day, now, l) == day \in WindowDates(WindowConfig(l).horizon, now)

\* is_before_restriction_deadline
BeforeDeadline(start, now, l) ==
  LET config == WindowConfig(l) IN
  config.hours # Null => now <= At(DateOf(start), config.base) - config.hours * 60

\* _validate_cancel_window
CancelOpen(start, now, l) == now <= start - WindowConfig(l).cancel * 60

\* manual_booking_max_date: the last of the working days of so many weeks
ManualMaxDate(now, holidays) ==
  LET today  == DateOf(now)
      latest == today + 7 * (WorkingWeeks + Cardinality(holidays))
      days   == {d \in today + 1 .. latest : WeekdayOf(d) < 5 /\ d \notin holidays}
  IN  CHOOSE d \in days : Cardinality({e \in days : e <= d}) = 5 * WorkingWeeks

\* is_manual_session_time_allowed: in the future, or in the pair of now and not over
ManualTimeAllowed(start, end, now) ==
  /\ end > now
  /\ \/ start > now
     \/ /\ DateOf(start) = DateOf(now)
        /\ PairsAt(MinuteOf(start)) \intersect PairsAt(MinuteOf(now)) # {}

\* is_session_in_manual_booking_window: up to the latest date
InManualWindow(start, end, now, latest, holidays) ==
  /\ DateOf(start) <= latest
  /\ ManualTimeAllowed(start, end, now)
  /\ OnGrid(start)
  /\ DateOf(start) \notin holidays

-----------------------------------------------------------------------------
(* The auto-visited job *)

ModeOf(l) == IF l \in DOMAIN Settings THEN Settings[l].mode ELSE "MANUAL"

\* auto_visited_deadline
AutoVisitedDeadline(start, mode) ==
  IF mode = "AT_22_00" THEN At(DateOf(start), Time(22, 0)) ELSE At(DateOf(start) + 1, Time(9, 0))

\* is_ready_for_auto_visited
ReadyForAutoVisited(start, end, now, mode) ==
  /\ mode # "MANUAL"
  /\ end <= now
  /\ now >= AutoVisitedDeadline(start, mode)

=============================================================================
