----------------------------- MODULE Attendance -----------------------------
(***************************************************************************)
(* What becomes of bookings when their session is over: change_status by   *)
(* staff, the no-show count and the explanation flag of a student in a     *)
(* laboratory, and the job that marks ended sessions VISITED               *)
(* (bookings/services/attendance.py, booking_mutations.py).                *)
(*                                                                         *)
(* A call of change_status that moves a count is a transaction of four     *)
(* statements: it locks the booking, reads or creates the attendance row   *)
(* under its own lock, and writes both rows.  A call that touches no       *)
(* count is one action on one locked row.                                  *)
(***************************************************************************)
EXTENDS Integers, FiniteSets

CONSTANTS
  Bookings, Sessions, SessionOf,
  Accounts,       \* attendance rows: a student in a laboratory
  NoAccount,      \* resolve_booking_laboratory found no laboratory
  AccountOf,      \* the account a booking is counted in, or NoAccount
  Threshold,      \* NO_SHOW_EXPLANATION_THRESHOLD
  Staff, Jobs,    \* callers of change_status, and runs of the auto-visited job
  NoCall

ASSUME AttendanceAssumption ==
  /\ IsFiniteSet(Bookings) /\ Sessions # {}
  /\ SessionOf \in [Bookings -> Sessions]
  /\ NoAccount \notin Accounts
  /\ AccountOf \in [Bookings -> Accounts \union {NoAccount}]
  /\ Threshold \in Nat \ {0}
  /\ Staff \intersect Jobs = {}
  /\ NoCall \notin Staff \union Jobs

VARIABLES
  status, fact,       \* current_status and had_no_show of each booking
  known,              \* the attendance rows that exist
  count, flag,        \* their no_show_count and explanation_required
  rowLock,            \* the call that holds the row lock of each booking
  accountLock,        \* the call that holds, or is inserting, an attendance row
  pc,
  work,               \* what a call is doing: [booking, new, delta]
  copy,               \* the attendance row as the call read it
  closed,             \* the ended sessions that are CLOSED; the others are OPEN
  batch,              \* sessions a job has loaded and not yet handled
  loadedOpen,         \* those of its sessions that were OPEN when loaded
  current,            \* the session a job is marking
  todo                \* its bookings that were BOOKED when the job listed them

rows == <<status, fact>>
ledger == <<known, count, flag>>
locks == <<rowLock, accountLock>>
jobs == <<closed, batch, loadedOpen, current, todo>>
vars == <<rows, ledger, locks, pc, work, copy, jobs>>

Calls == Staff \union Jobs

NoCopy == [count |-> 0, flag |-> FALSE]

NoWork == [booking |-> NoCall, new |-> "BOOKED", delta |-> 0]

Init ==
  /\ status = [b \in Bookings |-> "BOOKED"]
  /\ fact = [b \in Bookings |-> FALSE]
  /\ known = {}
  /\ count = [a \in Accounts |-> 0]
  /\ flag = [a \in Accounts |-> FALSE]
  /\ rowLock = [b \in Bookings |-> NoCall]
  /\ accountLock = [a \in Accounts |-> NoCall]
  /\ pc = [c \in Calls |-> "idle"]
  /\ work = [c \in Calls |-> NoWork]
  /\ copy = [c \in Calls |-> NoCopy]
  /\ closed \in SUBSET Sessions
  /\ batch = [j \in Jobs |-> {}]
  /\ loadedOpen = [j \in Jobs |-> {}]
  /\ current = [j \in Jobs |-> CHOOSE s \in Sessions : TRUE]
  /\ todo = [j \in Jobs |-> {}]

-----------------------------------------------------------------------------
(* change_status *)

Terminal == {"REACCESS", "VISITED", "CANCELLED", "SLOT_CANCELLED"}

\* STATUS_TRANSITIONS, and the cancellations that change_status delegates.
StatusTransitions(old) ==
  CASE old = "BOOKED"  -> {"VISITED", "NO_SHOW", "REACCESS", "CANCELLED", "SLOT_CANCELLED"}
    [] old = "NO_SHOW" -> {"REACCESS", "VISITED"}
    [] OTHER           -> {}

CorrectingNoShow(b, new) == new = "VISITED" /\ status[b] = "NO_SHOW" /\ fact[b]

Delta(b, new) ==
  IF new = "NO_SHOW" /\ ~fact[b] THEN 1
  ELSE IF CorrectingNoShow(b, new) THEN -1
  ELSE 0

\* _record_status: the fact is sticky, only a correction takes it back.
NewFact(b, new) == (fact[b] /\ ~CorrectingNoShow(b, new)) \/ new = "NO_SHOW"

RecordStatus(b, new) ==
  /\ status' = [status EXCEPT ![b] = new]
  /\ fact' = [fact EXCEPT ![b] = NewFact(b, new)]

\* Staff return to their caller, the job to the next booking of its list.
Return(c) == pc' = [pc EXCEPT ![c] = IF c \in Jobs THEN "visit" ELSE "idle"]

Ticked(c, b) == todo' = [j \in Jobs |-> IF j = c THEN todo[j] \ {b} ELSE todo[j]]

Asks(c, b, new) ==
  \/ c \in Staff /\ pc[c] = "idle"
  \/ c \in Jobs /\ pc[c] = "visit" /\ b \in todo[c] /\ new = "VISITED"

Counts(b, new) == AccountOf[b] # NoAccount /\ Delta(b, new) # 0

\* Defect: the booking is read without FOR UPDATE.
LockBookingUnlocked(c, b, new) ==
  /\ Asks(c, b, new)
  /\ new \in StatusTransitions(status[b])
  /\ Counts(b, new)
  /\ work' = [work EXCEPT ![c] = [booking |-> b, new |-> new, delta |-> Delta(b, new)]]
  /\ pc' = [pc EXCEPT ![c] = "fetch"]
  /\ UNCHANGED <<rows, ledger, locks, copy, jobs>>

\* SELECT ... FOR UPDATE on the booking, and the status it has by then.
LockBooking(c, b, new) ==
  /\ Asks(c, b, new)
  /\ rowLock[b] = NoCall
  /\ new \in StatusTransitions(status[b])
  /\ Counts(b, new)
  /\ rowLock' = [rowLock EXCEPT ![b] = c]
  /\ work' = [work EXCEPT ![c] = [booking |-> b, new |-> new, delta |-> Delta(b, new)]]
  /\ pc' = [pc EXCEPT ![c] = "fetch"]
  /\ UNCHANGED <<rows, ledger, accountLock, copy, jobs>>

\* Defect: the job trusts the status that the booking had in its list.
ChangeUncountedStale(c, b, new) ==
  /\ Asks(c, b, new)
  /\ rowLock[b] = NoCall
  /\ new \in StatusTransitions(IF c \in Jobs THEN "BOOKED" ELSE status[b])
  /\ ~Counts(b, new)
  /\ RecordStatus(b, new)
  /\ Return(c) /\ Ticked(c, b)
  /\ UNCHANGED <<ledger, locks, work, copy, closed, batch, loadedOpen, current>>

ChangeUncounted(c, b, new) ==
  /\ Asks(c, b, new)
  /\ rowLock[b] = NoCall
  /\ new \in StatusTransitions(status[b])
  /\ ~Counts(b, new)
  /\ RecordStatus(b, new)
  /\ Return(c) /\ Ticked(c, b)
  /\ UNCHANGED <<ledger, locks, work, copy, closed, batch, loadedOpen, current>>

\* Defect: the job also skips a booking that somebody is changing.
SkipBookingLocked(j, b) ==
  /\ Asks(j, b, "VISITED")
  /\ rowLock[b] # NoCall \/ "VISITED" \notin StatusTransitions(status[b])
  /\ Return(j) /\ Ticked(j, b)
  /\ UNCHANGED <<rows, ledger, locks, work, copy, closed, batch, loadedOpen, current>>

\* The job ignores a booking that is VISITED already, and logs a refusal.
SkipBooking(j, b) ==
  /\ Asks(j, b, "VISITED")
  /\ rowLock[b] = NoCall
  /\ "VISITED" \notin StatusTransitions(status[b])
  /\ Return(j) /\ Ticked(j, b)
  /\ UNCHANGED <<rows, ledger, locks, work, copy, closed, batch, loadedOpen, current>>

Account(c) == AccountOf[work[c].booking]

HaveAccount(c, a, read) ==
  /\ accountLock[a] = NoCall
  /\ accountLock' = [accountLock EXCEPT ![a] = c]
  /\ copy' = [copy EXCEPT ![c] = read]
  /\ pc' = [pc EXCEPT ![c] = "fetched"]
  /\ UNCHANGED <<rows, ledger, rowLock, work, jobs>>

Goto(c, to) ==
  /\ pc' = [pc EXCEPT ![c] = to]
  /\ UNCHANGED <<rows, ledger, locks, work, copy, jobs>>

\* Defect: the row is read without FOR UPDATE.
FetchWithoutLock(c) ==
  LET a == Account(c) IN
  /\ pc[c] = "fetch"
  /\ IF a \in known
       THEN /\ copy' = [copy EXCEPT ![c] = [count |-> count[a], flag |-> flag[a]]]
            /\ pc' = [pc EXCEPT ![c] = "fetched"]
            /\ UNCHANGED <<rows, ledger, locks, work, jobs>>
       ELSE Goto(c, "create")

\* get_or_create_lab_attendance: SELECT ... FOR UPDATE sees committed rows ...
FetchAttendance(c) ==
  LET a == Account(c) IN
  /\ pc[c] = "fetch"
  /\ IF a \in known
       THEN HaveAccount(c, a, [count |-> count[a], flag |-> flag[a]])
       ELSE Goto(c, "create")

\* Defect: the row is looked for once more without being locked, for ever.
CreateAgain(c) ==
  /\ pc[c] = "create"
  /\ IF Account(c) \in known
       THEN Goto(c, "create")
       ELSE HaveAccount(c, Account(c), NoCopy)

\* Defect: a row found in place is read without being locked.
CreateUnlocked(c) ==
  LET a == Account(c) IN
  /\ pc[c] = "create"
  /\ IF a \in known
       THEN /\ copy' = [copy EXCEPT ![c] = [count |-> count[a], flag |-> flag[a]]]
            /\ pc' = [pc EXCEPT ![c] = "fetched"]
            /\ UNCHANGED <<rows, ledger, locks, work, jobs>>
       ELSE HaveAccount(c, a, NoCopy)

\* ... and get_or_create inserts a missing one.  The unique constraint makes
\* it wait for an insert in progress; a row found in place is locked and read.
CreateAttendance(c) ==
  /\ pc[c] = "create"
  /\ IF Account(c) \in known
       THEN Goto(c, "fetch")
       ELSE HaveAccount(c, Account(c), NoCopy)

Free(c) ==
  /\ rowLock' = [b \in Bookings |-> IF rowLock[b] = c THEN NoCall ELSE rowLock[b]]
  /\ accountLock' = [a \in Accounts |-> IF accountLock[a] = c THEN NoCall ELSE accountLock[a]]

NewCount(c) == IF copy[c].count + work[c].delta > 0 THEN copy[c].count + work[c].delta ELSE 0

\* Defect: > instead of >=.
NewFlagOffByOne(c, old) ==
  IF NewCount(c) > Threshold /\ ~copy[c].flag THEN TRUE
  ELSE IF NewCount(c) < Threshold /\ copy[c].flag THEN FALSE
  ELSE old

\* Defect: a correction never lowers the flag.
NewFlagNeverLowered(c, old) ==
  IF NewCount(c) >= Threshold /\ ~copy[c].flag THEN TRUE ELSE old

\* adjust_no_show_count writes the flag only when it changes it.
NewFlag(c, old) ==
  IF NewCount(c) >= Threshold /\ ~copy[c].flag THEN TRUE
  ELSE IF NewCount(c) < Threshold /\ copy[c].flag THEN FALSE
  ELSE old

\* UPDATE both rows and COMMIT
CommitStatus(c) ==
  LET a == Account(c)
      b == work[c].booking
  IN
  /\ pc[c] = "fetched"
  /\ known' = known \union {a}
  /\ count' = [count EXCEPT ![a] = NewCount(c)]
  /\ flag' = [flag EXCEPT ![a] = NewFlag(c, flag[a])]
  /\ RecordStatus(b, work[c].new)
  /\ Free(c)
  /\ work' = [work EXCEPT ![c] = NoWork]
  /\ copy' = [copy EXCEPT ![c] = NoCopy]
  /\ Return(c) /\ Ticked(c, b)
  /\ UNCHANGED <<closed, batch, loadedOpen, current>>

\* clear_explanation_required: one row, read and written under its lock.
ClearExplanation(a) ==
  /\ a \in known
  /\ accountLock[a] = NoCall
  /\ flag[a]
  /\ flag' = [flag EXCEPT ![a] = FALSE]
  /\ UNCHANGED <<rows, known, count, locks, pc, work, copy, jobs>>

-----------------------------------------------------------------------------
(* mark_visited_for_ended_sessions *)

BookedIn(s) == {b \in Bookings : SessionOf[b] = s /\ status[b] = "BOOKED"}

\* The queryset is evaluated once, the statuses of its sessions with it.
JobLoad(j) ==
  /\ pc[j] = "idle"
  /\ batch' = [batch EXCEPT ![j] = {s \in Sessions : s \in closed => BookedIn(s) # {}}]
  /\ loadedOpen' = [loadedOpen EXCEPT ![j] = Sessions \ closed]
  /\ pc' = [pc EXCEPT ![j] = "loop"]
  /\ UNCHANGED <<rows, ledger, locks, work, copy, closed, current, todo>>

\* session.save() when the loaded status was not CLOSED
Close(j, s) == closed' = IF s \in loadedOpen[j] THEN closed \union {s} ELSE closed

\* MANUAL: an ended session is closed, its bookings are left as they are.
JobCloseManually(j, s) ==
  /\ pc[j] = "loop" /\ s \in batch[j]
  /\ Close(j, s)
  /\ batch' = [batch EXCEPT ![j] = @ \ {s}]
  /\ UNCHANGED <<rows, ledger, locks, pc, work, copy, loadedOpen, current, todo>>

\* The deadline of an automatic mode has not come.
JobNotReady(j, s) ==
  /\ pc[j] = "loop" /\ s \in batch[j]
  /\ batch' = [batch EXCEPT ![j] = @ \ {s}]
  /\ UNCHANGED <<rows, ledger, locks, pc, work, copy, closed, loadedOpen, current, todo>>

JobList(j, s) ==
  /\ pc[j] = "loop" /\ s \in batch[j]
  /\ current' = [current EXCEPT ![j] = s]
  /\ todo' = [todo EXCEPT ![j] = BookedIn(s)]
  /\ batch' = [batch EXCEPT ![j] = @ \ {s}]
  /\ pc' = [pc EXCEPT ![j] = "visit"]
  /\ UNCHANGED <<rows, ledger, locks, work, copy, closed, loadedOpen>>

JobClose(j) ==
  /\ pc[j] = "visit" /\ todo[j] = {}
  /\ Close(j, current[j])
  /\ pc' = [pc EXCEPT ![j] = "loop"]
  /\ UNCHANGED <<rows, ledger, locks, work, copy, batch, loadedOpen, current, todo>>

JobEnd(j) ==
  /\ pc[j] = "loop" /\ batch[j] = {}
  /\ pc' = [pc EXCEPT ![j] = "idle"]
  /\ loadedOpen' = [loadedOpen EXCEPT ![j] = {}]
  /\ UNCHANGED <<rows, ledger, locks, work, copy, closed, batch, current, todo>>

-----------------------------------------------------------------------------
Mid == {"fetch", "create", "fetched"}

\* A worker that dies loses its transaction; a job loses the rest of its run.
Die(c) ==
  /\ pc[c] # "idle"
  /\ Free(c)
  /\ pc' = [pc EXCEPT ![c] = "idle"]
  /\ work' = [work EXCEPT ![c] = NoWork]
  /\ copy' = [copy EXCEPT ![c] = NoCopy]
  /\ batch' = [j \in Jobs |-> IF j = c THEN {} ELSE batch[j]]
  /\ todo' = [j \in Jobs |-> IF j = c THEN {} ELSE todo[j]]
  /\ loadedOpen' = [j \in Jobs |-> IF j = c THEN {} ELSE loadedOpen[j]]
  /\ UNCHANGED <<rows, ledger, closed, current>>

CallStep(c) == FetchAttendance(c) \/ CreateAttendance(c) \/ CommitStatus(c)

JobStep(j) ==
  \/ \E s \in Sessions : JobCloseManually(j, s) \/ JobNotReady(j, s) \/ JobList(j, s)
  \/ \E b \in Bookings :
       LockBooking(j, b, "VISITED") \/ ChangeUncounted(j, b, "VISITED") \/ SkipBooking(j, b)
  \/ JobClose(j) \/ JobEnd(j)

StaffStep(c) ==
  \E b \in Bookings : \E new \in Terminal \union {"NO_SHOW"} :
    LockBooking(c, b, new) \/ ChangeUncounted(c, b, new)

Next ==
  \/ \E c \in Staff : StaffStep(c)
  \/ \E c \in Calls : CallStep(c) \/ Die(c)
  \/ \E j \in Jobs : JobLoad(j) \/ JobStep(j)
  \/ \E a \in Accounts : ClearExplanation(a)

Spec == Init /\ [][Next]_vars

\* A job in progress goes on, and PostgreSQL queues those that wait for a row
\* lock: whoever finds it free again and again gets it.  Nobody has to change a
\* status, to clear a flag or to start a job.
Fairness ==
  /\ \A c \in Calls : SF_vars(CallStep(c))
  /\ \A j \in Jobs : SF_vars(JobStep(j))

FairSpec == Spec /\ Fairness

-----------------------------------------------------------------------------
Statuses == Terminal \union {"BOOKED", "NO_SHOW"}

\* Every variable has its type, and a call in a transaction works on a booking
\* whose row lock it holds and whose account exists.
TypeOK ==
  /\ status \in [Bookings -> Statuses]
  /\ fact \in [Bookings -> BOOLEAN]
  /\ known \in SUBSET Accounts
  /\ count \in [Accounts -> Nat]
  /\ flag \in [Accounts -> BOOLEAN]
  /\ rowLock \in [Bookings -> Calls \union {NoCall}]
  /\ accountLock \in [Accounts -> Calls \union {NoCall}]
  /\ pc \in [Calls -> Mid \union {"idle", "loop", "visit"}]
  /\ \A c \in Staff : pc[c] \notin {"loop", "visit"}
  /\ work \in [Calls -> [booking : Bookings \union {NoCall}, new : Statuses, delta : {-1, 0, 1}]]
  /\ \A c \in Calls : pc[c] \in Mid =>
       /\ work[c].booking \in Bookings
       /\ rowLock[work[c].booking] = c
       /\ Account(c) \in Accounts
  /\ copy \in [Calls -> [count : Nat, flag : BOOLEAN]]
  /\ closed \in SUBSET Sessions
  /\ batch \in [Jobs -> SUBSET Sessions]
  /\ loadedOpen \in [Jobs -> SUBSET Sessions]
  /\ current \in [Jobs -> Sessions]
  /\ todo \in [Jobs -> SUBSET Bookings]

NoShowsOf(a) == {b \in Bookings : AccountOf[b] = a /\ fact[b]}

\* The count of a student in a laboratory is the number of the student's
\* bookings there with the fact of a no-show, through any interleaving of
\* changes, corrections and crashes (adjust_no_show_count, _record_status).
CountIsNoShows ==
  \A a \in Accounts : count[a] = Cardinality(NoShowsOf(a))

\* A NO_SHOW booking carries the fact, and the fact survives only there and on
\* a booking that was given REACCESS after it (had_no_show).
FactsAreNoShows ==
  \A b \in Bookings :
    /\ status[b] = "NO_SHOW" => fact[b]
    /\ fact[b] => status[b] \in {"NO_SHOW", "REACCESS"}

\* No explanation is demanded below the threshold, whatever is corrected while
\* the flag is raised or cleared (adjust_no_show_count).
FlagNeedsThreshold ==
  \A a \in Accounts : flag[a] => count[a] >= Threshold

\* A no-show that reaches or passes the threshold leaves the flag raised, even
\* when staff cleared it between two no-shows.
NoShowRaisesFlag ==
  [][\A a \in Accounts :
       count'[a] > count[a] /\ count'[a] >= Threshold => flag'[a]]_vars

\* A final status never changes, not even by a job that listed the booking
\* while it was BOOKED (TERMINAL_STATUSES).
FinalStaysFinal ==
  [][\A b \in Bookings : status[b] \in Terminal => status'[b] = status[b]]_vars

\* A session is not closed by an automatic mode while a booking of it is still
\* BOOKED, and the job has left none behind when it comes to close it.
JobLeavesNoneBooked ==
  \A j \in Jobs : pc[j] = "visit" /\ todo[j] = {} => BookedIn(current[j]) = {}

\* Every change of status and every run of the job comes to its end.
EveryCallEnds ==
  \A c \in Calls : pc[c] # "idle" ~> pc[c] = "idle"

-----------------------------------------------------------------------------
(* The abstract specification *)

Promised == INSTANCE NoShowLedger WITH missed <- {b \in Bookings : fact[b]}

\* However calls overlap, wait for each other's rows or die between two statements, to
\* an observer each change of status is one legal step that counts the no-shows of the
\* student anew and lets the flag follow, and nothing else moves a count or a flag but
\* an explanation received (change_status, adjust_no_show_count).
ChangesAreAtomic == Promised!Spec

-----------------------------------------------------------------------------
(* What the docstrings say of the program *)

\* The job catches up on sessions with BOOKED bookings (attendance.py:150): what
\* it marks VISITED is BOOKED.
JobMarksBookedOnly ==
  [][\A j \in Jobs : \A b \in Bookings :
       pc[j] = "fetched" /\ work[j].booking = b /\ status'[b] # status[b]
         => status[b] = "BOOKED"]_vars

=============================================================================
