-------------------------- MODULE AttendanceProofs --------------------------
(***************************************************************************)
(* The ledger of no-shows in Attendance is exact, for any number of        *)
(* bookings, students, laboratories, members of staff and jobs, and any    *)
(* threshold.                                                              *)
(***************************************************************************)
EXTENDS Attendance, FiniteSetTheorems, TLAPS

\* A call that has read an attendance row holds its lock, and its copy is current.
CopiesAreCurrent ==
  \A c \in Calls : pc[c] = "fetched" =>
    /\ accountLock[Account(c)] = c
    /\ copy[c].count = count[Account(c)]
    /\ copy[c].flag = flag[Account(c)]

\* An attendance row that does not exist counts nothing.
UnknownCountsNothing == \A a \in Accounts : a \notin known => count[a] = 0 /\ ~flag[a]

\* What a call in a transaction is about to do is still allowed and still moves the
\* count by as much, since it holds the row lock of its booking.
InHand(c) ==
  LET b == work[c].booking
      new == work[c].new
  IN  /\ new \in StatusTransitions(status[b])
      /\ work[c].delta = Delta(b, new)
      /\ Delta(b, new) # 0

WorkIsCurrent == \A c \in Calls : pc[c] \in Mid => InHand(c)

\* While a job is at a session, the bookings that are still BOOKED are on its list.
ListsAreComplete ==
  \A j \in Jobs : pc[j] \in Mid \union {"visit"} => BookedIn(current[j]) \subseteq todo[j]

Ledger ==
  /\ CountIsNoShows
  /\ FactsAreNoShows
  /\ FlagNeedsThreshold
  /\ UnknownCountsNothing

Inductive == TypeOK /\ CopiesAreCurrent /\ WorkIsCurrent /\ ListsAreComplete /\ Ledger

-----------------------------------------------------------------------------
(* The kinds of steps *)

\* A job works on its lists.
JobMoves(j) ==
  \/ \E s \in Sessions : JobCloseManually(j, s) \/ JobNotReady(j, s) \/ JobList(j, s)
  \/ JobLoad(j) \/ JobClose(j) \/ JobEnd(j)

\* A call of change_status is made.
Change(c, b, new) == LockBooking(c, b, new) \/ ChangeUncounted(c, b, new)

Step ==
  \/ \E c \in Calls, b \in Bookings, new \in Terminal \union {"NO_SHOW"} : Change(c, b, new)
  \/ \E j \in Jobs, b \in Bookings : SkipBooking(j, b)
  \/ \E c \in Calls : FetchAttendance(c) \/ CreateAttendance(c) \/ CommitStatus(c) \/ Die(c)
  \/ \E j \in Jobs : JobMoves(j)
  \/ \E a \in Accounts : ClearExplanation(a)
  \/ UNCHANGED vars

\* Staff and jobs make the same calls.
LEMMA StepKinds == [Next]_vars => Step
<1>1. ASSUME NEW c \in Staff, StaffStep(c) PROVE Step
  <2>1. c \in Calls
    BY DEF Calls
  <2>2. QED  BY <1>1, <2>1 DEF StaffStep, Step, Change
<1>2. ASSUME NEW j \in Jobs, JobStep(j) PROVE Step
  <2>1. j \in Calls /\ "VISITED" \in Terminal \union {"NO_SHOW"}
    BY DEF Calls, Terminal
  <2>2. CASE \E b \in Bookings : LockBooking(j, b, "VISITED") \/ ChangeUncounted(j, b, "VISITED")
    BY <2>1, <2>2 DEF Step, Change
  <2>3. CASE \E b \in Bookings : SkipBooking(j, b)
    BY <2>3 DEF Step
  <2>4. CASE (\E s \in Sessions : JobCloseManually(j, s) \/ JobNotReady(j, s) \/ JobList(j, s))
             \/ JobClose(j) \/ JobEnd(j)
    BY <2>4 DEF Step, JobMoves
  <2>5. QED  BY <1>2, <2>2, <2>3, <2>4 DEF JobStep
<1>3. ASSUME NEW c \in Calls, CallStep(c) \/ Die(c) PROVE Step
  BY <1>3 DEF CallStep, Step
<1>4. ASSUME NEW j \in Jobs, JobLoad(j) PROVE Step
  BY <1>4 DEF Step, JobMoves
<1>5. ASSUME NEW a \in Accounts, ClearExplanation(a) PROVE Step
  BY <1>5 DEF Step
<1>6. QED  BY <1>1, <1>2, <1>3, <1>4, <1>5 DEF Next, Step

\* The statements that fetch an attendance row leave the call without it, or with its
\* lock and a current copy.
Fetched(c) ==
  LET a == Account(c) IN
  /\ pc[c] \in {"fetch", "create"}
  /\ accountLock[a] = NoCall
  /\ accountLock' = [accountLock EXCEPT ![a] = c]
  /\ copy' = [copy EXCEPT ![c] = [count |-> count[a], flag |-> flag[a]]]
  /\ pc' = [pc EXCEPT ![c] = "fetched"]
  /\ UNCHANGED <<rows, ledger, rowLock, work, jobs>>

Retries(c) == pc[c] \in {"fetch", "create"} /\ \E to \in {"fetch", "create"} : Goto(c, to)

\* Those are the outcomes of both statements.
LEMMA FetchKinds ==
  ASSUME TypeOK, UnknownCountsNothing, NEW c \in Calls,
         FetchAttendance(c) \/ CreateAttendance(c)
  PROVE  Fetched(c) \/ Retries(c)
<1>1. CASE FetchAttendance(c)
  BY <1>1 DEF FetchAttendance, HaveAccount, Fetched, Retries
<1>2. CASE CreateAttendance(c) /\ Account(c) \in known
  BY <1>2 DEF CreateAttendance, Retries
<1>3. CASE CreateAttendance(c) /\ Account(c) \notin known
  <2>1. Account(c) \in Accounts
    BY <1>3 DEF CreateAttendance, TypeOK, Mid
  <2>2. NoCopy = [count |-> count[Account(c)], flag |-> flag[Account(c)]]
    BY <1>3, <2>1 DEF UnknownCountsNothing, NoCopy, TypeOK
  <2>3. QED  BY <1>3, <2>2 DEF CreateAttendance, HaveAccount, Fetched
<1>4. QED  BY <1>1, <1>2, <1>3

-----------------------------------------------------------------------------
(* Types *)

\* What holds of the locks and the work of calls in a transaction
LocksHeld ==
  \A c \in Calls : pc[c] \in Mid =>
    /\ work[c].booking \in Bookings
    /\ rowLock[work[c].booking] = c
    /\ Account(c) \in Accounts

\* The initial state has its types.
LEMMA TypeInit == Init => TypeOK
<1> SUFFICES ASSUME Init PROVE TypeOK
  OBVIOUS
<1> USE AttendanceAssumption DEF Init, TypeOK, Statuses, Terminal, NoWork, NoCopy, Mid
<1>1. \A j \in Jobs : current[j] \in Sessions
  OBVIOUS
<1>2. current \in [Jobs -> Sessions]
  BY <1>1
<1>3. \A c \in Calls : pc[c] = "idle"
  OBVIOUS
<1>4. QED  BY <1>2, <1>3 DEF Calls

\* Changes of status go to a status that staff or the job may set.
LEMMA Transitions ==
  ASSUME NEW old \in Statuses
  PROVE  /\ StatusTransitions(old) \subseteq Statuses \ {"BOOKED"}
         /\ old \in Terminal => StatusTransitions(old) = {}
BY DEF StatusTransitions, Statuses, Terminal

\* The fact and the work of a booking are of the right type.
LEMMA ChangeTypes ==
  ASSUME TypeOK, NEW b \in Bookings, NEW new \in Statuses
  PROVE  Delta(b, new) \in {-1, 0, 1} /\ NewFact(b, new) \in BOOLEAN
BY DEF TypeOK, Delta, NewFact, CorrectingNoShow

\* A recorded status keeps the types of both columns.
LEMMA RecordTypes ==
  ASSUME TypeOK, NEW b \in Bookings, NEW new \in Statuses, RecordStatus(b, new)
  PROVE  status' \in [Bookings -> Statuses] /\ fact' \in [Bookings -> BOOLEAN]
BY ChangeTypes DEF TypeOK, RecordStatus

\* A commit or a rollback frees the locks of one call and no others.
LEMMA FreeTypes ==
  ASSUME TypeOK, NEW c \in Calls, Free(c)
  PROVE  /\ rowLock' \in [Bookings -> Calls \union {NoCall}]
         /\ accountLock' \in [Accounts -> Calls \union {NoCall}]
         /\ \A b \in Bookings : rowLock[b] # c => rowLock'[b] = rowLock[b]
         /\ \A a \in Accounts : accountLock[a] # c => accountLock'[a] = accountLock[a]
BY DEF TypeOK, Free

\* The account a call counts in depends on its work alone.
LEMMA SameAccount ==
  ASSUME NEW c \in Calls, work'[c] = work[c] PROVE Account(c)' = Account(c)
BY DEF Account

\* Every step keeps the types.
LEMMA TypeStep == ASSUME TypeOK, UnknownCountsNothing, Step PROVE TypeOK'
<1> DEFINE PcTypes == /\ pc \in [Calls -> Mid \union {"idle", "loop", "visit"}]
                      /\ \A c \in Staff : pc[c] \notin {"loop", "visit"}
           WorkTypes == work \in [Calls -> [booking : Bookings \union {NoCall}, new : Statuses,
                                            delta : {-1, 0, 1}]]
           LockTypes == /\ rowLock \in [Bookings -> Calls \union {NoCall}]
                        /\ accountLock \in [Accounts -> Calls \union {NoCall}]
           RowTypes == status \in [Bookings -> Statuses] /\ fact \in [Bookings -> BOOLEAN]
           LedgerTypes == /\ known \in SUBSET Accounts
                          /\ count \in [Accounts -> Nat]
                          /\ flag \in [Accounts -> BOOLEAN]
           CopyTypes == copy \in [Calls -> [count : Nat, flag : BOOLEAN]]
           JobTypes == /\ closed \in SUBSET Sessions
                       /\ batch \in [Jobs -> SUBSET Sessions]
                       /\ loadedOpen \in [Jobs -> SUBSET Sessions]
                       /\ current \in [Jobs -> Sessions]
                       /\ todo \in [Jobs -> SUBSET Bookings]
<1>0. TypeOK <=> /\ PcTypes /\ WorkTypes /\ LockTypes /\ RowTypes /\ LedgerTypes /\ CopyTypes
                 /\ JobTypes /\ LocksHeld
  BY DEF TypeOK, LocksHeld
<1>00. TypeOK' <=> /\ PcTypes' /\ WorkTypes' /\ LockTypes' /\ RowTypes' /\ LedgerTypes' /\ CopyTypes'
                   /\ JobTypes' /\ LocksHeld'
  BY DEF TypeOK, LocksHeld
<1>a. NoCall \notin Calls /\ Staff \subseteq Calls /\ Jobs \subseteq Calls /\ Staff \intersect Jobs = {}
  BY AttendanceAssumption DEF Calls
<1>b. Terminal \union {"NO_SHOW"} \subseteq Statuses
  BY DEF Statuses
<1>1. ASSUME NEW c \in Calls, NEW b \in Bookings, NEW new \in Terminal \union {"NO_SHOW"},
             LockBooking(c, b, new)
      PROVE  TypeOK'
  <2>1. AccountOf[b] \in Accounts
    BY <1>1, AttendanceAssumption DEF LockBooking, Counts
  <2>2. /\ rowLock[b] = NoCall /\ rowLock' = [rowLock EXCEPT ![b] = c]
        /\ pc' = [pc EXCEPT ![c] = "fetch"]
        /\ work' = [work EXCEPT ![c] = [booking |-> b, new |-> new, delta |-> Delta(b, new)]]
        /\ UNCHANGED <<rows, ledger, accountLock, copy, jobs>>
    BY <1>1 DEF LockBooking
  <2>3. Delta(b, new) \in {-1, 0, 1}
    BY <1>b, ChangeTypes
  <2>4. WorkTypes'
    BY <1>0, <1>b, <2>2, <2>3
  <2>5. PcTypes' /\ LockTypes'
    BY <1>0, <1>a, <2>2 DEF Mid
  <2>6. LocksHeld'
    <3> SUFFICES ASSUME NEW d \in Calls, pc'[d] \in Mid
                 PROVE  /\ work'[d].booking \in Bookings
                        /\ rowLock'[work'[d].booking] = d
                        /\ AccountOf[work'[d].booking] \in Accounts
      BY DEF LocksHeld, Account
    <3>1. CASE d = c
      BY <1>0, <2>1, <2>2, <3>1
    <3>2. CASE d # c
      <4>1. pc[d] \in Mid /\ work'[d] = work[d]
        BY <1>0, <2>2, <3>2
      <4>2. work[d].booking \in Bookings /\ rowLock[work[d].booking] = d /\ Account(d) \in Accounts
        BY <1>0, <4>1 DEF LocksHeld
      <4>3. work[d].booking # b
        BY <1>a, <2>2, <4>2
      <4>4. QED  BY <1>0, <2>2, <4>1, <4>2, <4>3 DEF Account
    <3>3. QED  BY <3>1, <3>2
  <2>7. QED  BY <1>0, <1>00, <2>2, <2>4, <2>5, <2>6 DEF rows, ledger, jobs
<1>2. ASSUME NEW c \in Calls, NEW b \in Bookings, NEW new \in Terminal \union {"NO_SHOW"},
             ChangeUncounted(c, b, new)
      PROVE  TypeOK'
  <2>1. /\ RecordStatus(b, new) /\ Return(c) /\ Ticked(c, b)
        /\ pc[c] \notin Mid
        /\ UNCHANGED <<ledger, locks, work, copy, closed, batch, loadedOpen, current>>
    BY <1>2 DEF ChangeUncounted, Asks, Mid
  <2>2. RowTypes'
    BY <1>b, <2>1, RecordTypes
  <2>3. PcTypes'
    BY <1>0, <1>a, <2>1 DEF Return, Mid
  <2>4. JobTypes'
    BY <1>0, <2>1 DEF Ticked
  <2>5. LocksHeld'
    <3>1. \A d \in Calls : pc'[d] \in Mid => pc[d] \in Mid
      BY <1>0, <2>1 DEF Return, Mid
    <3>2. QED  BY <1>0, <2>1, <3>1 DEF LocksHeld, Account, locks
  <2>6. QED  BY <1>0, <1>00, <2>1, <2>2, <2>3, <2>4, <2>5 DEF ledger, locks
<1>3. ASSUME NEW j \in Jobs, NEW b \in Bookings, SkipBooking(j, b)
      PROVE  TypeOK'
  <2>1. /\ Return(j) /\ Ticked(j, b)
        /\ UNCHANGED <<rows, ledger, locks, work, copy, closed, batch, loadedOpen, current>>
    BY <1>3 DEF SkipBooking
  <2>2. PcTypes' /\ \A d \in Calls : pc'[d] \in Mid => pc[d] \in Mid
    BY <1>0, <1>a, <2>1 DEF Return, Mid
  <2>3. JobTypes'
    BY <1>0, <2>1 DEF Ticked
  <2>4. LocksHeld'
    BY <1>0, <2>1, <2>2 DEF LocksHeld, Account, locks
  <2>5. QED  BY <1>0, <1>00, <2>1, <2>2, <2>3, <2>4 DEF rows, ledger, locks
<1>4. ASSUME NEW c \in Calls, Fetched(c) PROVE TypeOK'
  <2>1. pc[c] \in Mid /\ Account(c) \in Accounts
    BY <1>0, <1>4 DEF Fetched, Mid, LocksHeld
  <2>2. PcTypes' /\ \A d \in Calls : pc'[d] \in Mid => pc[d] \in Mid
    BY <1>0, <1>a, <1>4, <2>1 DEF Fetched, Mid
  <2>3. LockTypes' /\ CopyTypes'
    BY <1>0, <1>4, <2>1 DEF Fetched
  <2>4. LocksHeld'
    BY <1>0, <1>4, <2>2 DEF LocksHeld, Account, Fetched
  <2>5. QED  BY <1>0, <1>00, <1>4, <2>2, <2>3, <2>4 DEF Fetched, rows, ledger, jobs
<1>5. ASSUME NEW c \in Calls, Retries(c) PROVE TypeOK'
  <2>1. PcTypes' /\ \A d \in Calls : pc'[d] \in Mid => pc[d] \in Mid
    BY <1>0, <1>5 DEF Retries, Goto, Mid
  <2>2. UNCHANGED <<rows, ledger, locks, work, copy, jobs>>
    BY <1>5 DEF Retries, Goto
  <2>3. LocksHeld'
    BY <1>0, <2>1, <2>2 DEF LocksHeld, Account, locks
  <2>4. QED  BY <1>0, <1>00, <2>1, <2>2, <2>3 DEF rows, ledger, locks, jobs

<1>6. ASSUME NEW c \in Calls, CommitStatus(c) PROVE TypeOK'
  <2> DEFINE a == Account(c)
             b == work[c].booking
  <2>1. /\ pc[c] \in Mid /\ a \in Accounts /\ b \in Bookings /\ work[c].new \in Statuses
    BY <1>0, <1>6 DEF CommitStatus, Mid, LocksHeld
  <2>2. /\ known' = known \union {a}
        /\ count' = [count EXCEPT ![a] = NewCount(c)]
        /\ flag' = [flag EXCEPT ![a] = NewFlag(c, flag[a])]
        /\ RecordStatus(b, work[c].new)
        /\ Free(c)
        /\ work' = [work EXCEPT ![c] = NoWork]
        /\ copy' = [copy EXCEPT ![c] = NoCopy]
        /\ Return(c) /\ Ticked(c, b)
        /\ UNCHANGED <<closed, batch, loadedOpen, current>>
    BY <1>6 DEF CommitStatus
  <2> HIDE DEF a, b
  <2>3. NewCount(c) \in Nat
    BY <1>0 DEF NewCount
  <2>4. NewFlag(c, flag[a]) \in BOOLEAN
    BY <1>0, <2>1 DEF NewFlag
  <2>5. LedgerTypes'
    BY <1>0, <2>1, <2>2, <2>3, <2>4
  <2>6. RowTypes'
    BY <2>1, <2>2, RecordTypes
  <2>7. WorkTypes' /\ CopyTypes'
    BY <1>0, <2>2 DEF NoWork, NoCopy, Statuses
  <2>8. PcTypes' /\ \A d \in Calls : pc'[d] \in Mid => pc[d] \in Mid /\ d # c
    BY <1>0, <1>a, <2>1, <2>2 DEF Return, Mid
  <2>9. JobTypes'
    BY <1>0, <2>2 DEF Ticked
  <2>10. LockTypes'
    BY <2>2, FreeTypes
  <2>11. LocksHeld'
    BY <1>0, <2>2, <2>8, FreeTypes DEF LocksHeld, Account
  <2>12. QED  BY <1>00, <2>5, <2>6, <2>7, <2>8, <2>9, <2>10, <2>11
<1>7. ASSUME NEW c \in Calls, Die(c) PROVE TypeOK'
  <2>1. /\ Free(c)
        /\ pc' = [pc EXCEPT ![c] = "idle"]
        /\ work' = [work EXCEPT ![c] = NoWork]
        /\ copy' = [copy EXCEPT ![c] = NoCopy]
        /\ batch' = [j \in Jobs |-> IF j = c THEN {} ELSE batch[j]]
        /\ todo' = [j \in Jobs |-> IF j = c THEN {} ELSE todo[j]]
        /\ loadedOpen' = [j \in Jobs |-> IF j = c THEN {} ELSE loadedOpen[j]]
        /\ UNCHANGED <<rows, ledger, closed, current>>
    BY <1>7 DEF Die
  <2>2. WorkTypes' /\ CopyTypes' /\ JobTypes'
    BY <1>0, <2>1 DEF NoWork, NoCopy, Statuses
  <2>3. PcTypes' /\ \A d \in Calls : pc'[d] \in Mid => pc[d] \in Mid /\ d # c
    BY <1>0, <2>1 DEF Mid
  <2>4. LockTypes' /\ LocksHeld'
    BY <1>0, <2>1, <2>3, FreeTypes DEF LocksHeld, Account
  <2>5. QED  BY <1>0, <1>00, <2>1, <2>2, <2>3, <2>4 DEF rows, ledger
<1>8. ASSUME NEW j \in Jobs, JobMoves(j) PROVE TypeOK'
  <2>1. /\ UNCHANGED <<rows, ledger, locks, work, copy>>
        /\ pc[j] \in {"idle", "loop", "visit"}
        /\ pc' = pc \/ \E to \in {"idle", "loop", "visit"} : pc' = [pc EXCEPT ![j] = to]
    BY <1>8 DEF JobMoves, JobCloseManually, JobNotReady, JobList, JobLoad, JobClose, JobEnd
  <2>2. PcTypes' /\ \A d \in Calls : pc'[d] \in Mid => pc[d] \in Mid
    BY <1>0, <1>a, <2>1 DEF Mid
  <2>3. JobTypes'
    <3>1. ASSUME NEW s \in Sessions, JobCloseManually(j, s) \/ JobNotReady(j, s) \/ JobList(j, s)
          PROVE  JobTypes'
      <4>1. CASE JobCloseManually(j, s)
        BY <1>0, <4>1 DEF JobCloseManually, Close
      <4>2. CASE JobNotReady(j, s)
        BY <1>0, <4>2 DEF JobNotReady
      <4>3. CASE JobList(j, s)
        BY <1>0, <4>3 DEF JobList, BookedIn
      <4>4. QED  BY <3>1, <4>1, <4>2, <4>3
    <3>2. CASE JobLoad(j)
      BY <1>0, <3>2 DEF JobLoad
    <3>3. CASE JobClose(j)
      <4>1. current[j] \in Sessions
        BY <1>0
      <4>2. QED  BY <1>0, <3>3, <4>1 DEF JobClose, Close
    <3>4. CASE JobEnd(j)
      BY <1>0, <3>4 DEF JobEnd
    <3>5. QED  BY <1>8, <3>1, <3>2, <3>3, <3>4 DEF JobMoves
  <2>4. LocksHeld'
    BY <1>0, <2>1, <2>2 DEF LocksHeld, Account, locks
  <2>5. QED  BY <1>0, <1>00, <2>1, <2>2, <2>3, <2>4 DEF rows, ledger, locks
<1>9. ASSUME NEW a \in Accounts, ClearExplanation(a) PROVE TypeOK'
  BY <1>0, <1>00, <1>9 DEF ClearExplanation, LocksHeld, Account, rows, locks, jobs
<1>10. CASE UNCHANGED vars
  BY <1>0, <1>00, <1>10 DEF vars, rows, ledger, locks, jobs, LocksHeld, Account
<1>11. QED  BY <1>1, <1>2, <1>3, <1>4, <1>5, <1>6, <1>7, <1>8, <1>9, <1>10, FetchKinds DEF Step, Change

-----------------------------------------------------------------------------
(* What steps that do not touch a part of the state keep *)

\* What calls are about to do stays current while no booking changes.
LEMMA WorkKept ==
  ASSUME WorkIsCurrent, UNCHANGED <<rows, work>>,
         \A d \in Calls : pc'[d] \in Mid => pc[d] \in Mid
  PROVE  WorkIsCurrent'
BY DEF WorkIsCurrent, InHand, Delta, CorrectingNoShow, rows

\* Copies stay current while the ledger and its locks do not change.
LEMMA CopiesKept ==
  ASSUME CopiesAreCurrent, UNCHANGED <<ledger, accountLock, work, copy>>,
         \A d \in Calls : pc'[d] = "fetched" => pc[d] = "fetched"
  PROVE  CopiesAreCurrent'
BY DEF CopiesAreCurrent, Account, ledger

\* Lists stay complete while no booking changes.
LEMMA ListsKept ==
  ASSUME ListsAreComplete, UNCHANGED <<rows, current, todo>>,
         \A j \in Jobs : pc'[j] \in Mid \union {"visit"} => pc[j] \in Mid \union {"visit"}
  PROVE  ListsAreComplete'
BY DEF ListsAreComplete, BookedIn, rows

\* The ledger stays right while neither side of it changes.
LEMMA LedgerKept == ASSUME Ledger, UNCHANGED <<rows, ledger>> PROVE Ledger'
BY DEF Ledger, CountIsNoShows, NoShowsOf, FactsAreNoShows, FlagNeedsThreshold,
       UnknownCountsNothing, rows, ledger

\* The work of a call is as current as before if its booking is not touched.
LEMMA InHandKept ==
  ASSUME NEW d \in Calls, InHand(d), work'[d] = work[d],
         status'[work[d].booking] = status[work[d].booking],
         fact'[work[d].booking] = fact[work[d].booking]
  PROVE  InHand(d)'
BY DEF InHand, Delta, CorrectingNoShow

\* A booking that no longer is BOOKED leaves the list of a job, which stays complete.
LEMMA ListsTicked ==
  ASSUME TypeOK, ListsAreComplete, NEW c \in Calls, NEW b \in Bookings,
         Return(c), Ticked(c, b), UNCHANGED current,
         pc[c] \in Mid \union {"visit"} \/ c \notin Jobs,
         \A x \in Bookings \ {b} : status'[x] = status[x],
         status'[b] # "BOOKED"
  PROVE  ListsAreComplete'
<1> SUFFICES ASSUME NEW j \in Jobs, pc'[j] \in Mid \union {"visit"},
                    NEW x \in Bookings, SessionOf[x] = current[j], status'[x] = "BOOKED"
             PROVE  x \in todo'[j]
  BY DEF ListsAreComplete, BookedIn
<1>1. j \in Calls
  BY DEF Calls
<1>2. pc[j] \in Mid \union {"visit"}
  BY <1>1 DEF Return, TypeOK
<1>3. x # b /\ status[x] = "BOOKED"
  OBVIOUS
<1>4. x \in todo[j]
  BY <1>2, <1>3 DEF ListsAreComplete, BookedIn
<1>5. QED  BY <1>3, <1>4 DEF Ticked

-----------------------------------------------------------------------------
(* The ledger *)

\* The sets of no-shows are finite.
LEMMA NoShowsFinite == ASSUME NEW a PROVE IsFiniteSet(NoShowsOf(a)) /\ IsFiniteSet(NoShowsOf(a)')
<1>1. NoShowsOf(a) \subseteq Bookings /\ NoShowsOf(a)' \subseteq Bookings
  BY DEF NoShowsOf
<1>2. IsFiniteSet(Bookings)
  BY AttendanceAssumption
<1>3. QED  BY <1>1, <1>2, FS_Subset

\* A change of status that is allowed leaves the facts right.
LEMMA FactsRecorded ==
  ASSUME TypeOK, FactsAreNoShows, NEW b \in Bookings, NEW new \in StatusTransitions(status[b]),
         RecordStatus(b, new)
  PROVE  /\ FactsAreNoShows'
         /\ fact' = [fact EXCEPT ![b] = NewFact(b, new)]
         /\ Delta(b, new) = 1 => ~fact[b] /\ NewFact(b, new)
         /\ Delta(b, new) = -1 => fact[b] /\ ~NewFact(b, new)
         /\ Delta(b, new) = 0 => NewFact(b, new) = fact[b]
         /\ Delta(b, new) \in {-1, 0, 1}
<1>0. /\ fact \in [Bookings -> BOOLEAN] /\ status \in [Bookings -> Statuses]
      /\ new \in Statuses
  BY Transitions DEF TypeOK
<1>1. /\ status' = [status EXCEPT ![b] = new]
      /\ fact' = [fact EXCEPT ![b] = NewFact(b, new)]
  BY DEF RecordStatus
<1>2. /\ status[b] = "NO_SHOW" => fact[b]
      /\ fact[b] => status[b] \in {"NO_SHOW", "REACCESS"}
  BY DEF FactsAreNoShows
<1>3. new # "BOOKED" /\ status[b] \notin Terminal
  BY <1>0, Transitions
<1>4. status[b] = "BOOKED" \/ status[b] = "NO_SHOW"
  BY <1>0, <1>3 DEF Statuses
<1>5. status[b] = "NO_SHOW" => new \in {"REACCESS", "VISITED"}
  BY DEF StatusTransitions
<1>6. /\ new = "NO_SHOW" => NewFact(b, new)
      /\ NewFact(b, new) => new \in {"NO_SHOW", "REACCESS"}
  BY <1>0, <1>2, <1>4, <1>5 DEF NewFact, CorrectingNoShow
<1>7. FactsAreNoShows'
  BY <1>0, <1>1, <1>6 DEF FactsAreNoShows
<1>8. QED  BY <1>0, <1>1, <1>2, <1>4, <1>5, <1>7 DEF Delta, NewFact, CorrectingNoShow

\* A change that moves no count leaves the ledger right.
LEMMA UncountedLedger ==
  ASSUME TypeOK, Ledger, NEW c \in Calls, NEW b \in Bookings,
         NEW new \in Terminal \union {"NO_SHOW"}, ChangeUncounted(c, b, new)
  PROVE  Ledger'
<1>1. /\ new \in StatusTransitions(status[b]) /\ ~Counts(b, new)
      /\ RecordStatus(b, new) /\ UNCHANGED ledger
  BY DEF ChangeUncounted
<1>2. FactsAreNoShows
  BY DEF Ledger
<1>3. /\ FactsAreNoShows'
      /\ fact' = [fact EXCEPT ![b] = NewFact(b, new)]
      /\ AccountOf[b] # NoAccount => NewFact(b, new) = fact[b]
  BY <1>1, <1>2, FactsRecorded DEF Counts
<1>4. ASSUME NEW a \in Accounts PROVE NoShowsOf(a)' = NoShowsOf(a)
  <2>1. AccountOf[b] = a => AccountOf[b] # NoAccount
    BY AttendanceAssumption
  <2>2. ASSUME NEW x \in Bookings, AccountOf[x] = a PROVE fact'[x] = fact[x]
    BY <1>3, <2>1, <2>2 DEF TypeOK
  <2>3. QED  BY <2>2 DEF NoShowsOf
<1>5. CountIsNoShows'
  BY <1>1, <1>4 DEF Ledger, CountIsNoShows, ledger
<1>6. QED  BY <1>1, <1>3, <1>5 DEF Ledger, FlagNeedsThreshold, UnknownCountsNothing, ledger

\* What a commit writes to the attendance row.
LEMMA CommitWrites ==
  ASSUME TypeOK, CopiesAreCurrent, WorkIsCurrent, Ledger, NEW c \in Calls, CommitStatus(c),
         NEW a, NEW b, NEW new, a = Account(c), b = work[c].booking, new = work[c].new
  PROVE  /\ a \in Accounts /\ b \in Bookings /\ AccountOf[b] = a
         /\ RecordStatus(b, new) /\ new \in StatusTransitions(status[b])
         /\ InHand(c)
         /\ known' = known \union {a}
         /\ count' = [count EXCEPT ![a] = Cardinality(NoShowsOf(a)')]
         /\ flag' = [flag EXCEPT ![a] = NewFlag(c, flag[a])]
         /\ NewCount(c) = Cardinality(NoShowsOf(a)')
         /\ copy[c].flag = flag[a]
         /\ \A x \in Accounts : x # a => NoShowsOf(x)' = NoShowsOf(x)
         /\ FactsAreNoShows'
<1> DEFINE delta == work[c].delta
<1>1. /\ pc[c] = "fetched" /\ a \in Accounts /\ b \in Bookings /\ a = AccountOf[b]
      /\ RecordStatus(b, new)
      /\ known' = known \union {a}
      /\ count' = [count EXCEPT ![a] = NewCount(c)]
      /\ flag' = [flag EXCEPT ![a] = NewFlag(c, flag[a])]
  BY DEF CommitStatus, TypeOK, Mid, Account
<1>2. InHand(c) /\ new \in StatusTransitions(status[b]) /\ delta = Delta(b, new) /\ delta # 0
  BY <1>1 DEF WorkIsCurrent, InHand, Mid
<1>3. copy[c].count = count[a] /\ copy[c].flag = flag[a]
  BY <1>1 DEF CopiesAreCurrent
<1>4. count[a] = Cardinality(NoShowsOf(a)) /\ count[a] \in Nat
  BY <1>1 DEF Ledger, CountIsNoShows, TypeOK
<1> HIDE DEF delta
<1>5. /\ FactsAreNoShows'
      /\ fact' = [fact EXCEPT ![b] = NewFact(b, new)]
      /\ delta = 1 => ~fact[b] /\ NewFact(b, new)
      /\ delta = -1 => fact[b] /\ ~NewFact(b, new)
      /\ delta \in {-1, 1}
  BY <1>1, <1>2, FactsRecorded DEF Ledger
<1>6. ASSUME NEW x \in Accounts, x # a PROVE NoShowsOf(x)' = NoShowsOf(x)
  BY <1>1, <1>5, <1>6 DEF NoShowsOf, TypeOK
<1>7. fact \in [Bookings -> BOOLEAN]
  BY DEF TypeOK
<1>8. NewCount(c) = IF count[a] + delta > 0 THEN count[a] + delta ELSE 0
  BY <1>3 DEF NewCount, delta
<1>9. NewCount(c) = Cardinality(NoShowsOf(a)')
  <2>1. CASE delta = 1
    <3>1. NoShowsOf(a)' = NoShowsOf(a) \union {b} /\ b \notin NoShowsOf(a)
      BY <1>1, <1>5, <1>7, <2>1 DEF NoShowsOf
    <3>2. Cardinality(NoShowsOf(a)') = count[a] + 1
      BY <1>4, <3>1, NoShowsFinite, FS_AddElement
    <3>3. QED  BY <1>4, <1>8, <2>1, <3>2
  <2>2. CASE delta = -1
    <3>0. ASSUME NEW x \in Bookings PROVE fact'[x] <=> fact[x] /\ x # b
      BY <1>1, <1>5, <1>7, <2>2
    <3>1. b \in NoShowsOf(a)
      BY <1>1, <1>5, <2>2 DEF NoShowsOf
    <3>2. NoShowsOf(a)' = NoShowsOf(a) \ {b}
      BY <3>0 DEF NoShowsOf
    <3>3. IsFiniteSet(NoShowsOf(a))
      BY NoShowsFinite
    <3>4. Cardinality(NoShowsOf(a) \ {b}) = Cardinality(NoShowsOf(a)) - 1
      BY <3>1, <3>3, FS_RemoveElement
    <3>5. Cardinality(NoShowsOf(a)') = count[a] - 1
      BY <1>4, <3>2, <3>4
    <3>6. Cardinality(NoShowsOf(a)') \in Nat
      BY NoShowsFinite, FS_CardinalityType
    <3>7. QED  BY <1>4, <1>8, <2>2, <3>5, <3>6
  <2>3. QED  BY <1>5, <2>1, <2>2
<1>10. count' = [count EXCEPT ![a] = Cardinality(NoShowsOf(a)')]
  BY <1>1, <1>9
<1>11. QED  BY <1>1, <1>2, <1>3, <1>5, <1>6, <1>9, <1>10

\* A commit leaves the ledger right.
LEMMA CommitLedger ==
  ASSUME TypeOK, CopiesAreCurrent, WorkIsCurrent, Ledger, NEW c \in Calls, CommitStatus(c)
  PROVE  Ledger'
<1>0. PICK a, b, new : a = Account(c) /\ b = work[c].booking /\ new = work[c].new
  OBVIOUS
<1> DEFINE n == Cardinality(NoShowsOf(a)')
<1>1. /\ a \in Accounts
      /\ known' = known \union {a}
      /\ count' = [count EXCEPT ![a] = n]
      /\ flag' = [flag EXCEPT ![a] = NewFlag(c, flag[a])]
      /\ NewCount(c) = n
      /\ copy[c].flag = flag[a]
      /\ \A x \in Accounts : x # a => NoShowsOf(x)' = NoShowsOf(x)
      /\ FactsAreNoShows'
  BY <1>0, CommitWrites
<1>2. n \in Nat
  BY NoShowsFinite, FS_CardinalityType
<1>3. /\ count \in [Accounts -> Nat] /\ flag \in [Accounts -> BOOLEAN] /\ Threshold \in Nat
  BY AttendanceAssumption DEF TypeOK
<1>4. CountIsNoShows'
  BY <1>1, <1>3 DEF Ledger, CountIsNoShows
<1> HIDE DEF n
<1>5. FlagNeedsThreshold'
  <2>1. NewFlag(c, flag[a]) => n >= Threshold
    BY <1>1, <1>2, <1>3 DEF NewFlag
  <2>2. QED  BY <1>1, <1>3, <2>1 DEF Ledger, FlagNeedsThreshold
<1>6. UnknownCountsNothing'
  BY <1>1, <1>3 DEF Ledger, UnknownCountsNothing
<1>7. QED  BY <1>1, <1>4, <1>5, <1>6 DEF Ledger

-----------------------------------------------------------------------------
(* The inductive invariant *)

\* At first nothing is booked out, locked or counted.
LEMMA InitInductive == Init => Inductive
<1> SUFFICES ASSUME Init PROVE Inductive
  OBVIOUS
<1>1. TypeOK
  BY TypeInit
<1>2. \A c \in Calls : pc[c] = "idle"
  BY DEF Init
<1>3. CopiesAreCurrent /\ WorkIsCurrent /\ ListsAreComplete
  BY <1>2 DEF CopiesAreCurrent, WorkIsCurrent, ListsAreComplete, Mid, Calls
<1>4. \A b \in Bookings : status[b] = "BOOKED" /\ ~fact[b]
  BY DEF Init
<1>5. \A a \in Accounts : NoShowsOf(a) = {} /\ count[a] = 0 /\ ~flag[a]
  BY <1>4 DEF Init, NoShowsOf
<1>6. Ledger
  BY <1>4, <1>5, FS_EmptySet
  DEF Ledger, CountIsNoShows, FactsAreNoShows, FlagNeedsThreshold, UnknownCountsNothing
<1>7. QED  BY <1>1, <1>3, <1>6 DEF Inductive

\* A call that changes a booking on its own holds it alone: the others' work, on
\* bookings that they have locked, is not touched.
LEMMA OthersInHand ==
  ASSUME TypeOK, WorkIsCurrent, NEW c \in Calls, NEW b \in Bookings,
         rowLock[b] = NoCall \/ rowLock[b] = c,
         \A x \in Bookings \ {b} : status'[x] = status[x] /\ fact'[x] = fact[x],
         NEW d \in Calls, d # c, pc[d] \in Mid, work'[d] = work[d]
  PROVE  InHand(d)'
<1>1. InHand(d) /\ work[d].booking \in Bookings /\ rowLock[work[d].booking] = d
  BY DEF WorkIsCurrent, TypeOK
<1>2. d # NoCall
  BY AttendanceAssumption DEF Calls
<1>3. work[d].booking # b
  BY <1>1, <1>2
<1>4. QED  BY <1>1, <1>3, InHandKept

\* Every step keeps the inductive invariant.
LEMMA Preserved == ASSUME Inductive, [Next]_vars PROVE Inductive'
<1> USE DEF Inductive
<1>0. Step /\ UnknownCountsNothing /\ TypeOK'
  BY StepKinds, TypeStep DEF Ledger
<1>a. NoCall \notin Calls /\ Jobs \subseteq Calls
  BY AttendanceAssumption DEF Calls
<1>b. pc \in [Calls -> Mid \union {"idle", "loop", "visit"}]
  BY DEF TypeOK
<1>1. ASSUME NEW c \in Calls, NEW b \in Bookings, NEW new \in Terminal \union {"NO_SHOW"},
             LockBooking(c, b, new)
      PROVE  Inductive'
  <2>1. /\ rowLock[b] = NoCall /\ new \in StatusTransitions(status[b]) /\ Delta(b, new) # 0
        /\ pc' = [pc EXCEPT ![c] = "fetch"]
        /\ work' = [work EXCEPT ![c] = [booking |-> b, new |-> new, delta |-> Delta(b, new)]]
        /\ UNCHANGED <<rows, ledger, accountLock, copy, jobs>>
        /\ c \in Jobs => pc[c] = "visit"
    BY <1>1, AttendanceAssumption DEF LockBooking, Counts, Asks
  <2>2. WorkIsCurrent'
    <3> SUFFICES ASSUME NEW d \in Calls, pc'[d] \in Mid PROVE InHand(d)'
      BY DEF WorkIsCurrent
    <3>1. CASE d = c
      <4>1. work'[d] = [booking |-> b, new |-> new, delta |-> Delta(b, new)]
        BY <2>1, <3>1 DEF TypeOK
      <4>2. QED  BY <2>1, <4>1 DEF InHand, Delta, CorrectingNoShow, rows
    <3>2. CASE d # c
      BY <1>b, <2>1, <3>2, OthersInHand DEF rows, TypeOK
    <3>3. QED  BY <3>1, <3>2
  <2>3. CopiesAreCurrent'
    <3> SUFFICES ASSUME NEW d \in Calls, pc'[d] = "fetched"
                 PROVE  /\ accountLock'[Account(d)'] = d
                        /\ copy'[d].count = count'[Account(d)']
                        /\ copy'[d].flag = flag'[Account(d)']
      BY DEF CopiesAreCurrent
    <3>1. pc[d] = "fetched" /\ work'[d] = work[d]
      BY <1>b, <2>1 DEF TypeOK
    <3>2. Account(d)' = Account(d)
      BY <3>1, SameAccount
    <3>3. QED  BY <2>1, <3>1, <3>2 DEF CopiesAreCurrent, ledger
  <2>4. ListsAreComplete'
    BY <1>a, <1>b, <2>1, ListsKept DEF jobs
  <2>5. Ledger'
    BY <2>1, LedgerKept
  <2>6. QED  BY <1>0, <2>2, <2>3, <2>4, <2>5
<1>2. ASSUME NEW c \in Calls, NEW b \in Bookings, NEW new \in Terminal \union {"NO_SHOW"},
             ChangeUncounted(c, b, new)
      PROVE  Inductive'
  <2>1. /\ RecordStatus(b, new) /\ Return(c) /\ Ticked(c, b)
        /\ rowLock[b] = NoCall /\ new \in StatusTransitions(status[b])
        /\ pc[c] \notin Mid /\ (pc[c] = "visit" \/ c \notin Jobs)
        /\ UNCHANGED <<ledger, locks, work, copy, closed, batch, loadedOpen, current>>
    BY <1>2, AttendanceAssumption DEF ChangeUncounted, Asks, Mid
  <2>2. \A x \in Bookings \ {b} : status'[x] = status[x] /\ fact'[x] = fact[x]
    BY <2>1 DEF RecordStatus, TypeOK
  <2>3. status'[b] # "BOOKED"
    BY <2>1, Transitions DEF RecordStatus, TypeOK
  <2>4. \A d \in Calls : pc'[d] \in Mid => pc[d] \in Mid /\ pc'[d] = pc[d] /\ d # c
    BY <1>b, <2>1 DEF Return, Mid
  <2>5. WorkIsCurrent'
    BY <2>1, <2>2, <2>4, OthersInHand DEF WorkIsCurrent
  <2>6. CopiesAreCurrent'
    BY <2>1, <2>4, CopiesKept DEF Mid, locks
  <2>7. ListsAreComplete'
    BY <2>1, <2>2, <2>3, ListsTicked
  <2>8. Ledger'
    BY <1>2, UncountedLedger
  <2>9. QED  BY <1>0, <2>5, <2>6, <2>7, <2>8
<1>3. ASSUME NEW j \in Jobs, NEW b \in Bookings, SkipBooking(j, b)
      PROVE  Inductive'
  <2>1. /\ Return(j) /\ Ticked(j, b) /\ j \in Calls /\ pc[j] = "visit"
        /\ UNCHANGED <<rows, ledger, locks, work, copy, closed, batch, loadedOpen, current>>
    BY <1>3, <1>a, AttendanceAssumption DEF SkipBooking, Asks
  <2>2. status[b] # "BOOKED"
    BY <1>3 DEF SkipBooking, StatusTransitions
  <2>3. \A d \in Calls : pc'[d] \in Mid => pc[d] \in Mid /\ pc'[d] = pc[d]
    BY <1>b, <2>1 DEF Return, Mid
  <2>4. WorkIsCurrent' /\ CopiesAreCurrent' /\ Ledger'
    BY <2>1, <2>3, WorkKept, CopiesKept, LedgerKept DEF Mid, locks
  <2>5. ListsAreComplete'
    BY <2>1, <2>2, ListsTicked DEF rows
  <2>6. QED  BY <1>0, <2>4, <2>5

<1>4. ASSUME NEW c \in Calls, Fetched(c) PROVE Inductive'
  <2>1. /\ pc[c] \in {"fetch", "create"} /\ pc' = [pc EXCEPT ![c] = "fetched"]
        /\ accountLock[Account(c)] = NoCall
        /\ accountLock' = [accountLock EXCEPT ![Account(c)] = c]
        /\ copy' = [copy EXCEPT ![c] = [count |-> count[Account(c)], flag |-> flag[Account(c)]]]
        /\ UNCHANGED <<rows, ledger, rowLock, work, jobs>>
    BY <1>4 DEF Fetched
  <2>2. \A d \in Calls : pc'[d] \in Mid => pc[d] \in Mid
    BY <1>b, <2>1 DEF Mid
  <2>3. CopiesAreCurrent'
    <3> SUFFICES ASSUME NEW d \in Calls, pc'[d] = "fetched"
                 PROVE  /\ accountLock'[Account(d)] = d
                        /\ copy'[d].count = count[Account(d)]
                        /\ copy'[d].flag = flag[Account(d)]
      BY <2>1 DEF CopiesAreCurrent, Account, ledger
    <3>1. Account(c) \in Accounts
      BY <2>1 DEF TypeOK, Mid
    <3>2. CASE d = c
      BY <2>1, <3>1, <3>2 DEF TypeOK
    <3>3. CASE d # c
      <4>1. pc[d] = "fetched"
        BY <1>b, <2>1, <3>3
      <4>2. /\ accountLock[Account(d)] = d
            /\ copy[d].count = count[Account(d)] /\ copy[d].flag = flag[Account(d)]
        BY <4>1 DEF CopiesAreCurrent
      <4>3. Account(d) # Account(c)
        BY <1>a, <2>1, <4>2
      <4>4. QED  BY <2>1, <3>3, <4>2, <4>3 DEF TypeOK
    <3>4. QED  BY <3>2, <3>3
  <2>4. WorkIsCurrent' /\ Ledger'
    BY <2>1, <2>2, WorkKept, LedgerKept
  <2>5. ListsAreComplete'
    BY <1>a, <2>1, <2>2, <1>b, ListsKept DEF jobs, Mid
  <2>6. QED  BY <1>0, <2>3, <2>4, <2>5
<1>5. ASSUME NEW c \in Calls, Retries(c) PROVE Inductive'
  <2>1. /\ pc[c] \in {"fetch", "create"}
        /\ \E to \in {"fetch", "create"} : pc' = [pc EXCEPT ![c] = to]
        /\ UNCHANGED <<rows, ledger, locks, work, copy, jobs>>
    BY <1>5 DEF Retries, Goto
  <2>2. \A d \in Calls : /\ pc'[d] \in Mid => pc[d] \in Mid
                         /\ pc'[d] = "fetched" => pc[d] = "fetched"
                         /\ pc'[d] = "visit" => pc[d] = "visit"
    BY <1>b, <2>1 DEF Mid
  <2>3. WorkIsCurrent' /\ CopiesAreCurrent' /\ ListsAreComplete' /\ Ledger'
    BY <1>a, <2>1, <2>2, WorkKept, CopiesKept, ListsKept, LedgerKept DEF jobs, locks
  <2>4. QED  BY <1>0, <2>3
<1>6. ASSUME NEW c \in Calls, CommitStatus(c) PROVE Inductive'
  <2>0. PICK a, b, new : a = Account(c) /\ b = work[c].booking /\ new = work[c].new
    OBVIOUS
  <2>1. /\ RecordStatus(b, new) /\ new \in StatusTransitions(status[b])
        /\ a \in Accounts /\ b \in Bookings
        /\ known' = known \union {a}
        /\ count' = [count EXCEPT ![a] = Cardinality(NoShowsOf(a)')]
        /\ flag' = [flag EXCEPT ![a] = NewFlag(c, flag[a])]
    BY <1>6, <2>0, CommitWrites
  <2>2. /\ Free(c) /\ Return(c) /\ Ticked(c, b)
        /\ work' = [work EXCEPT ![c] = NoWork]
        /\ copy' = [copy EXCEPT ![c] = NoCopy]
        /\ pc[c] = "fetched"
        /\ UNCHANGED <<closed, batch, loadedOpen, current>>
    BY <1>6, <2>0 DEF CommitStatus
  <2>3. rowLock[b] = c /\ accountLock[a] = c
    BY <2>0, <2>2 DEF TypeOK, Mid, CopiesAreCurrent
  <2>4. \A x \in Bookings \ {b} : status'[x] = status[x] /\ fact'[x] = fact[x]
    BY <2>1 DEF RecordStatus, TypeOK
  <2>5. status'[b] # "BOOKED"
    BY <2>1, Transitions DEF RecordStatus, TypeOK
  <2>6. \A d \in Calls : pc'[d] \in Mid =>
          /\ d # c /\ pc[d] \in Mid /\ pc'[d] = pc[d]
          /\ work'[d] = work[d] /\ copy'[d] = copy[d]
    BY <1>b, <2>2 DEF Return, Mid, TypeOK
  <2>7. WorkIsCurrent'
    <3> SUFFICES ASSUME NEW d \in Calls, pc'[d] \in Mid PROVE InHand(d)'
      BY DEF WorkIsCurrent
    <3>1. d # c /\ pc[d] \in Mid /\ work'[d] = work[d]
      BY <2>6
    <3>2. QED  BY <2>1, <2>3, <2>4, <3>1, OthersInHand
  <2>8. CopiesAreCurrent'
    <3> SUFFICES ASSUME NEW d \in Calls, pc'[d] = "fetched", NEW x, x = Account(d)
                 PROVE  /\ accountLock'[x] = d
                        /\ copy'[d].count = count'[x]
                        /\ copy'[d].flag = flag'[x]
      <4>1. \A d \in Calls : pc'[d] = "fetched" => Account(d)' = Account(d)
        BY <2>6, SameAccount DEF Mid
      <4>2. QED  BY <4>1 DEF CopiesAreCurrent
    <3>1. d # c /\ pc[d] = "fetched" /\ copy'[d] = copy[d]
      BY <2>6 DEF Mid
    <3>2. /\ x \in Accounts /\ accountLock[x] = d
          /\ copy[d].count = count[x] /\ copy[d].flag = flag[x]
      BY <3>1 DEF CopiesAreCurrent, TypeOK, Mid
    <3>3. x # a
      BY <2>3, <3>1, <3>2
    <3>4. QED  BY <2>1, <2>2, <3>1, <3>2, <3>3, FreeTypes DEF TypeOK
  <2>9. ListsAreComplete'
    BY <2>1, <2>2, <2>4, <2>5, ListsTicked DEF Mid
  <2>10. Ledger'
    BY <1>6, CommitLedger
  <2>11. QED  BY <1>0, <2>7, <2>8, <2>9, <2>10
<1>7. ASSUME NEW c \in Calls, Die(c) PROVE Inductive'
  <2>1. /\ Free(c)
        /\ pc' = [pc EXCEPT ![c] = "idle"]
        /\ work' = [work EXCEPT ![c] = NoWork]
        /\ copy' = [copy EXCEPT ![c] = NoCopy]
        /\ todo' = [j \in Jobs |-> IF j = c THEN {} ELSE todo[j]]
        /\ UNCHANGED <<rows, ledger, closed, current>>
    BY <1>7 DEF Die
  <2>2. \A d \in Calls : pc'[d] # "idle" =>
          d # c /\ pc'[d] = pc[d] /\ work'[d] = work[d] /\ copy'[d] = copy[d]
    BY <1>b, <2>1 DEF TypeOK
  <2>3. WorkIsCurrent'
    <3> SUFFICES ASSUME NEW d \in Calls, pc'[d] \in Mid PROVE InHand(d)'
      BY DEF WorkIsCurrent
    <3>1. pc[d] \in Mid /\ work'[d] = work[d] /\ UNCHANGED <<status, fact>>
      BY <2>1, <2>2 DEF Mid, rows
    <3>2. QED  BY <3>1, InHandKept DEF WorkIsCurrent
  <2>4. CopiesAreCurrent'
    <3> SUFFICES ASSUME NEW d \in Calls, pc'[d] = "fetched"
                 PROVE  /\ accountLock'[Account(d)'] = d
                        /\ copy'[d].count = count'[Account(d)']
                        /\ copy'[d].flag = flag'[Account(d)']
      BY DEF CopiesAreCurrent
    <3>1. d # c /\ pc[d] = "fetched" /\ copy'[d] = copy[d] /\ Account(d)' = Account(d)
      BY <2>2, SameAccount
    <3>2. /\ Account(d) \in Accounts /\ accountLock[Account(d)] = d
          /\ copy[d].count = count[Account(d)] /\ copy[d].flag = flag[Account(d)]
      BY <3>1 DEF CopiesAreCurrent, TypeOK, Mid
    <3>3. QED  BY <2>1, <3>1, <3>2, FreeTypes DEF ledger
  <2>5. ListsAreComplete'
    <3>1. \A j \in Jobs : pc'[j] \in Mid \union {"visit"} => pc[j] = pc'[j] /\ todo'[j] = todo[j]
      BY <1>a, <2>1, <2>2 DEF Mid
    <3>2. QED  BY <2>1, <3>1 DEF ListsAreComplete, BookedIn, rows
  <2>6. Ledger'
    BY <2>1, LedgerKept
  <2>7. QED  BY <1>0, <2>3, <2>4, <2>5, <2>6
<1>8. ASSUME NEW j \in Jobs, JobMoves(j) PROVE Inductive'
  <2>1. /\ UNCHANGED <<rows, ledger, locks, work, copy>>
        /\ pc[j] \in {"idle", "loop", "visit"}
        /\ pc' = pc \/ \E to \in {"idle", "loop", "visit"} : pc' = [pc EXCEPT ![j] = to]
    BY <1>8 DEF JobMoves, JobCloseManually, JobNotReady, JobList, JobLoad, JobClose, JobEnd
  <2>2. \A d \in Calls : pc'[d] \in Mid => pc[d] = pc'[d]
    BY <1>b, <2>1 DEF Mid
  <2>3. WorkIsCurrent' /\ CopiesAreCurrent' /\ Ledger'
    BY <2>1, <2>2, WorkKept, CopiesKept, LedgerKept DEF Mid, locks
  <2>4. ListsAreComplete'
    <3>1. ASSUME NEW s \in Sessions, JobList(j, s) PROVE ListsAreComplete'
      BY <1>b, <3>1 DEF JobList, ListsAreComplete, BookedIn, rows, TypeOK
    <3>2. CASE \A s \in Sessions : ~JobList(j, s)
      <4>1. UNCHANGED <<current, todo>> /\ (pc' = pc \/ \E to \in {"idle", "loop"} : pc' = [pc EXCEPT ![j] = to])
        BY <1>8, <3>2 DEF JobMoves, JobCloseManually, JobNotReady, JobLoad, JobClose, JobEnd
      <4>2. \A i \in Jobs : pc'[i] \in Mid \union {"visit"} => pc[i] \in Mid \union {"visit"}
        BY <1>a, <1>b, <4>1 DEF Mid
      <4>3. QED  BY <2>1, <4>1, <4>2, ListsKept
    <3>3. QED  BY <3>1, <3>2
  <2>5. QED  BY <1>0, <2>3, <2>4
<1>9. ASSUME NEW a \in Accounts, ClearExplanation(a) PROVE Inductive'
  <2>1. /\ accountLock[a] = NoCall /\ flag' = [flag EXCEPT ![a] = FALSE] /\ a \in known
        /\ UNCHANGED <<rows, known, count, locks, pc, work, copy, jobs>>
    BY <1>9 DEF ClearExplanation
  <2>2. WorkIsCurrent' /\ ListsAreComplete'
    BY <2>1, WorkKept, ListsKept DEF jobs
  <2>3. CopiesAreCurrent'
    <3> SUFFICES ASSUME NEW d \in Calls, pc[d] = "fetched"
                 PROVE  /\ accountLock[Account(d)] = d
                        /\ copy[d].count = count[Account(d)]
                        /\ copy[d].flag = flag'[Account(d)]
      BY <2>1 DEF CopiesAreCurrent, Account, locks
    <3>1. /\ accountLock[Account(d)] = d /\ Account(d) \in Accounts
          /\ copy[d].count = count[Account(d)] /\ copy[d].flag = flag[Account(d)]
      BY DEF CopiesAreCurrent, TypeOK, Mid
    <3>2. Account(d) # a
      BY <1>a, <2>1, <3>1
    <3>3. QED  BY <2>1, <3>1, <3>2 DEF TypeOK
  <2>4. Ledger'
    <3>1. \A x \in Accounts : flag'[x] => flag[x]
      BY <2>1 DEF TypeOK
    <3>2. CountIsNoShows' /\ FactsAreNoShows'
      BY <2>1 DEF Ledger, CountIsNoShows, NoShowsOf, FactsAreNoShows, rows
    <3>3. FlagNeedsThreshold' /\ UnknownCountsNothing'
      BY <2>1, <3>1 DEF Ledger, FlagNeedsThreshold, UnknownCountsNothing
    <3>4. QED  BY <3>2, <3>3 DEF Ledger
  <2>5. QED  BY <1>0, <2>2, <2>3, <2>4
<1>10. CASE UNCHANGED vars
  BY <1>0, <1>10, WorkKept, CopiesKept, ListsKept, LedgerKept DEF vars, locks, jobs
<1>11. QED
  BY <1>0, <1>1, <1>2, <1>3, <1>4, <1>5, <1>6, <1>7, <1>8, <1>9, <1>10, FetchKinds DEF Step, Change

-----------------------------------------------------------------------------
(* Theorems *)

\* In every reachable state the row locks protect what was read under them, and the
\* ledger is right.
THEOREM LedgerIsLocked == Spec => []Inductive
<1>1. Init => Inductive
  BY InitInductive
<1>2. Inductive /\ [Next]_vars => Inductive'
  BY Preserved
<1>3. QED  BY <1>1, <1>2, PTL DEF Spec

\* Calls, rows and lists keep their types, and a call in a transaction holds the
\* booking that it changes.
THEOREM AttendanceTypes == Spec => []TypeOK
<1>1. Inductive => TypeOK
  BY DEF Inductive
<1>2. QED  BY <1>1, LedgerIsLocked, PTL

\* The count in the attendance row is the number of bookings with a no-show.
THEOREM NoShowsAreCounted == Spec => []CountIsNoShows
<1>1. Inductive => CountIsNoShows
  BY DEF Inductive, Ledger
<1>2. QED  BY <1>1, LedgerIsLocked, PTL

\* had_no_show is what the status history says.
THEOREM FactsHold == Spec => []FactsAreNoShows
<1>1. Inductive => FactsAreNoShows
  BY DEF Inductive, Ledger
<1>2. QED  BY <1>1, LedgerIsLocked, PTL

\* No explanation is demanded below the threshold.
THEOREM FlagHolds == Spec => []FlagNeedsThreshold
<1>1. Inductive => FlagNeedsThreshold
  BY DEF Inductive, Ledger
<1>2. QED  BY <1>1, LedgerIsLocked, PTL

\* The job closes no session with bookings that it has not marked.
THEOREM NoneLeftBooked == Spec => []JobLeavesNoneBooked
<1>1. Inductive => JobLeavesNoneBooked
  BY DEF Inductive, ListsAreComplete, JobLeavesNoneBooked
<1>2. QED  BY <1>1, LedgerIsLocked, PTL

\* A commit is the only step that raises a count, and it raises the flag with it.
LEMMA CountRaised ==
  ASSUME Inductive, [Next]_vars, NEW a \in Accounts, count'[a] > count[a], count'[a] >= Threshold
  PROVE  flag'[a]
<1>1. /\ count \in [Accounts -> Nat] /\ flag \in [Accounts -> BOOLEAN] /\ Threshold \in Nat
  BY AttendanceAssumption DEF Inductive, TypeOK
<1>2. count' # count
  BY <1>1
<1>3. PICK c \in Calls : CommitStatus(c)
  <2>1. Step
    BY StepKinds
  <2>2. ASSUME NEW c \in Calls, FetchAttendance(c) \/ CreateAttendance(c) PROVE FALSE
    BY <1>2, <2>2, FetchKinds DEF Inductive, Ledger, Fetched, Retries, Goto, ledger
  <2>3. ASSUME NEW c \in Calls, NEW b \in Bookings, NEW new \in Terminal \union {"NO_SHOW"},
               Change(c, b, new)
        PROVE  FALSE
    BY <1>2, <2>3 DEF Change, LockBooking, ChangeUncounted, ledger
  <2>4. ASSUME NEW j \in Jobs, JobMoves(j) \/ \E b \in Bookings : SkipBooking(j, b) PROVE FALSE
    BY <1>2, <2>4 DEF JobMoves, JobCloseManually, JobNotReady, JobList, JobLoad, JobClose, JobEnd,
                      SkipBooking, ledger
  <2>5. ASSUME NEW c \in Calls, Die(c) PROVE FALSE
    BY <1>2, <2>5 DEF Die, ledger
  <2>6. ASSUME NEW x \in Accounts, ClearExplanation(x) PROVE FALSE
    BY <1>2, <2>6 DEF ClearExplanation
  <2>7. vars' # vars
    BY <1>2 DEF vars, ledger
  <2>8. QED  BY <2>1, <2>2, <2>3, <2>4, <2>5, <2>6, <2>7 DEF Step
<1>4. PICK x, b, new : x = Account(c) /\ b = work[c].booking /\ new = work[c].new
  OBVIOUS
<1> DEFINE n == Cardinality(NoShowsOf(x)')
<1>5. /\ x \in Accounts
      /\ count' = [count EXCEPT ![x] = n] /\ flag' = [flag EXCEPT ![x] = NewFlag(c, flag[x])]
      /\ NewCount(c) = n /\ copy[c].flag = flag[x]
  BY <1>3, <1>4, CommitWrites DEF Inductive
<1>6. n \in Nat
  BY NoShowsFinite, FS_CardinalityType
<1> HIDE DEF n
<1>7. a = x
  BY <1>1, <1>5
<1>8. n >= Threshold /\ flag'[a] = NewFlag(c, flag[x])
  BY <1>1, <1>5, <1>7
<1>9. NewFlag(c, flag[x])
  BY <1>1, <1>5, <1>6, <1>8 DEF NewFlag
<1>10. QED  BY <1>8, <1>9

\* Whoever is late, and whatever staff cleared in between, a no-show at or above the
\* threshold leaves the flag raised.
THEOREM NoShowsRaiseTheFlag == Spec => NoShowRaisesFlag
<1>1. Inductive /\ [Next]_vars =>
        [\A a \in Accounts : count'[a] > count[a] /\ count'[a] >= Threshold => flag'[a]]_vars
  BY CountRaised
<1>2. QED  BY <1>1, LedgerIsLocked, PTL DEF Spec, NoShowRaisesFlag

\* A status changes by a change of status that is allowed at that moment.
LEMMA StatusChanged ==
  ASSUME Inductive, [Next]_vars, NEW x \in Bookings, status'[x] # status[x]
  PROVE  status[x] \notin Terminal
<1>0. status \in [Bookings -> Statuses]
  BY DEF Inductive, TypeOK
<1>1. ASSUME NEW b \in Bookings, NEW new, new \in StatusTransitions(status[b]),
             RecordStatus(b, new)
      PROVE  status[x] \notin Terminal
  <2>1. x = b
    BY <1>0, <1>1 DEF RecordStatus
  <2>2. QED  BY <1>0, <1>1, <2>1, Transitions
<1>2. ASSUME NEW c \in Calls, NEW b \in Bookings, NEW new \in Terminal \union {"NO_SHOW"},
             Change(c, b, new)
      PROVE  status[x] \notin Terminal
  <2>1. CASE LockBooking(c, b, new)
    BY <2>1 DEF LockBooking, rows
  <2>2. CASE ChangeUncounted(c, b, new)
    BY <1>1, <2>2 DEF ChangeUncounted
  <2>3. QED  BY <1>2, <2>1, <2>2 DEF Change
<1>3. ASSUME NEW c \in Calls, CommitStatus(c) PROVE status[x] \notin Terminal
  <2>1. PICK a, b, new : a = Account(c) /\ b = work[c].booking /\ new = work[c].new
    OBVIOUS
  <2>2. b \in Bookings /\ RecordStatus(b, new) /\ new \in StatusTransitions(status[b])
    BY <1>3, <2>1, CommitWrites DEF Inductive
  <2>3. QED  BY <1>1, <2>2
<1>4. ASSUME NEW c \in Calls, FetchAttendance(c) \/ CreateAttendance(c) PROVE FALSE
  BY <1>4, FetchKinds DEF Inductive, Ledger, Fetched, Retries, Goto, rows
<1>5. ASSUME NEW j \in Jobs, JobMoves(j) \/ \E b \in Bookings : SkipBooking(j, b) PROVE FALSE
  BY <1>5 DEF JobMoves, JobCloseManually, JobNotReady, JobList, JobLoad, JobClose, JobEnd,
              SkipBooking, rows
<1>6. ASSUME NEW c \in Calls, Die(c) PROVE FALSE
  BY <1>6 DEF Die, rows
<1>7. ASSUME NEW a \in Accounts, ClearExplanation(a) PROVE FALSE
  BY <1>7 DEF ClearExplanation, rows
<1>8. vars' # vars
  BY DEF vars, rows
<1>9. QED
  BY StepKinds, <1>2, <1>3, <1>4, <1>5, <1>6, <1>7, <1>8 DEF Step

\* A final status never changes.
THEOREM FinalHolds == Spec => FinalStaysFinal
<1>1. Inductive /\ [Next]_vars =>
        [\A b \in Bookings : status[b] \in Terminal => status'[b] = status[b]]_vars
  BY StatusChanged
<1>2. QED  BY <1>1, LedgerIsLocked, PTL DEF Spec, FinalStaysFinal

-----------------------------------------------------------------------------
(* Refinement *)

Missed == {b \in Bookings : fact[b]}

\* A recorded status is one that the abstract ledger knows, and so are its no-shows.
LEMMA RecordIsAbstract ==
  ASSUME TypeOK, FactsAreNoShows, NEW b \in Bookings, NEW new \in StatusTransitions(status[b]),
         RecordStatus(b, new)
  PROVE  /\ new \in Promised!Successors(status[b])
         /\ status' = [status EXCEPT ![b] = new]
         /\ Missed' = Promised!MissedAfter(b, new)
<1>0. fact \in [Bookings -> BOOLEAN] /\ status \in [Bookings -> Statuses]
  BY DEF TypeOK
<1>1. /\ status' = [status EXCEPT ![b] = new]
      /\ fact' = [fact EXCEPT ![b] = NewFact(b, new)]
  BY DEF RecordStatus
<1>2. new \in Promised!Successors(status[b])
  BY DEF StatusTransitions, Promised!Successors
<1>3. fact[b] => status[b] \in {"NO_SHOW", "REACCESS"}
  BY DEF FactsAreNoShows
<1>4. status[b] \notin Terminal
  BY <1>0, Transitions
<1>5. NewFact(b, new) <=> new = "NO_SHOW" \/ (fact[b] /\ new # "VISITED")
  BY <1>0, <1>3, <1>4 DEF NewFact, CorrectingNoShow, Terminal
<1>6. \A x \in Bookings : fact'[x] <=> IF x = b THEN NewFact(b, new) ELSE fact[x]
  BY <1>0, <1>1
<1>7. CASE new = "NO_SHOW"
  <2>1. Missed' = Missed \union {b}
    BY <1>5, <1>6, <1>7 DEF Missed
  <2>2. QED  BY <1>1, <1>2, <1>7, <2>1 DEF Promised!MissedAfter, Missed
<1>8. CASE new = "VISITED"
  <2>1. Missed' = Missed \ {b}
    BY <1>5, <1>6, <1>8 DEF Missed
  <2>2. QED  BY <1>1, <1>2, <1>8, <2>1 DEF Promised!MissedAfter, Missed
<1>9. CASE new \notin {"NO_SHOW", "VISITED"}
  <2>1. Missed' = Missed
    BY <1>5, <1>6, <1>9 DEF Missed
  <2>2. QED  BY <1>1, <1>2, <1>9, <2>1 DEF Promised!MissedAfter, Missed
<1>10. QED  BY <1>7, <1>8, <1>9

\* While the ledger is right, a recorded status is a settlement if the flags follow the counts.
LEMMA RecordSettles ==
  ASSUME Inductive, Inductive', NEW b \in Bookings, NEW new \in StatusTransitions(status[b]),
         RecordStatus(b, new),
         \A a \in Accounts : count'[a] = count[a] => flag'[a] = flag[a],
         \A a \in Accounts : count'[a] # count[a] => (flag'[a] <=> count'[a] >= Threshold)
  PROVE  Promised!Next
<1>1. /\ new \in Promised!Successors(status[b])
      /\ status' = [status EXCEPT ![b] = new]
      /\ Missed' = Promised!MissedAfter(b, new)
  BY RecordIsAbstract DEF Inductive, Ledger
<1>2. /\ count' \in [Accounts -> Nat] /\ flag' \in [Accounts -> BOOLEAN]
      /\ flag \in [Accounts -> BOOLEAN]
  BY DEF Inductive, TypeOK
<1>3. \A a \in Accounts : count'[a] = Promised!Cardinality({x \in Missed' : AccountOf[x] = a})
  <2> SUFFICES ASSUME NEW a \in Accounts
               PROVE  count'[a] = Promised!Cardinality({x \in Missed' : AccountOf[x] = a})
    OBVIOUS
  <2>1. count'[a] = Cardinality(NoShowsOf(a)')
    BY DEF Inductive, Ledger, CountIsNoShows
  <2>2. NoShowsOf(a)' = {x \in Missed' : AccountOf[x] = a}
    BY DEF NoShowsOf, Missed
  <2>3. QED  BY <2>1, <2>2 DEF Cardinality, Promised!Cardinality
<1>4. count' = [a \in Accounts |-> Promised!Cardinality({x \in Missed' : AccountOf[x] = a})]
  BY <1>2, <1>3
<1>5. flag' = [a \in Accounts |->
        IF count'[a] = count[a] THEN flag[a] ELSE count'[a] >= Threshold]
  <2> DEFINE follows == [a \in Accounts |->
               IF count'[a] = count[a] THEN flag[a] ELSE count'[a] >= Threshold]
  <2>1. \A a \in Accounts : (count'[a] >= Threshold) \in BOOLEAN
    OBVIOUS
  <2>2. ASSUME NEW a \in Accounts PROVE flag'[a] = follows[a]
    <3>1. flag[a] \in BOOLEAN /\ flag'[a] \in BOOLEAN
      BY <1>2
    <3>2. CASE count'[a] = count[a]
      BY <3>2
    <3>3. CASE count'[a] # count[a]
      BY <2>1, <3>1, <3>3, Zenon
    <3>4. QED  BY <3>2, <3>3
  <2>3. follows = [a \in Accounts |-> follows[a]] /\ flag' = [a \in Accounts |-> flag'[a]]
    BY <1>2, Zenon
  <2>4. QED  BY <2>2, <2>3, Zenon
<1>6. Promised!Settle(b, new)
  BY <1>1, <1>4, <1>5 DEF Promised!Settle, Missed
<1>7. QED  BY <1>1, <1>6 DEF Promised!Next

\* A commit moves the count of its account, and the flag with it.
LEMMA CommitSettles ==
  ASSUME Inductive, Inductive', NEW c \in Calls, CommitStatus(c)
  PROVE  Promised!Next
<1>0. PICK a, b, new : a = Account(c) /\ b = work[c].booking /\ new = work[c].new
  OBVIOUS
<1> DEFINE n == Cardinality(NoShowsOf(a)')
<1>1. /\ a \in Accounts /\ b \in Bookings
      /\ RecordStatus(b, new) /\ new \in StatusTransitions(status[b])
      /\ count' = [count EXCEPT ![a] = n]
      /\ flag' = [flag EXCEPT ![a] = NewFlag(c, flag[a])]
      /\ NewCount(c) = n
      /\ copy[c].flag = flag[a]
  BY <1>0, CommitWrites DEF Inductive
<1>2. n \in Nat
  BY NoShowsFinite, FS_CardinalityType
<1> HIDE DEF n
<1>3. /\ count \in [Accounts -> Nat] /\ flag \in [Accounts -> BOOLEAN] /\ Threshold \in Nat
  BY AttendanceAssumption DEF Inductive, TypeOK
<1>4. n # count[a]
  <2>1. PICK old, delta : old = copy[c].count /\ delta = work[c].delta
    OBVIOUS
  <2>2. old = count[a] /\ old \in Nat
    BY <1>0, <1>1, <1>3, <2>1 DEF CommitStatus, Inductive, CopiesAreCurrent
  <2>3. delta \in {-1, 1}
    <3>1. InHand(c)
      BY <1>0, CommitWrites DEF Inductive
    <3>2. Delta(b, new) # 0 /\ Delta(b, new) \in {-1, 0, 1} /\ delta = Delta(b, new)
      BY <1>0, <1>1, <2>1, <3>1, FactsRecorded DEF InHand, Inductive, Ledger
    <3>3. QED  BY <3>2
  <2>4. delta = -1 => old > 0
    <3>1. CASE delta = -1
      <4>1. Delta(b, new) = -1
        BY <1>0, <2>1, <3>1, CommitWrites DEF InHand, Inductive
      <4>2. fact[b] /\ AccountOf[b] = a
        <5>1. fact[b]
          BY <1>1, <4>1, FactsRecorded DEF Inductive, Ledger
        <5>2. AccountOf[b] = a
          BY <1>0 DEF Account
        <5>3. QED  BY <5>1, <5>2
      <4>3. NoShowsOf(a) # {} /\ IsFiniteSet(NoShowsOf(a))
        BY <1>1, <4>2, NoShowsFinite DEF NoShowsOf
      <4>4. Cardinality(NoShowsOf(a)) # 0
        BY <4>3, FS_EmptySet
      <4>5. QED  BY <1>1, <2>2, <4>4 DEF Inductive, Ledger, CountIsNoShows
    <3>2. QED  BY <3>1
  <2>5. n = IF old + delta > 0 THEN old + delta ELSE 0
    BY <1>1, <2>1 DEF NewCount
  <2>6. QED  BY <2>2, <2>3, <2>4, <2>5
<1>5. NewFlag(c, flag[a]) <=> n >= Threshold
  BY <1>1, <1>2, <1>3 DEF NewFlag
<1>6. \A x \in Accounts : x # a => count'[x] = count[x] /\ flag'[x] = flag[x]
  BY <1>1, <1>3
<1>7. count'[a] = n /\ (flag'[a] <=> n >= Threshold)
  BY <1>1, <1>3, <1>5
<1>8. \A x \in Accounts : count'[x] = count[x] => flag'[x] = flag[x]
  BY <1>4, <1>6, <1>7
<1>9. \A x \in Accounts : count'[x] # count[x] => (flag'[x] <=> count'[x] >= Threshold)
  BY <1>6, <1>7
<1>10. QED  BY <1>1, <1>8, <1>9, RecordSettles

\* Steps that write neither a booking nor an attendance row are invisible.
LEMMA Invisible == ASSUME UNCHANGED <<rows, count, flag>> PROVE UNCHANGED Promised!ledgerVars
BY DEF rows, Promised!ledgerVars

\* Every step of the code is a step of the abstract ledger, or none.
LEMMA StepRefines ==
  ASSUME Inductive, Inductive', [Next]_vars
  PROVE  [Promised!Next]_Promised!ledgerVars
<1>0. Step
  BY StepKinds
<1>1. ASSUME NEW c \in Calls, NEW b \in Bookings, NEW new \in Terminal \union {"NO_SHOW"},
             Change(c, b, new)
      PROVE  [Promised!Next]_Promised!ledgerVars
  <2>1. CASE LockBooking(c, b, new)
    BY <2>1, Invisible DEF LockBooking, ledger
  <2>2. CASE ChangeUncounted(c, b, new)
    <3>1. /\ new \in StatusTransitions(status[b]) /\ RecordStatus(b, new)
          /\ UNCHANGED <<count, flag>>
      BY <2>2 DEF ChangeUncounted, ledger
    <3>2. QED  BY <3>1, RecordSettles
  <2>3. QED  BY <1>1, <2>1, <2>2 DEF Change
<1>2. ASSUME NEW c \in Calls, CommitStatus(c) PROVE [Promised!Next]_Promised!ledgerVars
  BY <1>2, CommitSettles
<1>3. ASSUME NEW c \in Calls, FetchAttendance(c) \/ CreateAttendance(c)
      PROVE  [Promised!Next]_Promised!ledgerVars
  BY <1>3, FetchKinds, Invisible DEF Inductive, Ledger, Fetched, Retries, Goto, ledger
<1>4. ASSUME NEW j \in Jobs, JobMoves(j) \/ \E b \in Bookings : SkipBooking(j, b)
      PROVE  [Promised!Next]_Promised!ledgerVars
  BY <1>4, Invisible DEF JobMoves, JobCloseManually, JobNotReady, JobList, JobLoad, JobClose,
                         JobEnd, SkipBooking, ledger
<1>5. ASSUME NEW c \in Calls, Die(c) PROVE [Promised!Next]_Promised!ledgerVars
  BY <1>5, Invisible DEF Die, ledger
<1>6. ASSUME NEW a \in Accounts, ClearExplanation(a)
      PROVE  [Promised!Next]_Promised!ledgerVars
  <2>1. Promised!Explain(a)
    BY <1>6 DEF ClearExplanation, Promised!Explain, rows
  <2>2. QED  BY <2>1 DEF Promised!Next
<1>7. CASE UNCHANGED vars
  BY <1>7, Invisible DEF vars, ledger
<1>8. QED  BY <1>0, <1>1, <1>2, <1>3, <1>4, <1>5, <1>6, <1>7 DEF Step

\* At first nothing is settled.
LEMMA InitRefines == Init => Promised!Init
<1> SUFFICES ASSUME Init PROVE Promised!Init
  OBVIOUS
<1>1. {b \in Bookings : fact[b]} = {}
  BY DEF Init
<1>2. QED  BY <1>1 DEF Init, Promised!Init

\* The four statements of a change, their locks, the job and the crashes add up to one
\* atomic change of the abstract ledger.
THEOREM ImplementsLedger == Spec => ChangesAreAtomic
<1>1. Inductive /\ Inductive' /\ [Next]_vars => [Promised!Next]_Promised!ledgerVars
  BY StepRefines
<1>2. QED  BY <1>1, InitRefines, LedgerIsLocked, PTL DEF Spec, ChangesAreAtomic, Promised!Spec

-----------------------------------------------------------------------------
(* Progress: what EveryCallEnds rests on *)

\* Nobody waits long: the lock of an attendance row is held by a call whose next
\* statement is its commit, which waits for nothing; the lock of a booking by a call
\* that can wait for an attendance row only.
WaitsAreShort ==
  /\ \A a \in Accounts : accountLock[a] # NoCall =>
       pc[accountLock[a]] = "fetched" /\ Account(accountLock[a]) = a
  /\ \A b \in Bookings : rowLock[b] # NoCall =>
       pc[rowLock[b]] \in Mid /\ work[rowLock[b]].booking = b

\* A job changes bookings of its list.
JobsWorkOnLists == \A j \in Jobs : pc[j] \in Mid => work[j].booking \in todo[j]

\* How far a call is from its end, or a job from the next booking or session: a call
\* that finds no attendance row may have to look twice, but not three times.
Stage(c) ==
  CASE pc[c] = "visit"   -> 6
    [] pc[c] = "fetch"   -> IF Account(c) \in known THEN 3 ELSE 5
    [] pc[c] = "create"  -> 4
    [] pc[c] = "fetched" -> 2
    [] pc[c] = "loop"    -> 1
    [] OTHER             -> 0

\* A job has a session less to do, or a booking less of the same sessions, or the call is
\* at a later stage.
Nearer(c) ==
  \/ c \in Jobs /\ batch'[c] \subseteq batch[c] /\ batch'[c] # batch[c]
  \/ c \in Jobs /\ batch'[c] = batch[c] /\ todo'[c] \subseteq todo[c] /\ todo'[c] # todo[c]
  \/ (c \in Jobs => batch'[c] = batch[c] /\ todo'[c] = todo[c]) /\ Stage(c)' < Stage(c)

Stands(c) ==
  /\ pc'[c] = pc[c] /\ work'[c] = work[c]
  /\ c \in Jobs => batch'[c] = batch[c] /\ todo'[c] = todo[c]
  /\ Stage(c)' <= Stage(c)

\* Each statement of a call brings it nearer to its end, and what others do never sends
\* it back.
CallsAdvance ==
  [][\A c \in Calls :
       /\ CallStep(c) \/ (c \in Jobs /\ JobStep(c)) => Nearer(c)
       /\ pc[c] # "idle" => Nearer(c) \/ Stands(c)]_vars

Moving == Inductive /\ WaitsAreShort /\ JobsWorkOnLists

\* A call that others leave alone stands, although an attendance row may appear meanwhile.
LEMMA LeftAlone ==
  ASSUME NEW d, pc'[d] = pc[d], work'[d] = work[d], known \subseteq known',
         d \in Jobs => batch'[d] = batch[d] /\ todo'[d] = todo[d]
  PROVE  Stands(d)
<1>1. Account(d)' = Account(d)
  BY DEF Account
<1>2. Account(d) \in known => Account(d)' \in known'
  BY <1>1
<1>3. Stage(d)' <= Stage(d)
  BY <1>2 DEF Stage
<1>4. QED  BY <1>3 DEF Stands

\* What a call writes of its own variables.
LEMMA OthersStand ==
  ASSUME TypeOK, NEW c \in Calls, NEW d \in Calls, d # c,
         \/ \E b \in Bookings, new \in Terminal \union {"NO_SHOW"} : Change(c, b, new)
         \/ FetchAttendance(c) \/ CreateAttendance(c) \/ CommitStatus(c) \/ Die(c)
         \/ c \in Jobs /\ (JobMoves(c) \/ \E b \in Bookings : SkipBooking(c, b))
  PROVE  Stands(d)
<1>0. /\ \A i \in Jobs : i \in Calls
      /\ pc \in [Calls -> Mid \union {"idle", "loop", "visit"}]
      /\ \E W : work \in [Calls -> W]
      /\ batch \in [Jobs -> SUBSET Sessions] /\ todo \in [Jobs -> SUBSET Bookings]
  BY DEF TypeOK, Calls
<1>1. ASSUME NEW b \in Bookings, NEW new, LockBooking(c, b, new) PROVE Stands(d)
  <2>1. /\ pc' = [pc EXCEPT ![c] = "fetch"]
        /\ \E w : work' = [work EXCEPT ![c] = w]
        /\ UNCHANGED <<known, batch, todo>>
    BY <1>1 DEF LockBooking, ledger, jobs
  <2>2. QED  BY <1>0, <2>1, LeftAlone
<1>2. ASSUME NEW b \in Bookings,
             Return(c), Ticked(c, b), work' = work \/ work' = [work EXCEPT ![c] = NoWork],
             known \subseteq known', UNCHANGED batch
      PROVE  Stands(d)
  <2>1. \E q : pc' = [pc EXCEPT ![c] = q]
    BY <1>2 DEF Return
  <2>2. d \in Jobs => todo'[d] = todo[d]
    BY <1>2 DEF Ticked
  <2>3. pc'[d] = pc[d] /\ work'[d] = work[d] /\ batch'[d] = batch[d]
    BY <1>0, <1>2, <2>1
  <2>4. QED  BY <1>2, <2>2, <2>3, LeftAlone
<1>3. ASSUME NEW b \in Bookings, NEW new \in Terminal \union {"NO_SHOW"}, Change(c, b, new)
      PROVE  Stands(d)
  BY <1>1, <1>2, <1>3 DEF Change, ChangeUncounted, ledger
<1>4. ASSUME NEW b \in Bookings, SkipBooking(c, b) PROVE Stands(d)
  BY <1>2, <1>4 DEF SkipBooking, ledger
<1>5. CASE CommitStatus(c)
  <2>1. work[c].booking \in Bookings
    BY <1>5 DEF CommitStatus, TypeOK, Mid
  <2>2. QED  BY <1>2, <1>5, <2>1 DEF CommitStatus
<1>6. CASE FetchAttendance(c) \/ CreateAttendance(c)
  <2>1. /\ \E q : pc' = [pc EXCEPT ![c] = q]
        /\ UNCHANGED <<known, work, batch, todo>>
    BY <1>6 DEF FetchAttendance, CreateAttendance, HaveAccount, Goto, ledger, jobs
  <2>2. QED  BY <1>0, <2>1, LeftAlone
<1>7. CASE Die(c)
  <2>1. /\ pc' = [pc EXCEPT ![c] = "idle"] /\ work' = [work EXCEPT ![c] = NoWork]
        /\ batch' = [j \in Jobs |-> IF j = c THEN {} ELSE batch[j]]
        /\ todo' = [j \in Jobs |-> IF j = c THEN {} ELSE todo[j]]
        /\ known' = known
    BY <1>7 DEF Die, ledger
  <2>2. QED  BY <1>0, <2>1, LeftAlone
<1>8. CASE c \in Jobs /\ JobMoves(c)
  <2>1. /\ pc' = pc \/ \E q : pc' = [pc EXCEPT ![c] = q]
        /\ batch' = batch \/ \E q : batch' = [batch EXCEPT ![c] = q]
        /\ todo' = todo \/ \E q : todo' = [todo EXCEPT ![c] = q]
        /\ UNCHANGED <<known, work>>
    BY <1>8 DEF JobMoves, JobCloseManually, JobNotReady, JobList, JobLoad, JobClose, JobEnd, ledger
  <2>2. pc'[d] = pc[d] /\ work'[d] = work[d]
    BY <1>0, <2>1
  <2>3. d \in Jobs => batch'[d] = batch[d] /\ todo'[d] = todo[d]
    BY <1>0, <2>1
  <2>4. QED  BY <2>1, <2>2, <2>3, LeftAlone
<1>9. QED  BY <1>3, <1>4, <1>5, <1>6, <1>7, <1>8

\* A call of change_status looks for its attendance row, gets it, commits.
LEMMA CallNearer ==
  ASSUME TypeOK, JobsWorkOnLists, NEW c \in Calls, CallStep(c)
  PROVE  Nearer(c)
<1>0. /\ pc \in [Calls -> Mid \union {"idle", "loop", "visit"}]
      /\ todo \in [Jobs -> SUBSET Bookings]
  BY DEF TypeOK
<1>1. ASSUME NEW p, pc' = [pc EXCEPT ![c] = p], UNCHANGED <<known, work, batch, todo>>,
             \/ pc[c] = "fetch" /\ Account(c) \notin known /\ p = "create"
             \/ pc[c] = "create" /\ Account(c) \in known /\ p = "fetch"
             \/ pc[c] \in {"fetch", "create"} /\ p = "fetched"
      PROVE  Nearer(c)
  <2>1. pc'[c] = p /\ Account(c)' = Account(c)
    BY <1>0, <1>1 DEF Account
  <2>2. Stage(c)' < Stage(c)
    BY <1>1, <2>1 DEF Stage
  <2>3. QED  BY <1>1, <2>2 DEF Nearer
<1>2. CASE FetchAttendance(c)
  BY <1>1, <1>2 DEF FetchAttendance, HaveAccount, Goto, ledger, jobs
<1>3. CASE CreateAttendance(c)
  BY <1>1, <1>3 DEF CreateAttendance, HaveAccount, Goto, ledger, jobs
<1>4. CASE CommitStatus(c)
  <2>1. /\ pc[c] = "fetched" /\ Return(c) /\ Ticked(c, work[c].booking) /\ UNCHANGED batch
    BY <1>4 DEF CommitStatus
  <2>2. CASE c \in Jobs
    <3>1. todo'[c] = todo[c] \ {work[c].booking}
      BY <2>1, <2>2 DEF Ticked
    <3>2. work[c].booking \in todo[c]
      BY <2>1, <2>2 DEF JobsWorkOnLists, Mid
    <3>3. todo'[c] \subseteq todo[c] /\ todo'[c] # todo[c]
      BY <3>1, <3>2
    <3>4. QED  BY <2>1, <2>2, <3>3 DEF Nearer
  <2>3. CASE c \notin Jobs
    <3>1. pc'[c] = "idle"
      BY <1>0, <2>1, <2>3 DEF Return
    <3>2. Stage(c)' < Stage(c)
      BY <2>1, <3>1 DEF Stage
    <3>3. QED  BY <2>3, <3>2 DEF Nearer
  <2>4. QED  BY <2>2, <2>3
<1>5. QED  BY <1>2, <1>3, <1>4 DEF CallStep

\* A job leaves a session or a booking behind, or goes on with it.
LEMMA JobNearer ==
  ASSUME TypeOK, NEW j \in Jobs, JobStep(j)
  PROVE  Nearer(j)
<1>0. /\ j \in Calls
      /\ pc \in [Calls -> Mid \union {"idle", "loop", "visit"}]
      /\ batch \in [Jobs -> SUBSET Sessions] /\ todo \in [Jobs -> SUBSET Bookings]
  BY DEF TypeOK, Calls
<1>1. ASSUME NEW s \in Sessions, JobCloseManually(j, s) \/ JobNotReady(j, s) \/ JobList(j, s)
      PROVE  Nearer(j)
  <2>1. s \in batch[j] /\ batch' = [batch EXCEPT ![j] = @ \ {s}]
    BY <1>1 DEF JobCloseManually, JobNotReady, JobList
  <2>2. batch'[j] = batch[j] \ {s}
    BY <1>0, <2>1
  <2>3. batch'[j] \subseteq batch[j] /\ batch'[j] # batch[j]
    BY <2>1, <2>2
  <2>4. QED  BY <2>3 DEF Nearer
<1>2. ASSUME NEW b \in Bookings, ChangeUncounted(j, b, "VISITED") \/ SkipBooking(j, b)
      PROVE  Nearer(j)
  <2>1. b \in todo[j] /\ Ticked(j, b) /\ UNCHANGED batch
    BY <1>2, AttendanceAssumption DEF ChangeUncounted, SkipBooking, Asks
  <2>2. todo'[j] = todo[j] \ {b}
    BY <2>1 DEF Ticked
  <2>3. todo'[j] \subseteq todo[j] /\ todo'[j] # todo[j]
    BY <2>1, <2>2
  <2>4. QED  BY <2>1, <2>3 DEF Nearer
<1>3. ASSUME NEW p, pc' = [pc EXCEPT ![j] = p], UNCHANGED <<batch, todo>>,
             \/ pc[j] = "visit" /\ p \in {"fetch", "loop"}
             \/ pc[j] = "loop" /\ p = "idle"
      PROVE  Nearer(j)
  <2>1. pc'[j] = p
    BY <1>0, <1>3
  <2>2. Stage(j)' < Stage(j)
    BY <1>3, <2>1 DEF Stage
  <2>3. QED  BY <1>3, <2>2 DEF Nearer
<1>4. ASSUME NEW b \in Bookings, LockBooking(j, b, "VISITED") PROVE Nearer(j)
  <2>1. pc[j] = "visit"
    BY <1>4, AttendanceAssumption DEF LockBooking, Asks
  <2>2. QED  BY <1>3, <1>4, <2>1 DEF LockBooking, jobs
<1>5. CASE JobClose(j) \/ JobEnd(j)
  BY <1>3, <1>5 DEF JobClose, JobEnd
<1>6. QED  BY <1>1, <1>2, <1>4, <1>5 DEF JobStep

\* Death ends a call.
LEMMA DeathEnds ==
  ASSUME TypeOK, NEW c \in Calls, Die(c)
  PROVE  Nearer(c)
<1>1. /\ pc[c] # "idle" /\ pc' = [pc EXCEPT ![c] = "idle"]
      /\ batch' = [j \in Jobs |-> IF j = c THEN {} ELSE batch[j]]
      /\ todo' = [j \in Jobs |-> IF j = c THEN {} ELSE todo[j]]
  BY DEF Die
<1>2. Stage(c)' = 0 /\ Stage(c) > 0
  <2>1. pc'[c] = "idle" /\ pc[c] \in Mid \union {"loop", "visit"}
    BY <1>1 DEF TypeOK
  <2>2. QED  BY <2>1 DEF Stage, Mid
<1>3. c \in Jobs => batch'[c] = {} /\ todo'[c] = {}
  BY <1>1
<1>4. QED  BY <1>2, <1>3 DEF Nearer

\* Waits stay short while holders stay where they are and locks are only freed.
LEMMA WaitsKept ==
  ASSUME WaitsAreShort,
         \A a \in Accounts : accountLock'[a] # NoCall =>
           /\ accountLock'[a] = accountLock[a]
           /\ pc'[accountLock[a]] = pc[accountLock[a]]
           /\ work'[accountLock[a]] = work[accountLock[a]],
         \A b \in Bookings : rowLock'[b] # NoCall =>
           /\ rowLock'[b] = rowLock[b]
           /\ work'[rowLock[b]] = work[rowLock[b]]
           /\ pc[rowLock[b]] \in Mid => pc'[rowLock[b]] \in Mid
  PROVE  WaitsAreShort'
BY DEF WaitsAreShort, Account

\* A call that holds no row does not disturb those that do.
LEMMA WaitsElsewhere ==
  ASSUME TypeOK, WaitsAreShort, NEW c \in Calls, pc[c] \notin Mid, UNCHANGED <<locks, work>>,
         \A d \in Calls : d # c => pc'[d] = pc[d]
  PROVE  WaitsAreShort'
<1>1. \A a \in Accounts : accountLock[a] # c
  BY AttendanceAssumption DEF WaitsAreShort, Mid, Calls
<1>2. \A b \in Bookings : rowLock[b] # c
  BY AttendanceAssumption DEF WaitsAreShort, Mid, Calls
<1>3. /\ \A a \in Accounts : accountLock[a] \in Calls \union {NoCall}
      /\ \A b \in Bookings : rowLock[b] \in Calls \union {NoCall}
  BY DEF TypeOK
<1>4. QED  BY <1>1, <1>2, <1>3, WaitsKept DEF locks

\* A call that frees its locks leaves the others' as they were.
LEMMA WaitsFreed ==
  ASSUME TypeOK, WaitsAreShort, NEW c \in Calls, Free(c),
         \A d \in Calls : d # c => pc'[d] = pc[d] /\ work'[d] = work[d]
  PROVE  WaitsAreShort'
<1>1. /\ \A a \in Accounts : accountLock[a] \in Calls \union {NoCall}
      /\ \A b \in Bookings : rowLock[b] \in Calls \union {NoCall}
  BY DEF TypeOK
<1>2. \A a \in Accounts : accountLock'[a] # NoCall => accountLock'[a] = accountLock[a] /\ accountLock[a] # c
  BY DEF Free
<1>3. \A b \in Bookings : rowLock'[b] # NoCall => rowLock'[b] = rowLock[b] /\ rowLock[b] # c
  BY DEF Free
<1>4. QED  BY <1>1, <1>2, <1>3, WaitsKept

\* Every step keeps the waits short.
LEMMA WaitsPreserved ==
  ASSUME Inductive, WaitsAreShort, Step
  PROVE  WaitsAreShort'
<1>0. /\ TypeOK /\ UnknownCountsNothing
      /\ pc \in [Calls -> Mid \union {"idle", "loop", "visit"}]
      /\ \E W : work \in [Calls -> W]
      /\ \A a \in Accounts : accountLock[a] \in Calls \union {NoCall}
      /\ \A b \in Bookings : rowLock[b] \in Calls \union {NoCall}
      /\ accountLock \in [Accounts -> Calls \union {NoCall}]
      /\ rowLock \in [Bookings -> Calls \union {NoCall}]
      /\ NoCall \notin Calls /\ Jobs \subseteq Calls
  BY AttendanceAssumption DEF Inductive, Ledger, TypeOK, Calls
<1>1. ASSUME NEW c \in Calls, NEW b \in Bookings, NEW new \in Terminal \union {"NO_SHOW"},
             LockBooking(c, b, new)
      PROVE  WaitsAreShort'
  <2>1. /\ pc[c] \notin Mid
        /\ rowLock' = [rowLock EXCEPT ![b] = c] /\ accountLock' = accountLock
        /\ work' = [work EXCEPT ![c] = [booking |-> b, new |-> new, delta |-> Delta(b, new)]]
        /\ pc' = [pc EXCEPT ![c] = "fetch"]
    BY <1>1 DEF LockBooking, Asks, Mid
  <2>2. /\ \A a \in Accounts : accountLock[a] # c
        /\ \A x \in Bookings : rowLock[x] # c
    BY <1>0, <2>1 DEF WaitsAreShort, Mid
  <2>3. \A d \in Calls : d # c => pc'[d] = pc[d] /\ work'[d] = work[d]
    BY <1>0, <2>1
  <2>4. pc'[c] \in Mid /\ work'[c].booking = b
    BY <1>0, <2>1 DEF Mid
  <2>5. ASSUME NEW a \in Accounts, accountLock'[a] # NoCall
        PROVE  pc'[accountLock'[a]] = "fetched" /\ AccountOf[work'[accountLock'[a]].booking] = a
    <3>1. PICK d \in Calls : d = accountLock[a] /\ d # c
      BY <1>0, <2>1, <2>2, <2>5
    <3>2. pc[d] = "fetched" /\ AccountOf[work[d].booking] = a
      BY <2>1, <2>5, <3>1 DEF WaitsAreShort, Account
    <3>3. QED  BY <2>1, <2>3, <3>1, <3>2
  <2>6. ASSUME NEW x \in Bookings, rowLock'[x] # NoCall
        PROVE  pc'[rowLock'[x]] \in Mid /\ work'[rowLock'[x]].booking = x
    <3>1. CASE x = b
      BY <1>0, <2>1, <2>4, <3>1
    <3>2. CASE x # b
      <4>1. PICK d \in Calls : d = rowLock[x] /\ d # c /\ rowLock'[x] = d
        BY <1>0, <2>1, <2>2, <2>6, <3>2
      <4>2. pc[d] \in Mid /\ work[d].booking = x
        BY <1>0, <4>1 DEF WaitsAreShort
      <4>3. QED  BY <2>3, <4>1, <4>2
    <3>3. QED  BY <3>1, <3>2
  <2>7. QED  BY <2>5, <2>6 DEF WaitsAreShort, Account
<1>2. ASSUME NEW c \in Calls, NEW b \in Bookings,
             (\E new \in Terminal \union {"NO_SHOW"} : ChangeUncounted(c, b, new))
               \/ (c \in Jobs /\ SkipBooking(c, b))
      PROVE  WaitsAreShort'
  <2>1. pc[c] \notin Mid /\ UNCHANGED <<locks, work>> /\ Return(c)
    BY <1>2 DEF ChangeUncounted, SkipBooking, Asks, Mid
  <2>2. \A d \in Calls : d # c => pc'[d] = pc[d]
    BY <1>0, <2>1 DEF Return
  <2>3. QED  BY <1>0, <2>1, <2>2, WaitsElsewhere
<1>3. ASSUME NEW c \in Calls, Fetched(c) PROVE WaitsAreShort'
  <2>1. /\ pc[c] \in {"fetch", "create"} /\ accountLock[Account(c)] = NoCall
        /\ accountLock' = [accountLock EXCEPT ![Account(c)] = c]
        /\ pc' = [pc EXCEPT ![c] = "fetched"] /\ work' = work /\ rowLock' = rowLock
    BY <1>3 DEF Fetched
  <2>2. \A a \in Accounts : accountLock[a] # c
    BY <1>0, <2>1 DEF WaitsAreShort
  <2>3. ASSUME NEW a \in Accounts, accountLock'[a] # NoCall
        PROVE  pc'[accountLock'[a]] = "fetched" /\ AccountOf[work'[accountLock'[a]].booking] = a
    <3>1. CASE a = Account(c)
      BY <1>0, <2>1, <3>1 DEF Account
    <3>2. CASE a # Account(c)
      BY <1>0, <2>1, <2>2, <2>3, <3>2 DEF WaitsAreShort, Account
    <3>3. QED  BY <3>1, <3>2
  <2>4. ASSUME NEW x \in Bookings, rowLock'[x] # NoCall
        PROVE  pc'[rowLock'[x]] \in Mid /\ work'[rowLock'[x]].booking = x
    <3>1. pc[rowLock[x]] \in Mid /\ work[rowLock[x]].booking = x /\ rowLock[x] \in Calls
      BY <1>0, <2>1, <2>4 DEF WaitsAreShort
    <3>2. QED  BY <1>0, <2>1, <3>1 DEF Mid
  <2>5. QED  BY <2>3, <2>4 DEF WaitsAreShort, Account
<1>4. ASSUME NEW c \in Calls, Retries(c) PROVE WaitsAreShort'
  <2>1. /\ pc[c] \in {"fetch", "create"} /\ UNCHANGED <<locks, work>>
        /\ \E to \in {"fetch", "create"} : pc' = [pc EXCEPT ![c] = to]
    BY <1>4 DEF Retries, Goto
  <2>2. \A a \in Accounts : accountLock[a] # c
    BY <1>0, <2>1 DEF WaitsAreShort
  <2>3. \A d \in Calls : d # c => pc'[d] = pc[d]
    BY <1>0, <2>1
  <2>4. pc'[c] \in Mid
    BY <1>0, <2>1 DEF Mid
  <2>5. QED  BY <1>0, <2>1, <2>2, <2>3, <2>4, WaitsKept DEF locks
<1>5. ASSUME NEW c \in Calls, CommitStatus(c) \/ Die(c) PROVE WaitsAreShort'
  <2>1. Free(c) /\ \E q : pc' = [pc EXCEPT ![c] = q] /\ work' = [work EXCEPT ![c] = NoWork]
    BY <1>5 DEF CommitStatus, Die, Return
  <2>2. \A d \in Calls : d # c => pc'[d] = pc[d] /\ work'[d] = work[d]
    BY <1>0, <2>1
  <2>3. QED  BY <1>0, <2>1, <2>2, WaitsFreed
<1>6. ASSUME NEW j \in Jobs, JobMoves(j) PROVE WaitsAreShort'
  <2>1. /\ UNCHANGED <<locks, work>>
        /\ pc[j] \in {"idle", "loop", "visit"}
        /\ pc' = pc \/ \E to : pc' = [pc EXCEPT ![j] = to]
    BY <1>6 DEF JobMoves, JobCloseManually, JobNotReady, JobList, JobLoad, JobClose, JobEnd
  <2>2. j \in Calls /\ pc[j] \notin Mid /\ \A d \in Calls : d # j => pc'[d] = pc[d]
    BY <1>0, <2>1 DEF Mid
  <2>3. QED  BY <1>0, <2>1, <2>2, WaitsElsewhere
<1>7. ASSUME UNCHANGED <<locks, pc, work>> PROVE WaitsAreShort'
  BY <1>7 DEF WaitsAreShort, Account, locks
<1>8. ASSUME NEW a \in Accounts, ClearExplanation(a) PROVE WaitsAreShort'
  BY <1>7, <1>8 DEF ClearExplanation
<1>9. CASE UNCHANGED vars
  BY <1>7, <1>9 DEF vars
<1>10. ASSUME NEW c \in Calls, FetchAttendance(c) \/ CreateAttendance(c) PROVE WaitsAreShort'
  BY <1>0, <1>3, <1>4, <1>10, FetchKinds
<1>11. ASSUME NEW j \in Jobs, NEW b \in Bookings, SkipBooking(j, b) PROVE WaitsAreShort'
  <2>1. j \in Calls
    BY <1>0
  <2>2. QED  BY <1>2, <1>11, <2>1
<1>12. ASSUME NEW c \in Calls, NEW b \in Bookings, NEW new \in Terminal \union {"NO_SHOW"},
              Change(c, b, new)
       PROVE  WaitsAreShort'
  BY <1>1, <1>2, <1>12 DEF Change
<1>13. QED  BY <1>5, <1>6, <1>8, <1>9, <1>10, <1>11, <1>12 DEF Step

\* Every step keeps the bookings that jobs change on their lists.
LEMMA ListsPreserved ==
  ASSUME TypeOK, JobsWorkOnLists, [Next]_vars, NEW j \in Jobs, pc'[j] \in Mid
  PROVE  work'[j].booking \in todo'[j]
<1>0. /\ j \in Calls
      /\ pc \in [Calls -> Mid \union {"idle", "loop", "visit"}]
      /\ \E W : work \in [Calls -> W]
      /\ todo \in [Jobs -> SUBSET Bookings]
  BY DEF TypeOK, Calls
<1>1. ASSUME pc[j] \in Mid, work'[j] = work[j], todo'[j] = todo[j]
      PROVE  work'[j].booking \in todo'[j]
  BY <1>1 DEF JobsWorkOnLists
<1>2. ASSUME NEW c \in Calls, c # j, Stands(j) PROVE work'[j].booking \in todo'[j]
  BY <1>1, <1>2 DEF Stands
<1>3. ASSUME NEW b \in Bookings, NEW new, LockBooking(j, b, new)
      PROVE  work'[j].booking \in todo'[j]
  <2>1. b \in todo[j] /\ todo' = todo
    BY <1>3, AttendanceAssumption DEF LockBooking, Asks, jobs
  <2>2. work'[j].booking = b
    BY <1>0, <1>3 DEF LockBooking
  <2>3. QED  BY <2>1, <2>2
<1>4. ASSUME NEW q \in {"idle", "loop", "visit"}, pc' = [pc EXCEPT ![j] = q] PROVE FALSE
  BY <1>0, <1>4 DEF Mid
<1>5. ASSUME FetchAttendance(j) \/ CreateAttendance(j) PROVE work'[j].booking \in todo'[j]
  <2>1. pc[j] \in Mid /\ work' = work /\ todo' = todo
    BY <1>5 DEF FetchAttendance, CreateAttendance, HaveAccount, Goto, jobs, Mid
  <2>2. QED  BY <1>1, <2>1
<1>6. ASSUME JobMoves(j) PROVE work'[j].booking \in todo'[j]
  <2>1. /\ pc[j] \in {"idle", "loop", "visit"}
        /\ pc' = pc \/ \E q \in {"idle", "loop", "visit"} : pc' = [pc EXCEPT ![j] = q]
    BY <1>6 DEF JobMoves, JobCloseManually, JobNotReady, JobList, JobLoad, JobClose, JobEnd
  <2>2. QED  BY <1>4, <2>1 DEF Mid
<1>7. ASSUME Return(j) PROVE FALSE
  BY <1>4, <1>7 DEF Return
<1>8. ASSUME NEW c \in Calls, NEW b \in Bookings, NEW new \in Terminal \union {"NO_SHOW"},
             Change(c, b, new)
      PROVE  work'[j].booking \in todo'[j]
  <2>1. CASE c = j
    BY <1>3, <1>7, <1>8, <2>1 DEF Change, ChangeUncounted
  <2>2. CASE c # j
    BY <1>0, <1>2, <1>8, <2>2, OthersStand
  <2>3. QED  BY <2>1, <2>2
<1>9. ASSUME NEW i \in Jobs, JobMoves(i) \/ \E b \in Bookings : SkipBooking(i, b)
      PROVE  work'[j].booking \in todo'[j]
  <2>1. i \in Calls
    BY DEF Calls
  <2>2. CASE i = j
    BY <1>6, <1>7, <1>9, <2>2 DEF SkipBooking
  <2>3. CASE i # j
    BY <1>0, <1>2, <1>9, <2>1, <2>3, OthersStand
  <2>4. QED  BY <2>2, <2>3
<1>10. ASSUME NEW c \in Calls,
              FetchAttendance(c) \/ CreateAttendance(c) \/ CommitStatus(c) \/ Die(c)
       PROVE  work'[j].booking \in todo'[j]
  <2>1. CASE c = j
    BY <1>4, <1>5, <1>7, <1>10, <2>1 DEF CommitStatus, Die
  <2>2. CASE c # j
    BY <1>0, <1>2, <1>10, <2>2, OthersStand
  <2>3. QED  BY <2>1, <2>2
<1>11. ASSUME UNCHANGED <<pc, work, todo>> PROVE work'[j].booking \in todo'[j]
  BY <1>1, <1>11
<1>12. ASSUME NEW a \in Accounts, ClearExplanation(a) PROVE work'[j].booking \in todo'[j]
  BY <1>11, <1>12 DEF ClearExplanation, jobs
<1>13. CASE UNCHANGED vars
  BY <1>11, <1>13 DEF vars, jobs
<1>14. QED  BY StepKinds, <1>8, <1>9, <1>10, <1>12, <1>13 DEF Step

\* In every reachable state whoever holds a row is about to let it go.
THEOREM WaitsStayShort == Spec => []Moving
<1>1. Init => Moving
  <2> SUFFICES ASSUME Init PROVE Moving
    OBVIOUS
  <2>1. \A j \in Jobs : pc[j] = "idle"
    BY DEF Init, Calls
  <2>2. WaitsAreShort /\ JobsWorkOnLists
    BY <2>1 DEF Init, WaitsAreShort, JobsWorkOnLists, Mid
  <2>3. QED  BY <2>2, InitInductive DEF Moving
<1>2. Moving /\ [Next]_vars => Moving'
  <2> SUFFICES ASSUME Moving, [Next]_vars PROVE Moving'
    OBVIOUS
  <2>1. Inductive'
    BY Preserved DEF Moving
  <2>2. WaitsAreShort'
    BY StepKinds, WaitsPreserved DEF Moving
  <2>3. JobsWorkOnLists'
    BY ListsPreserved DEF Moving, Inductive, JobsWorkOnLists
  <2>4. QED  BY <2>1, <2>2, <2>3 DEF Moving
<1>3. QED  BY <1>1, <1>2, PTL DEF Spec

\* A call in progress comes nearer to its end or stands, whoever makes the step.
LEMMA Advances ==
  ASSUME Moving, [Next]_vars, NEW c \in Calls, pc[c] # "idle"
  PROVE  Nearer(c) \/ Stands(c)
<1> USE DEF Moving, Inductive
<1>0. \A j \in Jobs : j \in Calls
  BY DEF Calls
<1>1. ASSUME CallStep(c) \/ (c \in Jobs /\ JobStep(c)) \/ Die(c) PROVE Nearer(c)
  BY <1>1, CallNearer, JobNearer, DeathEnds
<1>2. ASSUME NEW s \in Staff, StaffStep(s) PROVE Stands(c)
  <2>1. PICK b \in Bookings, new \in Terminal \union {"NO_SHOW"} : Change(s, b, new)
    BY <1>2 DEF StaffStep, Change
  <2>2. s \in Calls /\ pc[s] = "idle"
    BY <2>1, AttendanceAssumption DEF Change, LockBooking, ChangeUncounted, Asks, Calls
  <2>3. QED  BY <2>1, <2>2, OthersStand
<1>3. ASSUME NEW d \in Calls, d # c, CallStep(d) \/ Die(d) PROVE Stands(c)
  BY <1>3, OthersStand DEF CallStep
<1>4. ASSUME NEW j \in Jobs, JobLoad(j) PROVE Stands(c)
  <2>1. j # c
    BY <1>4 DEF JobLoad
  <2>2. QED  BY <1>0, <1>4, <2>1, OthersStand DEF JobMoves
<1>5. ASSUME NEW j \in Jobs, j # c, JobStep(j) PROVE Stands(c)
  <2>1. "VISITED" \in Terminal \union {"NO_SHOW"}
    BY DEF Terminal
  <2>2. \/ \E b \in Bookings, new \in Terminal \union {"NO_SHOW"} : Change(j, b, new)
        \/ \E b \in Bookings : SkipBooking(j, b)
        \/ JobMoves(j)
    BY <1>5, <2>1 DEF JobStep, JobMoves, Change
  <2>3. QED  BY <1>0, <1>5, <2>2, OthersStand
<1>6. ASSUME UNCHANGED <<known, pc, work, jobs>> PROVE Stands(c)
  BY <1>6, LeftAlone DEF jobs
<1>7. ASSUME NEW a \in Accounts, ClearExplanation(a) PROVE Stands(c)
  BY <1>6, <1>7 DEF ClearExplanation
<1>8. CASE UNCHANGED vars
  BY <1>6, <1>8 DEF vars, ledger
<1>9. QED  BY <1>1, <1>2, <1>3, <1>4, <1>5, <1>7, <1>8 DEF Next

\* The well-founded half of EveryCallEnds: every statement counts, and nothing that others
\* do, not even a row that appears under get_or_create, sends a call back.
THEOREM CallsGoOn == Spec => CallsAdvance
<1>1. Moving /\ [Next]_vars =>
        [\A c \in Calls :
           /\ CallStep(c) \/ (c \in Jobs /\ JobStep(c)) => Nearer(c)
           /\ pc[c] # "idle" => Nearer(c) \/ Stands(c)]_vars
  BY Advances, CallNearer, JobNearer DEF Moving, Inductive
<1>2. QED  BY <1>1, WaitsStayShort, PTL DEF Spec, CallsAdvance

=============================================================================
