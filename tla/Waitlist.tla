------------------------------ MODULE Waitlist ------------------------------
(***************************************************************************)
(* The queue of one lab session (bookings/services/waitlist.py) and the    *)
(* bookings and cancellations that feed it and empty it.                   *)
(*                                                                         *)
(* create_booking is two steps here: it reads the session, and later       *)
(* checks its rules and inserts in one step, which is how its transactions *)
(* behave (BooksLikeSeatAllocation of BookingTransactions).  A promotion   *)
(* runs after the commit of a cancellation, outside every transaction:     *)
(* it reads the first entry, books for it, and deletes it, and other       *)
(* promotions, requests and cancellations run in between.                  *)
(***************************************************************************)
EXTENDS Integers, FiniteSets

CONSTANTS
  Students,
  Capacity,       \* seats of the session
  Workers,        \* server threads that cancel and then promote
  MaxEntries,     \* bound: entries that may ever join
  NoEntry

ASSUME WaitlistAssumption ==
  /\ IsFiniteSet(Students)
  /\ Capacity \in Nat \ {0}
  /\ MaxEntries \in Nat
  /\ NoEntry \notin [id : Nat, student : Students, position : Nat]

VARIABLES
  sessionStatus,
  active,         \* BOOKED bookings of each student in the session
  asked,          \* students whose own request read the session OPEN
  queue,          \* waitlist rows: [id, student, position]
  joined,         \* the last primary key of a waitlist row
  pc,             \* control state of each worker
  entry,          \* the row a promotion has read
  pending,        \* on_commit callbacks a worker still has to run
  told            \* notices about a row: <<id, event>>

vars == <<sessionStatus, active, asked, queue, joined, pc, entry, pending, told>>

Entries == [id : 1..MaxEntries, student : Students, position : 1..MaxEntries]

Init ==
  /\ sessionStatus = "OPEN"
  /\ active = [s \in Students |-> 0]
  /\ asked = {}
  /\ queue = {}
  /\ joined = 0
  /\ pc = [w \in Workers |-> "idle"]
  /\ entry = [w \in Workers |-> NoEntry]
  /\ pending = [w \in Workers |-> 0]
  /\ told = {}

-----------------------------------------------------------------------------
\* The bookings of the session: BOOKED ones of each student, numbered.
Places == {p \in Students \X (1..Cardinality(Students) + 1) : p[2] <= active[p[1]]}

Taken == Cardinality(Places)

\* What create_booking asks of this session: a seat, and no other active
\* booking of the student, who would exceed the discipline limit.
MayBook(s) == Taken < Capacity /\ active[s] = 0

AskSession(s) ==
  /\ sessionStatus = "OPEN"
  /\ s \notin asked
  /\ asked' = asked \union {s}
  /\ UNCHANGED <<sessionStatus, active, queue, joined, pc, entry, pending, told>>

BookDirectly(s) ==
  /\ s \in asked
  /\ MayBook(s)
  /\ active' = [active EXCEPT ![s] = @ + 1]
  /\ asked' = asked \ {s}
  /\ UNCHANGED <<sessionStatus, queue, joined, pc, entry, pending, told>>

\* One of the booking rules refuses.
RefuseDirectly(s) ==
  /\ s \in asked
  /\ asked' = asked \ {s}
  /\ UNCHANGED <<sessionStatus, active, queue, joined, pc, entry, pending, told>>

\* Defect: nobody asks whether the student already waits.
JoinAgain(s) ==
  /\ Taken >= Capacity
  /\ joined < MaxEntries
  /\ joined' = joined + 1
  /\ queue' = queue \union
       {[id |-> joined + 1, student |-> s, position |-> Cardinality(queue) + 1]}
  /\ UNCHANGED <<sessionStatus, active, asked, pc, entry, pending, told>>

\* Defect: the session is not locked, so a row that joins meanwhile is not counted.
JoinUnlocked(s) ==
  /\ Taken >= Capacity
  /\ \A e \in queue : e.student # s
  /\ joined < MaxEntries
  /\ joined' = joined + 1
  /\ \E n \in {Cardinality(queue), Cardinality(queue) - 1} \intersect Nat :
       queue' = queue \union {[id |-> joined + 1, student |-> s, position |-> n + 1]}
  /\ UNCHANGED <<sessionStatus, active, asked, pc, entry, pending, told>>

\* _join_waitlist_impl, under the row lock of the session
Join(s) ==
  /\ Taken >= Capacity
  /\ \A e \in queue : e.student # s
  /\ joined < MaxEntries
  /\ joined' = joined + 1
  /\ queue' = queue \union
       {[id |-> joined + 1, student |-> s, position |-> Cardinality(queue) + 1]}
  /\ UNCHANGED <<sessionStatus, active, asked, pc, entry, pending, told>>

-----------------------------------------------------------------------------
(* Cancellations, whose commit starts the promotions *)

Cancel(w, s) ==
  /\ pc[w] = "idle"
  /\ active[s] > 0
  /\ active' = [active EXCEPT ![s] = @ - 1]
  /\ pc' = [pc EXCEPT ![w] = "promote"]
  /\ pending' = [pending EXCEPT ![w] = 1]
  /\ UNCHANGED <<sessionStatus, asked, queue, joined, entry, told>>

\* drop_session_waitlist tells everybody who waits and empties the queue.
DropSessionWaitlist ==
  /\ queue' = {}
  /\ told' = told \union {<<e.id, "session_cancelled">> : e \in queue}

\* _cancel_session_bookings_impl drops the queue and schedules one promotion
\* for each booking that it cancels.
CancelSession(w) ==
  /\ pc[w] = "idle"
  /\ sessionStatus = "OPEN"
  /\ sessionStatus' = "CANCELLED"
  /\ active' = [s \in Students |-> 0]
  /\ DropSessionWaitlist
  /\ pc' = [pc EXCEPT ![w] = IF Taken > 0 THEN "promote" ELSE "idle"]
  /\ pending' = [pending EXCEPT ![w] = Taken]
  /\ UNCHANGED <<asked, joined, entry>>

-----------------------------------------------------------------------------
(* promote_waitlist *)

\* Defect: the callback stays registered after it has run.
CallbackKept(w) ==
  /\ pc' = [pc EXCEPT ![w] = "promote"]
  /\ entry' = [entry EXCEPT ![w] = NoEntry]
  /\ UNCHANGED pending

CallbackDone(w) ==
  /\ pending' = [pending EXCEPT ![w] = @ - 1]
  /\ pc' = [pc EXCEPT ![w] = IF pending[w] > 1 THEN "promote" ELSE "idle"]
  /\ entry' = [entry EXCEPT ![w] = NoEntry]

\* Defect: the row is deleted as soon as it is read.
ReadFirstAndDelete(w) ==
  /\ pc[w] = "promote"
  /\ queue # {}
  /\ \E e \in queue :
       /\ \A f \in queue : e.position <= f.position
       /\ entry' = [entry EXCEPT ![w] = e]
       /\ queue' = queue \ {e}
  /\ pc' = [pc EXCEPT ![w] = "read"]
  /\ UNCHANGED <<sessionStatus, active, asked, joined, pending, told>>

\* order_by("position").first(): of equal positions the database picks any.
ReadFirst(w) ==
  /\ pc[w] = "promote"
  /\ queue # {}
  /\ \E e \in queue :
       /\ \A f \in queue : e.position <= f.position
       /\ entry' = [entry EXCEPT ![w] = e]
  /\ pc' = [pc EXCEPT ![w] = "read"]
  /\ UNCHANGED <<sessionStatus, active, asked, queue, joined, pending, told>>

NobodyWaits(w) ==
  /\ pc[w] = "promote"
  /\ queue = {}
  /\ CallbackDone(w)
  /\ UNCHANGED <<sessionStatus, active, asked, queue, joined, told>>

\* The rest of the promotion once a BookingError came: the notice, then the
\* deletion of the row (DeleteEntry).
Refused(w) ==
  /\ told' = told \union {<<entry[w].id, "dropped">>}
  /\ pc' = [pc EXCEPT ![w] = "settled"]
  /\ UNCHANGED <<sessionStatus, active, asked, queue, joined, entry, pending>>

\* The first query of create_booking finds the session OPEN, ...
LoadSession(w) ==
  /\ pc[w] = "read"
  /\ sessionStatus = "OPEN"
  /\ pc' = [pc EXCEPT ![w] = "loaded"]
  /\ UNCHANGED <<sessionStatus, active, asked, queue, joined, entry, pending, told>>

\* ... or closed to bookings.
LoadClosedSession(w) ==
  /\ pc[w] = "read"
  /\ sessionStatus # "OPEN"
  /\ Refused(w)

BookEntry(w) ==
  LET e == entry[w] IN
  /\ pc[w] = "loaded"
  /\ MayBook(e.student)
  /\ active' = [active EXCEPT ![e.student] = @ + 1]
  /\ told' = told \union {<<e.id, "booked">>}
  /\ pc' = [pc EXCEPT ![w] = "settled"]
  /\ UNCHANGED <<sessionStatus, asked, queue, joined, entry, pending>>

\* BookingError: a rule refuses, here or in another session, or the retries of
\* a deadlock are used up.
RefuseEntry(w) == pc[w] = "loaded" /\ Refused(w)

\* entry.delete(), which deletes nothing if the row is gone
DeleteEntry(w) ==
  /\ pc[w] = "settled"
  /\ queue' = queue \ {entry[w]}
  /\ CallbackDone(w)
  /\ UNCHANGED <<sessionStatus, active, asked, joined, told>>

\* The worker dies; what is committed stays, the callbacks are lost.
Die(w) ==
  /\ pc[w] # "idle"
  /\ pc' = [pc EXCEPT ![w] = "idle"]
  /\ entry' = [entry EXCEPT ![w] = NoEntry]
  /\ pending' = [pending EXCEPT ![w] = 0]
  /\ UNCHANGED <<sessionStatus, active, asked, queue, joined, told>>

Promote(w) ==
  \/ ReadFirst(w) \/ NobodyWaits(w) \/ LoadSession(w) \/ LoadClosedSession(w)
  \/ BookEntry(w) \/ RefuseEntry(w) \/ DeleteEntry(w)

Next ==
  \/ \E s \in Students : AskSession(s) \/ BookDirectly(s) \/ RefuseDirectly(s) \/ Join(s)
  \/ \E w \in Workers, s \in Students : Cancel(w, s)
  \/ \E w \in Workers : CancelSession(w) \/ Promote(w) \/ Die(w)

Spec == Init /\ [][Next]_vars

\* A promotion that has started goes on; nobody has to book, join or cancel.
Fairness == \A w \in Workers : WF_vars(Promote(w))

FairSpec == Spec /\ Fairness

-----------------------------------------------------------------------------
\* Every variable has its type, a student has one row in the queue, and a
\* worker has a row in hand exactly between reading and deleting it.
TypeOK ==
  /\ sessionStatus \in {"OPEN", "CANCELLED"}
  /\ active \in [Students -> 0..Capacity]
  /\ asked \subseteq Students
  /\ queue \subseteq Entries
  /\ joined \in 0..MaxEntries
  /\ \A e, f \in queue : e.id = f.id \/ e.student = f.student => e = f
  /\ pc \in [Workers -> {"idle", "promote", "read", "loaded", "settled"}]
  /\ entry \in [Workers -> Entries \union {NoEntry}]
  /\ \A w \in Workers : entry[w] = NoEntry <=> pc[w] \in {"idle", "promote"}
  /\ pending \in [Workers -> 0..Capacity]
  /\ \A w \in Workers : pending[w] = 0 <=> pc[w] = "idle"
  /\ told \subseteq (1..MaxEntries) \X {"booked", "dropped", "session_cancelled"}

\* A position is given by counting (waitlist.py:43), so it repeats once a row has left,
\* and a later row may be served first.  Still nobody stands further back than the
\* position says: never are more rows to be served before a row or with it.
NeverFurtherBack ==
  \A e \in queue : Cardinality({f \in queue : f.position <= e.position}) <= e.position

\* A row leaves the queue only once its student has been booked from it, or
\* been told that the place is lost, even if a worker dies (waitlist.py:84).
NobodyLeavesSilently ==
  [][\A e \in queue \ queue' : \E event \in {"booked", "dropped", "session_cancelled"} :
       <<e.id, event>> \in told']_vars

\* A promotion comes to its end, whatever becomes of its row meanwhile.
EveryPromotionEnds ==
  \A w \in Workers : pc[w] # "idle" ~> pc[w] = "idle"

-----------------------------------------------------------------------------
(* What a docstring says of the program *)

\* "Book the first of the queue for the seat that became free" (waitlist.py:64):
\* of those who wait, the one that joined first is taken.
FirstInQueueFirst ==
  [][\A w \in Workers :
       pc[w] = "promote" /\ pc'[w] = "read" => \A f \in queue : entry'[w].id <= f.id]_vars

=============================================================================
