--------------------------- MODULE WaitlistProofs ---------------------------
(***************************************************************************)
(* However many workers promote, students book and workers die: nobody     *)
(* leaves the queue without a word or stands further back in it than the   *)
(* position says, for any number of seats, students, workers and rows.     *)
(***************************************************************************)
EXTENDS Waitlist, FiniteSetTheorems, WellFoundedInduction, TLAPS

\* Rows are numbered as they join, and there are no more of them than have joined.
QueueIsNumbered ==
  /\ \A e \in queue : e.id <= joined
  /\ IsFiniteSet(queue) /\ Cardinality(queue) <= joined

\* No more bookings than seats, and no student with two: what the type of active rests on.
SeatsAreShared == Taken <= Capacity /\ \A s \in Students : active[s] <= 1

\* A worker deletes a row only after its student has been told.
SettledIsTold ==
  \A w \in Workers : pc[w] = "settled" =>
    \E event \in {"booked", "dropped", "session_cancelled"} : <<entry[w].id, event>> \in told

Inductive ==
  TypeOK /\ SeatsAreShared /\ QueueIsNumbered /\ NeverFurtherBack /\ SettledIsTold

-----------------------------------------------------------------------------
(* Seats *)

\* One more element is at most one more to count.
LEMMA OneMore ==
  ASSUME NEW S, IsFiniteSet(S), NEW x
  PROVE  IsFiniteSet(S \union {x}) /\ Cardinality(S \union {x}) <= Cardinality(S) + 1
<1>1. CASE x \in S
  <2>1. S \union {x} = S
    BY <1>1
  <2>2. Cardinality(S) \in Nat
    BY FS_CardinalityType
  <2>3. Cardinality(S) <= Cardinality(S) + 1
    BY <2>2
  <2>4. QED  BY <2>1, <2>3
<1>2. CASE x \notin S
  <2>1. Cardinality(S) \in Nat /\ IsFiniteSet(S \union {x})
        /\ Cardinality(S \union {x}) = Cardinality(S) + 1
    BY <1>2, FS_AddElement, FS_CardinalityType
  <2>2. QED  BY <2>1
<1>3. QED  BY <1>1, <1>2

\* There are finitely many of them.
LEMMA PlacesFinite ==
  /\ IsFiniteSet(Places) /\ Taken \in Nat
  /\ 1 \in 1..Cardinality(Students) + 1
<1>1. Cardinality(Students) \in Nat /\ IsFiniteSet(Students)
  BY WaitlistAssumption, FS_CardinalityType
<1>2. IsFiniteSet(1..Cardinality(Students) + 1)
  BY <1>1, FS_Interval
<1>3. IsFiniteSet(Students \X (1..Cardinality(Students) + 1))
  BY <1>1, <1>2, FS_Product
<1>4. IsFiniteSet(Places)
  BY <1>3, FS_Subset DEF Places
<1>5. QED  BY <1>1, <1>4, FS_CardinalityType DEF Taken

\* A booking that MayBook allows takes one seat, which is there.
LEMMA BookingTakesOne ==
  ASSUME TypeOK, SeatsAreShared, NEW s \in Students, MayBook(s),
         active' = [active EXCEPT ![s] = @ + 1]
  PROVE  active' \in [Students -> 0..Capacity] /\ SeatsAreShared'
<1>1. active \in [Students -> 0..Capacity] /\ active[s] = 0 /\ Capacity \in Nat \ {0}
  BY WaitlistAssumption DEF TypeOK, MayBook
<1>2. Places' \subseteq Places \union {<<s, 1>>}
  <2>1. ASSUME NEW p \in Places' PROVE p \in Places \union {<<s, 1>>}
    <3>1. p \in Students \X (1..Cardinality(Students) + 1) /\ p[2] <= active'[p[1]]
      BY <2>1 DEF Places
    <3>2. p[2] \in Int /\ p[2] >= 1 /\ p = <<p[1], p[2]>> /\ p[1] \in Students
      BY <3>1, PlacesFinite
    <3>3. CASE p[1] = s
      BY <1>1, <3>1, <3>2, <3>3
    <3>4. CASE p[1] # s
      BY <1>1, <3>1, <3>2, <3>4 DEF Places
    <3>5. QED  BY <3>3, <3>4
  <2>2. QED  BY <2>1
<1>3. Taken' <= Taken + 1 /\ Taken' \in Nat
  <2>1. IsFiniteSet(Places \union {<<s, 1>>})
        /\ Cardinality(Places \union {<<s, 1>>}) <= Cardinality(Places) + 1
    BY PlacesFinite, OneMore
  <2>2. IsFiniteSet(Places') /\ Cardinality(Places') <= Cardinality(Places \union {<<s, 1>>})
    BY <1>2, <2>1, FS_Subset
  <2>3. Cardinality(Places') \in Nat /\ Cardinality(Places \union {<<s, 1>>}) \in Nat
    BY <2>1, <2>2, FS_CardinalityType
  <2>4. QED  BY <2>1, <2>2, <2>3, PlacesFinite DEF Taken
<1>4. Taken' <= Capacity
  BY <1>1, <1>3, PlacesFinite DEF MayBook
<1>5. active' \in [Students -> 0..Capacity] /\ \A t \in Students : active'[t] <= 1
  BY <1>1 DEF SeatsAreShared
<1>6. QED  BY <1>4, <1>5 DEF SeatsAreShared

\* Fewer bookings of each student are fewer bookings of the session.
LEMMA CancellationsFreeSeats ==
  ASSUME TypeOK, SeatsAreShared, active' \in [Students -> 0..Capacity],
         \A s \in Students : active'[s] <= active[s]
  PROVE  SeatsAreShared'
<1>1. active \in [Students -> 0..Capacity] /\ Capacity \in Nat
  BY WaitlistAssumption DEF TypeOK
<1>2. Places' \subseteq Places
  <2>1. ASSUME NEW p \in Places' PROVE p \in Places
    <3>1. p \in Students \X (1..Cardinality(Students) + 1) /\ p[2] <= active'[p[1]]
      BY <2>1 DEF Places
    <3>2. p[2] \in Int /\ p[1] \in Students
      BY <3>1, PlacesFinite
    <3>3. p[2] <= active[p[1]]
      BY <1>1, <3>1, <3>2
    <3>4. QED  BY <3>1, <3>3 DEF Places
  <2>2. QED  BY <2>1
<1>3. Taken' <= Taken /\ Taken' \in Nat
  BY <1>2, PlacesFinite, FS_Subset, FS_CardinalityType DEF Taken
<1>4. \A s \in Students : active'[s] <= 1
  BY <1>1 DEF SeatsAreShared
<1>5. QED  BY <1>1, <1>3, <1>4, PlacesFinite DEF SeatsAreShared

\* Without bookings no place is taken.
LEMMA EmptySessionIsFree ==
  ASSUME active = [s \in Students |-> 0] PROVE Taken = 0
<1>1. ASSUME NEW p \in Places PROVE FALSE
  <2>1. p[1] \in Students /\ p[2] \in 1..Cardinality(Students) + 1 /\ p[2] <= active[p[1]]
    BY <1>1 DEF Places
  <2>2. QED  BY <2>1, WaitlistAssumption, FS_CardinalityType
<1>2. Places = {}
  BY <1>1
<1>3. QED  BY <1>2, FS_EmptySet DEF Taken

-----------------------------------------------------------------------------
(* The parts of the type invariant *)

\* A worker has callbacks while it is not idle, and a row between reading and deleting it.
WorkerTypes(w) ==
  /\ pc[w] \in {"idle", "promote", "read", "loaded", "settled"}
  /\ entry[w] \in Entries \union {NoEntry}
  /\ entry[w] = NoEntry <=> pc[w] \in {"idle", "promote"}
  /\ pending[w] \in 0..Capacity
  /\ pending[w] = 0 <=> pc[w] = "idle"

Functions ==
  /\ pc \in [Workers -> {"idle", "promote", "read", "loaded", "settled"}]
  /\ entry \in [Workers -> Entries \union {NoEntry}]
  /\ pending \in [Workers -> 0..Capacity]

QueueTypes ==
  /\ queue \subseteq Entries
  /\ joined \in 0..MaxEntries
  /\ \A e, f \in queue : e.id = f.id \/ e.student = f.student => e = f

Events == {"booked", "dropped", "session_cancelled"}

\* No worker has no row as its row.
LEMMA NoEntryIsNoRow == NoEntry \notin Entries
  BY WaitlistAssumption DEF Entries

\* In the beginning nobody is booked and nobody waits.
LEMMA InductiveInit == Init => Inductive
<1> SUFFICES ASSUME Init PROVE Inductive
  OBVIOUS
<1>1. TypeOK
  BY WaitlistAssumption DEF Init, TypeOK
<1>2. SeatsAreShared
  BY EmptySessionIsFree, WaitlistAssumption DEF Init, SeatsAreShared
<1>3. QueueIsNumbered
  BY FS_EmptySet DEF Init, QueueIsNumbered
<1>4. SettledIsTold
  BY DEF Init, SettledIsTold
<1>5. NeverFurtherBack
  BY DEF Init, NeverFurtherBack
<1>6. QED  BY <1>1, <1>2, <1>3, <1>4, <1>5 DEF Inductive


-----------------------------------------------------------------------------
(* Steps *)

\* However it is made, a booking takes a free seat; cancellations only free them.
LEMMA SeatsKept ==
  ASSUME Inductive, [Next]_vars
  PROVE  active' \in [Students -> 0..Capacity] /\ SeatsAreShared'
<1> USE DEF Inductive
<1>1. active \in [Students -> 0..Capacity] /\ Capacity \in Nat
  BY WaitlistAssumption DEF TypeOK
<1>2. CASE UNCHANGED active
  <2>1. active' \in [Students -> 0..Capacity]
    BY <1>1, <1>2
  <2>2. \A s \in Students : active'[s] <= active[s]
    BY <1>1, <1>2
  <2>3. QED  BY <2>1, <2>2, CancellationsFreeSeats
<1>3. ASSUME NEW s \in Students, BookDirectly(s) PROVE active' \in [Students -> 0..Capacity] /\ SeatsAreShared'
  BY <1>3, BookingTakesOne DEF BookDirectly
<1>4. ASSUME NEW w \in Workers, BookEntry(w) PROVE active' \in [Students -> 0..Capacity] /\ SeatsAreShared'
  <2>1. PICK s : s = entry[w].student
    OBVIOUS
  <2>2. entry[w] \in Entries
    BY <1>4 DEF BookEntry, TypeOK
  <2>3. s \in Students /\ MayBook(s) /\ active' = [active EXCEPT ![s] = @ + 1]
    BY <1>4, <2>1, <2>2 DEF BookEntry, Entries
  <2>4. QED  BY <2>3, BookingTakesOne
<1>5. ASSUME NEW w \in Workers, NEW s \in Students, Cancel(w, s) PROVE active' \in [Students -> 0..Capacity] /\ SeatsAreShared'
  <2>1. active[s] > 0 /\ active' = [active EXCEPT ![s] = @ - 1]
    BY <1>5 DEF Cancel
  <2>2. active' \in [Students -> 0..Capacity] /\ \A t \in Students : active'[t] <= active[t]
    BY <1>1, <2>1
  <2>3. QED  BY <2>2, CancellationsFreeSeats
<1>6. ASSUME NEW w \in Workers, CancelSession(w) PROVE active' \in [Students -> 0..Capacity] /\ SeatsAreShared'
  <2>1. active' = [s \in Students |-> 0]
    BY <1>6 DEF CancelSession
  <2>2. active' \in [Students -> 0..Capacity] /\ \A t \in Students : active'[t] <= active[t]
    BY <1>1, <2>1
  <2>3. QED  BY <2>2, CancellationsFreeSeats
<1>7. ASSUME NEW s \in Students, AskSession(s) \/ RefuseDirectly(s) \/ Join(s) PROVE UNCHANGED active
  BY <1>7 DEF AskSession, RefuseDirectly, Join
<1>8. ASSUME NEW w \in Workers,
             \/ ReadFirst(w) \/ NobodyWaits(w) \/ LoadSession(w) \/ LoadClosedSession(w)
             \/ RefuseEntry(w) \/ DeleteEntry(w) \/ Die(w)
      PROVE  UNCHANGED active
  BY <1>8 DEF ReadFirst, NobodyWaits, LoadSession, LoadClosedSession, RefuseEntry, Refused,
              DeleteEntry, Die
<1>9. CASE UNCHANGED vars
  BY <1>2, <1>9 DEF vars
<1>10. QED
  BY <1>2, <1>3, <1>4, <1>5, <1>6, <1>7, <1>8, <1>9 DEF Next, Promote

\* Rows leave by the step of a worker or with the session; one joins behind them, with a
\* number that no row has.
LEMMA QueueSteps ==
  ASSUME [Next]_vars
  PROVE  \/ queue' \subseteq queue /\ joined' = joined
         \/ \E s \in Students : Join(s)
<1>1. ASSUME NEW s \in Students, AskSession(s) \/ BookDirectly(s) \/ RefuseDirectly(s)
      PROVE  queue' \subseteq queue /\ joined' = joined
  BY <1>1 DEF AskSession, BookDirectly, RefuseDirectly
<1>2. ASSUME NEW w \in Workers, NEW s \in Students, Cancel(w, s)
      PROVE  queue' \subseteq queue /\ joined' = joined
  BY <1>2 DEF Cancel
<1>3. ASSUME NEW w \in Workers, CancelSession(w) \/ Promote(w) \/ Die(w)
      PROVE  queue' \subseteq queue /\ joined' = joined
  BY <1>3 DEF CancelSession, DropSessionWaitlist, Promote, ReadFirst, NobodyWaits, LoadSession,
              LoadClosedSession, BookEntry, RefuseEntry, Refused, DeleteEntry, Die
<1>4. CASE UNCHANGED vars
  BY <1>4 DEF vars
<1>5. QED  BY <1>1, <1>2, <1>3, <1>4 DEF Next

\* The queue stays numbered, with one row for a student.
LEMMA QueueKept ==
  ASSUME Inductive, [Next]_vars
  PROVE  QueueTypes' /\ QueueIsNumbered'
<1> USE DEF Inductive
<1>1. QueueTypes /\ QueueIsNumbered /\ MaxEntries \in Nat
  BY WaitlistAssumption DEF TypeOK, QueueTypes
<1>2. CASE queue' \subseteq queue /\ joined' = joined
  <2>1. QueueTypes'
    BY <1>1, <1>2 DEF QueueTypes
  <2>2. \A e \in queue' : e.id <= joined'
    BY <1>1, <1>2 DEF QueueIsNumbered
  <2>3. IsFiniteSet(queue') /\ Cardinality(queue') <= Cardinality(queue)
        /\ Cardinality(queue) \in Nat /\ Cardinality(queue') \in Nat
    BY <1>1, <1>2, FS_Subset, FS_CardinalityType DEF QueueIsNumbered
  <2>4. QED  BY <1>1, <1>2, <2>1, <2>2, <2>3 DEF QueueIsNumbered, QueueTypes
<1>3. ASSUME NEW s \in Students, Join(s) PROVE QueueTypes' /\ QueueIsNumbered'
  <2>1. PICK x : x = [id |-> joined + 1, student |-> s, position |-> Cardinality(queue) + 1]
    OBVIOUS
  <2>2. Cardinality(queue) \in Nat /\ Cardinality(queue) <= joined /\ IsFiniteSet(queue)
    BY <1>1, FS_CardinalityType DEF QueueIsNumbered
  <2>3. joined \in 0..MaxEntries /\ joined < MaxEntries /\ joined' = joined + 1
        /\ queue' = queue \union {x}
    BY <1>1, <1>3, <2>1 DEF Join, QueueTypes
  <2>4. x \in Entries
    BY <1>1, <2>1, <2>2, <2>3 DEF Entries
  <2>5. \A e \in queue : e.student # x.student /\ e.id # x.id
    <3>1. ASSUME NEW e \in queue PROVE e.student # x.student
      BY <1>3, <2>1 DEF Join
    <3>2. ASSUME NEW e \in queue PROVE e.id # x.id
      <4>1. e.id \in 1..MaxEntries /\ e.id <= joined
        BY <1>1 DEF QueueTypes, QueueIsNumbered, Entries
      <4>2. QED  BY <2>1, <2>3, <4>1
    <3>3. QED  BY <3>1, <3>2
  <2>6. \A e, f \in queue' : e.id = f.id \/ e.student = f.student => e = f
    BY <1>1, <2>3, <2>5 DEF QueueTypes
  <2>7. QueueTypes'
    BY <1>1, <2>3, <2>4, <2>6 DEF QueueTypes
  <2>8. \A e \in queue' : e.id <= joined'
    <3>1. ASSUME NEW e \in queue PROVE e.id <= joined'
      <4>1. e.id \in 1..MaxEntries /\ e.id <= joined
        BY <1>1 DEF QueueTypes, QueueIsNumbered, Entries
      <4>2. QED  BY <2>3, <4>1
    <3>2. x.id <= joined'
      BY <2>1, <2>3
    <3>3. QED  BY <2>3, <3>1, <3>2
  <2>9. IsFiniteSet(queue') /\ Cardinality(queue') <= Cardinality(queue) + 1
    BY <2>2, <2>3, OneMore
  <2>10. Cardinality(queue') \in Nat
    BY <2>9, FS_CardinalityType
  <2>11. QED  BY <2>2, <2>3, <2>7, <2>8, <2>9, <2>10 DEF QueueIsNumbered
<1>4. QED  BY <1>2, <1>3, QueueSteps


\* A row that leaves brings nobody further back.
LEMMA LeavingBringsForward ==
  ASSUME Inductive, queue' \subseteq queue
  PROVE  NeverFurtherBack'
<1> SUFFICES ASSUME NEW e \in queue'
             PROVE  Cardinality({f \in queue' : f.position <= e.position}) <= e.position
  BY DEF NeverFurtherBack
<1> DEFINE Before == {f \in queue : f.position <= e.position}
           After == {f \in queue' : f.position <= e.position}
<1>1. IsFiniteSet(Before) /\ After \subseteq Before
  BY FS_Subset DEF Inductive, QueueIsNumbered
<1>2. e.position \in Nat /\ Cardinality(Before) <= e.position
  BY DEF Inductive, TypeOK, Entries, NeverFurtherBack
<1> HIDE DEF Before, After
<1>3. /\ Cardinality(After) <= Cardinality(Before)
      /\ Cardinality(After) \in Nat /\ Cardinality(Before) \in Nat
  BY <1>1, FS_Subset, FS_CardinalityType
<1>4. Cardinality(After) <= e.position
  BY <1>2, <1>3
<1>5. QED  BY <1>4 DEF After

\* Who joins has no more rows up to the own one than were counted and the own one; rows
\* that it overtakes have a position of at least as many, and the others do not see it.
LEMMA JoiningStandsBehind ==
  ASSUME Inductive, NEW s \in Students, Join(s)
  PROVE  NeverFurtherBack'
<1> SUFFICES ASSUME NEW e \in queue'
             PROVE  Cardinality({f \in queue' : f.position <= e.position}) <= e.position
  BY DEF NeverFurtherBack
<1>1. PICK n \in Nat : n = Cardinality(queue)
  BY FS_CardinalityType DEF Inductive, QueueIsNumbered
<1>2. PICK x : x = [id |-> joined + 1, student |-> s, position |-> n + 1]
  OBVIOUS
<1>3. queue' = queue \union {x} /\ x.position = n + 1 /\ IsFiniteSet(queue)
  BY <1>1, <1>2 DEF Join, Inductive, QueueIsNumbered
<1>4. queue \subseteq Entries
  BY DEF Inductive, TypeOK
<1>5. PICK p \in Nat : p = e.position
  BY <1>3, <1>4 DEF Entries
<1> DEFINE After == {f \in queue' : f.position <= e.position}
<1>6. CASE n + 1 <= p
  <2>1. IsFiniteSet(queue') /\ Cardinality(queue') <= n + 1
    BY <1>1, <1>3, OneMore
  <2>2. After \subseteq queue'
    OBVIOUS
  <2> HIDE DEF After
  <2>3. /\ Cardinality(After) <= Cardinality(queue')
        /\ Cardinality(After) \in Nat /\ Cardinality(queue') \in Nat
    BY <2>1, <2>2, FS_Subset, FS_CardinalityType
  <2>4. Cardinality(After) <= p
    BY <1>6, <2>1, <2>3
  <2>5. QED  BY <1>5, <2>4 DEF After
<1>7. CASE ~(n + 1 <= p)
  <2>1. e # x
    BY <1>3, <1>5, <1>7
  <2>2. e \in queue
    BY <1>3, <2>1
  <2>3. x \notin After
    BY <1>3, <1>5, <1>7
  <2>4. After = {f \in queue : f.position <= e.position}
    BY <1>3, <2>3
  <2> HIDE DEF After
  <2>5. Cardinality(After) <= e.position
    BY <2>2, <2>4 DEF Inductive, NeverFurtherBack
  <2>6. QED  BY <2>5 DEF After
<1>8. QED  BY <1>6, <1>7

\* However rows leave and join, nobody comes to stand further back than the position says.
LEMMA PlacesInQueueKept ==
  ASSUME Inductive, [Next]_vars
  PROVE  NeverFurtherBack'
<1>1. QED  BY QueueSteps, LeavingBringsForward, JoiningStandsBehind

\* One worker moves and the others stand still.
LEMMA OneWorkerMoves ==
  ASSUME Functions, \A v \in Workers : WorkerTypes(v), NEW w \in Workers,
         NEW p \in {"idle", "promote", "read", "loaded", "settled"},
         NEW e \in Entries \union {NoEntry}, NEW n \in 0..Capacity,
         e = NoEntry <=> p \in {"idle", "promote"}, n = 0 <=> p = "idle",
         pc' = [pc EXCEPT ![w] = p],
         entry' = [entry EXCEPT ![w] = e],
         pending' = [pending EXCEPT ![w] = n]
  PROVE  Functions' /\ \A v \in Workers : WorkerTypes(v)'
<1>1. Functions'
  BY DEF Functions
<1>2. ASSUME NEW v \in Workers PROVE WorkerTypes(v)'
  <2>1. CASE v = w
    BY <2>1 DEF WorkerTypes, Functions
  <2>2. CASE v # w
    <3>1. pc'[v] = pc[v] /\ entry'[v] = entry[v] /\ pending'[v] = pending[v]
      BY <2>2 DEF Functions
    <3>2. QED  BY <3>1 DEF WorkerTypes
  <2>3. QED  BY <2>1, <2>2
<1>3. QED  BY <1>1, <1>2

\* Every step keeps the types of workers.
LEMMA WorkersKept ==
  ASSUME Inductive, [Next]_vars
  PROVE  Functions' /\ \A v \in Workers : WorkerTypes(v)'
<1> DEFINE Kept == Functions' /\ \A v \in Workers : WorkerTypes(v)'
<1>1. Functions /\ \A v \in Workers : WorkerTypes(v)
  BY DEF Inductive, TypeOK, Functions, WorkerTypes
<1>2. \A w \in Workers : /\ pc = [pc EXCEPT ![w] = pc[w]]
                         /\ entry = [entry EXCEPT ![w] = entry[w]]
                         /\ pending = [pending EXCEPT ![w] = pending[w]]
  BY <1>1 DEF Functions
<1>3. Capacity \in Nat \ {0} /\ NoEntry \notin Entries /\ queue \subseteq Entries
  BY WaitlistAssumption, NoEntryIsNoRow DEF Inductive, TypeOK
<1>4. ASSUME UNCHANGED <<pc, entry, pending>> PROVE Kept
  <2>1. pc' = pc /\ entry' = entry /\ pending' = pending
    BY <1>4
  <2>2. Functions'
    BY <1>1, <2>1 DEF Functions
  <2>3. ASSUME NEW v \in Workers PROVE WorkerTypes(v)'
    BY <1>1, <2>1 DEF WorkerTypes
  <2>4. QED  BY <2>2, <2>3
<1>5. ASSUME NEW w \in Workers, NEW s \in Students, Cancel(w, s) PROVE Kept
  <2>1. pc' = [pc EXCEPT ![w] = "promote"] /\ pending' = [pending EXCEPT ![w] = 1]
        /\ entry' = [entry EXCEPT ![w] = entry[w]] /\ pc[w] = "idle"
    BY <1>2, <1>5 DEF Cancel
  <2>2. entry[w] = NoEntry /\ entry[w] \in Entries \union {NoEntry} /\ 1 \in 0..Capacity
    BY <1>1, <1>3, <2>1 DEF WorkerTypes
  <2>3. entry' = [entry EXCEPT ![w] = NoEntry]
    BY <2>1, <2>2
  <2>4. 1 # 0
    OBVIOUS
  <2>5. pending' = [pending EXCEPT ![w] = 1] /\ pc' = [pc EXCEPT ![w] = "promote"]
    BY <2>1
  <2>6. QED
    BY <1>1, <2>2, <2>3, <2>4, <2>5, OneWorkerMoves
<1>6. ASSUME NEW w \in Workers, CancelSession(w) PROVE Kept
  <2>1. PICK p : p = IF Taken > 0 THEN "promote" ELSE "idle"
    OBVIOUS
  <2>2. pc' = [pc EXCEPT ![w] = p] /\ pending' = [pending EXCEPT ![w] = Taken]
        /\ entry' = [entry EXCEPT ![w] = entry[w]] /\ pc[w] = "idle"
    BY <1>2, <1>6, <2>1 DEF CancelSession
  <2>3. entry[w] = NoEntry /\ entry[w] \in Entries \union {NoEntry}
    BY <1>1, <2>2 DEF WorkerTypes
  <2>4. Taken \in 0..Capacity
    BY <1>3, PlacesFinite DEF Inductive, SeatsAreShared
  <2>5. p \in {"idle", "promote"} /\ (Taken = 0 <=> p = "idle")
    BY <2>1, <2>4
  <2>6. QED  BY <1>1, <2>2, <2>3, <2>4, <2>5, OneWorkerMoves
<1>7. ASSUME NEW w \in Workers, CallbackDone(w), pc[w] # "idle" PROVE Kept
  <2>1. PICK p : p = IF pending[w] > 1 THEN "promote" ELSE "idle"
    OBVIOUS
  <2>2. PICK n : n = pending[w] - 1
    OBVIOUS
  <2>3. pc' = [pc EXCEPT ![w] = p] /\ entry' = [entry EXCEPT ![w] = NoEntry]
        /\ pending' = [pending EXCEPT ![w] = n]
    BY <1>7, <2>1, <2>2 DEF CallbackDone
  <2>4. pending[w] \in 0..Capacity /\ pending[w] # 0
    BY <1>1, <1>7 DEF WorkerTypes
  <2>5. n \in 0..Capacity /\ p \in {"idle", "promote"} /\ (n = 0 <=> p = "idle")
    BY <1>3, <2>1, <2>2, <2>4
  <2>6. QED  BY <1>1, <2>3, <2>5, OneWorkerMoves
<1>8. ASSUME NEW w \in Workers, ReadFirst(w) PROVE Kept
  <2>1. PICK e \in queue : entry' = [entry EXCEPT ![w] = e]
    BY <1>8 DEF ReadFirst
  <2>2. pc' = [pc EXCEPT ![w] = "read"] /\ pending' = [pending EXCEPT ![w] = pending[w]]
        /\ pc[w] = "promote"
    BY <1>2, <1>8 DEF ReadFirst
  <2>3. e \in Entries /\ e # NoEntry
    BY <1>3
  <2>4. pending[w] \in 0..Capacity /\ pending[w] # 0
    BY <1>1, <2>2 DEF WorkerTypes
  <2>5. QED  BY <1>1, <2>1, <2>2, <2>3, <2>4, OneWorkerMoves
<1>9. ASSUME NEW w \in Workers, NEW p \in {"loaded", "settled"}, pc[w] \in {"read", "loaded"},
             pc' = [pc EXCEPT ![w] = p], UNCHANGED <<entry, pending>>
      PROVE  Kept
  <2>1. entry' = [entry EXCEPT ![w] = entry[w]] /\ pending' = [pending EXCEPT ![w] = pending[w]]
    BY <1>2, <1>9
  <2>2. entry[w] \in Entries \union {NoEntry} /\ entry[w] # NoEntry
        /\ pending[w] \in 0..Capacity /\ pending[w] # 0
    BY <1>1, <1>9 DEF WorkerTypes
  <2>3. QED  BY <1>1, <1>9, <2>1, <2>2, OneWorkerMoves
<1>10. ASSUME NEW w \in Workers, Die(w) PROVE Kept
  <2>1. pc' = [pc EXCEPT ![w] = "idle"] /\ entry' = [entry EXCEPT ![w] = NoEntry]
        /\ pending' = [pending EXCEPT ![w] = 0] /\ 0 \in 0..Capacity
    BY <1>3, <1>10 DEF Die
  <2>2. QED  BY <1>1, <2>1, OneWorkerMoves
<1>11. ASSUME NEW w \in Workers, Promote(w) PROVE Kept
  <2>1. CASE ReadFirst(w)
    BY <1>8, <2>1
  <2>2. CASE NobodyWaits(w) \/ DeleteEntry(w)
    BY <1>7, <2>2 DEF NobodyWaits, DeleteEntry
  <2>3. CASE LoadSession(w)
    BY <1>9, <2>3 DEF LoadSession
  <2>4. CASE LoadClosedSession(w) \/ RefuseEntry(w)
    BY <1>9, <2>4 DEF LoadClosedSession, RefuseEntry, Refused
  <2>5. CASE BookEntry(w)
    BY <1>9, <2>5 DEF BookEntry
  <2>6. QED  BY <1>11, <2>1, <2>2, <2>3, <2>4, <2>5 DEF Promote
<1>12. ASSUME NEW s \in Students, AskSession(s) \/ BookDirectly(s) \/ RefuseDirectly(s) \/ Join(s)
       PROVE  UNCHANGED <<pc, entry, pending>>
  BY <1>12 DEF AskSession, BookDirectly, RefuseDirectly, Join
<1>13. CASE UNCHANGED vars
  BY <1>4, <1>13 DEF vars
<1>14. QED
  BY <1>4, <1>5, <1>6, <1>10, <1>11, <1>12, <1>13 DEF Next

\* Notices stay, and the queue loses a row only with a notice about it.
LEMMA NoticesGrow ==
  ASSUME Inductive, [Next]_vars
  PROVE  /\ told \subseteq told'
         /\ told' \subseteq (1..MaxEntries) \X Events
         /\ \A e \in queue \ queue' : \E event \in Events : <<e.id, event>> \in told'
<1> DEFINE Told == /\ told \subseteq told'
                   /\ told' \subseteq (1..MaxEntries) \X Events
                   /\ \A e \in queue \ queue' : \E event \in Events : <<e.id, event>> \in told'
<1> USE DEF Inductive, Events
<1>1. told \subseteq (1..MaxEntries) \X Events /\ queue \subseteq Entries
  BY DEF TypeOK
<1>2. ASSUME UNCHANGED told, queue \subseteq queue' PROVE Told
  BY <1>1, <1>2
<1>3. ASSUME NEW w \in Workers, pc[w] \in {"read", "loaded"}, NEW event \in Events,
             told' = told \union {<<entry[w].id, event>>}, UNCHANGED queue
      PROVE  Told
  <2>1. entry[w].id \in 1..MaxEntries
    BY <1>3 DEF TypeOK, Entries
  <2>2. QED  BY <1>1, <1>3, <2>1
<1>4. ASSUME NEW w \in Workers, Promote(w) PROVE Told
  <2>1. CASE ReadFirst(w) \/ NobodyWaits(w) \/ LoadSession(w)
    BY <1>2, <2>1 DEF ReadFirst, NobodyWaits, LoadSession
  <2>2. CASE LoadClosedSession(w) \/ RefuseEntry(w)
    BY <1>3, <2>2 DEF LoadClosedSession, RefuseEntry, Refused
  <2>3. CASE BookEntry(w)
    BY <1>3, <2>3 DEF BookEntry
  <2>4. CASE DeleteEntry(w)
    <3>1. told' = told /\ queue' = queue \ {entry[w]}
      BY <2>4 DEF DeleteEntry
    <3>2. \E event \in Events : <<entry[w].id, event>> \in told
      BY <2>4 DEF DeleteEntry, SettledIsTold
    <3>3. QED  BY <1>1, <3>1, <3>2
  <2>5. QED  BY <1>4, <2>1, <2>2, <2>3, <2>4 DEF Promote
<1>5. ASSUME NEW w \in Workers, CancelSession(w) PROVE Told
  <2>1. told' = told \union {<<e.id, "session_cancelled">> : e \in queue}
    BY <1>5 DEF CancelSession, DropSessionWaitlist
  <2>2. \A e \in queue : e.id \in 1..MaxEntries
    BY <1>1 DEF Entries
  <2>3. QED  BY <1>1, <2>1, <2>2
<1>6. ASSUME NEW w \in Workers, Die(w) PROVE Told
  BY <1>2, <1>6 DEF Die
<1>7. ASSUME NEW w \in Workers, NEW s \in Students, Cancel(w, s) PROVE Told
  BY <1>2, <1>7 DEF Cancel
<1>8. ASSUME NEW s \in Students, AskSession(s) \/ BookDirectly(s) \/ RefuseDirectly(s) \/ Join(s)
      PROVE  Told
  BY <1>2, <1>8 DEF AskSession, BookDirectly, RefuseDirectly, Join
<1>9. CASE UNCHANGED vars
  BY <1>2, <1>9 DEF vars
<1>10. QED
  BY <1>4, <1>5, <1>6, <1>7, <1>8, <1>9 DEF Next


\* A row is settled by a step that told its student.
LEMMA SettledKept ==
  ASSUME Inductive, [Next]_vars
  PROVE  SettledIsTold'
<1> SUFFICES ASSUME NEW v \in Workers, pc'[v] = "settled"
             PROVE  \E event \in Events : <<entry'[v].id, event>> \in told'
  BY DEF SettledIsTold, Events
<1>1. Functions
  BY DEF Inductive, TypeOK, Functions
<1>2. CASE pc[v] = "settled" /\ entry'[v] = entry[v]
  BY <1>2, NoticesGrow DEF Inductive, SettledIsTold, Events
<1>3. CASE UNCHANGED <<pc, entry>>
  BY <1>2, <1>3
<1>4. ASSUME NEW w \in Workers, LoadClosedSession(w) \/ RefuseEntry(w) \/ BookEntry(w)
      PROVE  \E event \in Events : <<entry'[v].id, event>> \in told'
  <2>1. entry' = entry /\ pc' = [pc EXCEPT ![w] = "settled"]
        /\ \E event \in Events : <<entry[w].id, event>> \in told'
    BY <1>4 DEF LoadClosedSession, RefuseEntry, Refused, BookEntry, Events
  <2>2. CASE v = w
    BY <2>1, <2>2
  <2>3. CASE v # w
    BY <1>1, <1>2, <2>1, <2>3 DEF Functions
  <2>4. QED  BY <2>2, <2>3
<1>5. ASSUME NEW w \in Workers,
             \/ \E s \in Students : Cancel(w, s)
             \/ CancelSession(w) \/ ReadFirst(w) \/ LoadSession(w) \/ Die(w)
             \/ CallbackDone(w)
      PROVE  pc[v] = "settled" /\ entry'[v] = entry[v]
  <2>1. \E p \in {"idle", "promote", "read", "loaded"} : pc' = [pc EXCEPT ![w] = p]
    BY <1>5 DEF Cancel, CancelSession, ReadFirst, LoadSession, Die, CallbackDone
  <2>2. \E e : entry' = [entry EXCEPT ![w] = e]
    <3>1. entry = [entry EXCEPT ![w] = entry[w]]
      BY <1>1 DEF Functions
    <3>2. QED  BY <1>5, <3>1 DEF Cancel, CancelSession, ReadFirst, LoadSession, Die, CallbackDone
  <2>3. v # w
    BY <1>1, <2>1 DEF Functions
  <2>4. QED  BY <1>1, <2>1, <2>2, <2>3 DEF Functions
<1>6. ASSUME NEW s \in Students, AskSession(s) \/ BookDirectly(s) \/ RefuseDirectly(s) \/ Join(s)
      PROVE  UNCHANGED <<pc, entry>>
  BY <1>6 DEF AskSession, BookDirectly, RefuseDirectly, Join
<1>7. CASE UNCHANGED vars
  BY <1>3, <1>7 DEF vars
<1>8. ASSUME NEW w \in Workers, NobodyWaits(w) \/ DeleteEntry(w) PROVE CallbackDone(w)
  BY <1>8 DEF NobodyWaits, DeleteEntry
<1>9. QED
  BY <1>2, <1>3, <1>4, <1>5, <1>6, <1>7, <1>8 DEF Next, Promote

\* The remaining variables.
LEMMA SessionKept ==
  ASSUME Inductive, [Next]_vars
  PROVE  sessionStatus' \in {"OPEN", "CANCELLED"} /\ asked' \subseteq Students
<1> USE DEF Inductive, TypeOK
<1>1. ASSUME NEW s \in Students, AskSession(s) \/ BookDirectly(s) \/ RefuseDirectly(s) \/ Join(s)
      PROVE  sessionStatus' \in {"OPEN", "CANCELLED"} /\ asked' \subseteq Students
  BY <1>1 DEF AskSession, BookDirectly, RefuseDirectly, Join
<1>2. ASSUME NEW w \in Workers, NEW s \in Students, Cancel(w, s)
      PROVE  sessionStatus' \in {"OPEN", "CANCELLED"} /\ asked' \subseteq Students
  BY <1>2 DEF Cancel
<1>3. ASSUME NEW w \in Workers, CancelSession(w) \/ Promote(w) \/ Die(w)
      PROVE  sessionStatus' \in {"OPEN", "CANCELLED"} /\ asked' \subseteq Students
  BY <1>3 DEF CancelSession, Promote, ReadFirst, NobodyWaits, LoadSession,
              LoadClosedSession, BookEntry, RefuseEntry, Refused, DeleteEntry, Die
<1>4. CASE UNCHANGED vars
  BY <1>4 DEF vars
<1>5. QED  BY <1>1, <1>2, <1>3, <1>4 DEF Next

-----------------------------------------------------------------------------
(* Theorems *)

\* Every step keeps the invariant.
LEMMA InductiveNext == Inductive /\ [Next]_vars => Inductive'
<1> SUFFICES ASSUME Inductive, [Next]_vars PROVE Inductive'
  OBVIOUS
<1>1. TypeOK'
  <2>1. Functions' /\ \A v \in Workers : WorkerTypes(v)'
    BY WorkersKept
  <2>2. QueueTypes'
    BY QueueKept
  <2>3. active' \in [Students -> 0..Capacity]
    BY SeatsKept
  <2>4. told' \subseteq (1..MaxEntries) \X Events
    BY NoticesGrow
  <2>5. QED
    BY <2>1, <2>2, <2>3, <2>4, SessionKept DEF TypeOK, Functions, WorkerTypes, QueueTypes, Events
<1>2. QED  BY <1>1, SeatsKept, QueueKept, PlacesInQueueKept, SettledKept DEF Inductive

\* Whatever crosses, rows keep their numbers and places and every row that a worker is about
\* to delete has its notice.
THEOREM QueueIsSound == Spec => []Inductive
<1>1. QED  BY InductiveInit, InductiveNext, PTL DEF Spec

\* The variables keep their types, and a worker has a row in hand exactly while it should.
THEOREM WaitlistTypes == Spec => []TypeOK
<1>1. Inductive => TypeOK
  BY DEF Inductive
<1>2. QED  BY <1>1, QueueIsSound, PTL

\* Positions repeat and the order of joining is lost, but no row ever has more rows up to
\* it than its position says, however rows leave, join and are deleted twice.
THEOREM PlacesInQueueHold == Spec => []NeverFurtherBack
<1>1. Inductive => NeverFurtherBack
  BY DEF Inductive
<1>2. QED  BY <1>1, QueueIsSound, PTL

\* Nobody is taken from the queue without a notice about it, even if a worker dies.
THEOREM EveryoneIsTold == Spec => NobodyLeavesSilently
<1>1. ASSUME Inductive, [Next]_vars
      PROVE  [\A e \in queue \ queue' : \E event \in {"booked", "dropped", "session_cancelled"} :
                <<e.id, event>> \in told']_vars
  BY <1>1, NoticesGrow DEF Events
<1>2. QED  BY <1>1, QueueIsSound, PTL DEF Spec, NobodyLeavesSilently

-----------------------------------------------------------------------------
(* Progress: what EveryPromotionEnds rests on *)

\* The statements of its promotion that a worker has behind it, and those that all the
\* promotions of its commit have ahead at most.
Behind(w) ==
  CASE pc[w] = "read"    -> 1
    [] pc[w] = "loaded"  -> 2
    [] pc[w] = "settled" -> 3
    [] OTHER             -> 0

Ahead(w) == 4 * pending[w] - Behind(w)

\* A worker is idle when it has nothing ahead, never has more ahead than four statements
\* for each seat, and finds a first row in a queue that is not empty.
PromotionsAreBounded ==
  /\ \A w \in Workers : Ahead(w) \in 0..4 * Capacity /\ (Ahead(w) = 0 <=> pc[w] = "idle")
  /\ queue # {} => \E e \in queue : \A f \in queue : e.position <= f.position

\* Each statement of a promotion brings the worker nearer to its end, and what others do
\* leaves the worker where it is: no other promotion, join or cancellation sends it back.
PromotionsAdvance ==
  [][\A w \in Workers :
       /\ Promote(w) => Ahead(w)' < Ahead(w)
       /\ pc[w] # "idle" =>
            \/ pc'[w] = pc[w] /\ entry'[w] = entry[w] /\ pending'[w] = pending[w]
            \/ Ahead(w)' < Ahead(w)]_vars

\* A set of numbers that is not empty has a least one.
LEMMA Smallest ==
  ASSUME NEW S, S \subseteq Nat, S # {}
  PROVE  \E m \in S : \A n \in S : m <= n
<1>1. PICK k \in S : TRUE
  OBVIOUS
<1> DEFINE T == S \intersect 0..k
           Below(n) == {u \in T : u < n}
           Bottoms == {Below(n) : n \in T}
<1>2. IsFiniteSet(T) /\ k \in T
  <2>1. IsFiniteSet(0..k)
    BY FS_Interval
  <2>2. QED  BY <1>1, <2>1, FS_Subset
<1>3. IsWellFoundedOn(StrictSubsetOrdering(T), SUBSET T)
  <2> HIDE DEF T
  <2>1. QED  BY <1>2, FS_StrictSubsetOrderingWellFounded, FS_FiniteSubsetsOfFinite
<1>4. Bottoms \subseteq SUBSET T /\ Bottoms # {}
  BY <1>2
<1>5. PICK x \in Bottoms : \A y \in Bottoms : <<y, x>> \notin StrictSubsetOrdering(T)
  <2> HIDE DEF Bottoms, T
  <2>1. QED  BY <1>3, <1>4, WFMin
<1>6. PICK m \in T : x = Below(m)
  BY <1>5
<1>7. ASSUME NEW n \in T, ~(m <= n) PROVE FALSE
  <2>1. n \in Nat /\ m \in Nat /\ n < m
    BY <1>7
  <2>2. ASSUME NEW u \in Below(n) PROVE u \in Below(m)
    <3>1. u \in T /\ u \in Nat /\ u < n
      OBVIOUS
    <3>2. u < m
      BY <2>1, <3>1
    <3>3. QED  BY <3>1, <3>2
  <2>3. n \in Below(m) /\ n \notin Below(n)
    BY <2>1
  <2>4. <<Below(n), Below(m)>> \in StrictSubsetOrdering(T)
    BY <2>2, <2>3 DEF StrictSubsetOrdering
  <2>5. QED  BY <1>5, <1>6, <2>4
<1>8. m \in S /\ m \in 0..k
  OBVIOUS
<1>9. ASSUME NEW n \in S PROVE m <= n
  BY <1>7, <1>8
<1>10. QED  BY <1>8, <1>9

\* first() finds a row.
LEMMA FirstRow ==
  ASSUME queue \subseteq Entries, queue # {}
  PROVE  \E e \in queue : \A f \in queue : e.position <= f.position
<1> DEFINE P == {e.position : e \in queue}
<1>1. P \subseteq Nat /\ P # {}
  BY WaitlistAssumption DEF Entries
<1> HIDE DEF P
<1>2. PICK m \in P : \A n \in P : m <= n
  BY <1>1, Smallest
<1>3. PICK e \in queue : m = e.position
  BY DEF P
<1>4. \A f \in queue : f.position \in P
  BY DEF P
<1>5. QED  BY <1>2, <1>3, <1>4

\* A worker has one to four statements ahead in each of its promotions.
LEMMA AheadRange ==
  ASSUME TypeOK, NEW w \in Workers
  PROVE  /\ Ahead(w) \in 0..4 * Capacity
         /\ Ahead(w) = 0 <=> pc[w] = "idle"
<1>1. /\ pending[w] \in 0..Capacity /\ Capacity \in Nat
      /\ pending[w] = 0 <=> pc[w] = "idle"
  BY WaitlistAssumption DEF TypeOK
<1>2. Behind(w) \in 0..3 /\ (pc[w] = "idle" => Behind(w) = 0)
  BY DEF Behind
<1>3. QED  BY <1>1, <1>2 DEF Ahead

\* There is no way back in a promotion.
LEMMA Advance ==
  ASSUME TypeOK, NEW w \in Workers, Promote(w)
  PROVE  Ahead(w)' < Ahead(w)
<1>1. /\ pending \in [Workers -> 0..Capacity] /\ Capacity \in Nat
      /\ pc \in [Workers -> {"idle", "promote", "read", "loaded", "settled"}]
  BY WaitlistAssumption DEF TypeOK
<1>2. ASSUME CallbackDone(w), pc[w] \in {"promote", "settled"} PROVE Ahead(w)' < Ahead(w)
  <2>1. pending'[w] = pending[w] - 1 /\ pc'[w] \in {"promote", "idle"}
    BY <1>1, <1>2 DEF CallbackDone
  <2>2. Behind(w) \in {0, 3} /\ Behind(w)' = 0
    BY <1>2, <2>1 DEF Behind
  <2>3. QED  BY <1>1, <2>1, <2>2 DEF Ahead
<1>3. ASSUME NEW p, pc' = [pc EXCEPT ![w] = p], UNCHANGED pending,
             \/ pc[w] = "promote" /\ p = "read"
             \/ pc[w] = "read" /\ p \in {"loaded", "settled"}
             \/ pc[w] = "loaded" /\ p = "settled"
      PROVE  Ahead(w)' < Ahead(w)
  <2>1. pc'[w] = p
    BY <1>1, <1>3
  <2>2. Behind(w) \in 0..3 /\ Behind(w)' \in 0..3 /\ Behind(w) < Behind(w)'
    BY <1>3, <2>1 DEF Behind
  <2>3. QED  BY <1>1, <1>3, <2>2 DEF Ahead
<1>4. CASE ReadFirst(w)
  BY <1>3, <1>4 DEF ReadFirst
<1>5. CASE NobodyWaits(w) \/ DeleteEntry(w)
  BY <1>2, <1>5 DEF NobodyWaits, DeleteEntry
<1>6. CASE LoadSession(w) \/ LoadClosedSession(w)
  BY <1>3, <1>6 DEF LoadSession, LoadClosedSession, Refused
<1>7. CASE BookEntry(w) \/ RefuseEntry(w)
  BY <1>3, <1>7 DEF BookEntry, RefuseEntry, Refused
<1>8. QED  BY <1>4, <1>5, <1>6, <1>7 DEF Promote

\* What others do leaves a worker where it is; its death ends it.
LEMMA NoWayBack ==
  ASSUME TypeOK, TypeOK', [Next]_vars, NEW w \in Workers, pc[w] # "idle"
  PROVE  \/ pc'[w] = pc[w] /\ entry'[w] = entry[w] /\ pending'[w] = pending[w]
         \/ Ahead(w)' < Ahead(w)
<1> DEFINE Stays == pc'[w] = pc[w] /\ entry'[w] = entry[w] /\ pending'[w] = pending[w]
<1>1. /\ Functions /\ Functions'
  BY DEF TypeOK, Functions
<1>2. ASSUME UNCHANGED <<pc, entry, pending>> PROVE Stays
  BY <1>2
<1>3. ASSUME NEW s \in Students, AskSession(s) \/ BookDirectly(s) \/ RefuseDirectly(s) \/ Join(s)
      PROVE  Stays
  BY <1>2, <1>3 DEF AskSession, BookDirectly, RefuseDirectly, Join
<1>4. ASSUME NEW v \in Workers, (\E s \in Students : Cancel(v, s)) \/ CancelSession(v)
      PROVE  Stays
  <2>1. v # w
    BY <1>4 DEF Cancel, CancelSession
  <2>2. QED  BY <1>1, <1>4, <2>1 DEF Cancel, CancelSession, Functions
<1>5. ASSUME NEW v \in Workers, v # w, Promote(v) \/ Die(v) PROVE Stays
  <2>1. \/ UNCHANGED entry
        \/ \E e : entry' = [entry EXCEPT ![v] = e]
    BY <1>5 DEF Promote, ReadFirst, NobodyWaits, LoadSession, LoadClosedSession, BookEntry,
                RefuseEntry, Refused, DeleteEntry, CallbackDone, Die
  <2>2. \/ UNCHANGED pending
        \/ \E n : pending' = [pending EXCEPT ![v] = n]
    BY <1>5 DEF Promote, ReadFirst, NobodyWaits, LoadSession, LoadClosedSession, BookEntry,
                RefuseEntry, Refused, DeleteEntry, CallbackDone, Die
  <2>3. \E p : pc' = [pc EXCEPT ![v] = p]
    BY <1>5 DEF Promote, ReadFirst, NobodyWaits, LoadSession, LoadClosedSession, BookEntry,
                RefuseEntry, Refused, DeleteEntry, CallbackDone, Die
  <2>4. QED  BY <1>1, <1>5, <2>1, <2>2, <2>3 DEF Functions
<1>6. CASE Promote(w)
  BY <1>6, Advance
<1>7. CASE Die(w)
  <2>1. pc'[w] = "idle"
    BY <1>1, <1>7 DEF Die, Functions
  <2>2. Ahead(w)' = 0 /\ Ahead(w) # 0 /\ Ahead(w) \in 0..4 * Capacity
    <3>1. Ahead(w)' = 0 <=> pc'[w] = "idle"
      <4>1. ASSUME TypeOK PROVE Ahead(w) = 0 <=> pc[w] = "idle"
        BY <4>1, AheadRange
      <4>2. pending'[w] = 0 /\ Behind(w)' = 0
        BY <1>1, <1>7, <2>1 DEF Die, Functions, Behind
      <4>3. QED  BY <2>1, <4>2 DEF Ahead
    <3>2. QED  BY <2>1, <3>1, AheadRange
  <2>3. Capacity \in Nat
    BY WaitlistAssumption
  <2>4. QED  BY <2>2, <2>3
<1>8. CASE UNCHANGED vars
  BY <1>2, <1>8 DEF vars
<1>9. QED  BY <1>3, <1>4, <1>5, <1>6, <1>7, <1>8 DEF Next

\* A worker that is not idle has a bounded number of statements ahead and finds the row
\* that it looks for.
THEOREM PromotionsEndInTime == Spec => []PromotionsAreBounded
<1>1. TypeOK => PromotionsAreBounded
  BY AheadRange, FirstRow DEF PromotionsAreBounded, TypeOK
<1>2. QED  BY <1>1, WaitlistTypes, PTL

\* Every statement of a promotion counts towards its end and nothing undoes it.
THEOREM PromotionsGoOn == Spec => PromotionsAdvance
<1>1. TypeOK /\ TypeOK' /\ [Next]_vars =>
        [\A w \in Workers :
           /\ Promote(w) => Ahead(w)' < Ahead(w)
           /\ pc[w] # "idle" =>
                \/ pc'[w] = pc[w] /\ entry'[w] = entry[w] /\ pending'[w] = pending[w]
                \/ Ahead(w)' < Ahead(w)]_vars
  BY Advance, NoWayBack
<1>2. QED  BY <1>1, WaitlistTypes, PTL DEF Spec, PromotionsAdvance

=============================================================================
