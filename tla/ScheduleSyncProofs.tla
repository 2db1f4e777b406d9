------------------------- MODULE ScheduleSyncProofs -------------------------
(***************************************************************************)
(* A cancelled session stays so whatever overlaps, and edits that do not   *)
(* overlap leave the sessions as the entries say: for any timetable, any   *)
(* forms and any number of workers and requests.                           *)
(***************************************************************************)
EXTENDS ScheduleSync, FiniteSetTheorems, SequenceTheorems, WellFoundedInduction, TLAPS

Rows == [day : Days, works : SUBSET Works, cap : Capacities, by : Workers \union {NoWorker}]
Wishes == [day : Days, works : SUBSET Works, cap : Capacities]
Kinds == {"none", "create", "copy", "update", "delete", "room", "work", "command"}
Jobs == [kind : Kinds, entry : Entries \union {0}, data : Wishes \union {NoEntry},
         oldDay : Days \union {0}, forced : BOOLEAN]
Tasks == [op : {"sync", "generate", "capacity", "close"}, day : Days \union {0}, works : SUBSET Works]
Loads == [cap : [Slots -> Capacities \union {0}], work : [Works -> Capacities \union {0}]]

Filling == {"clear", "select", "pick", "saved"}
Editing == Filling \union {"copy", "save", "delete"}
Looping == {"match", "cancel", "store"}

Points == {"idle", "copy", "save", "clear", "select", "pick", "saved", "delete", "busy", "insert",
           "match", "cancel", "store"}
Plans == [Slots -> Capacities \union {0}]
SessionRows == [status : {"NONE", "OPEN", "CANCELLED"}, cap : Capacities \union {0}]

\* The types of the tables and of the history
TableTypes ==
  /\ entry \in [Entries -> {NoEntry} \union Rows] /\ lastPk \in Nat
  /\ session \in [Slots -> SessionRows]
  /\ \A s \in Slots : session[s].status = "NONE" <=> session[s].cap = 0
  /\ booked \subseteq Slots /\ blocked \in BOOLEAN
  /\ workCap \in [Works -> Capacities] /\ near \subseteq Slots
  /\ served \in 0..MaxRequests /\ calm \in BOOLEAN

\* The types of what the workers keep
WorkTypes ==
  /\ pc \in [Workers -> Points] /\ job \in [Workers -> Jobs]
  /\ agenda \in [Workers -> Seq(Tasks)] /\ batch \in [Workers -> SUBSET Slots]
  /\ loaded \in [Workers -> Loads] /\ plan \in [Workers -> Plans]

\* Primary keys are given in order.
KeysAreNumbered ==
  /\ \A e \in Entries : entry[e] # NoEntry => e <= lastPk
  /\ \A w \in Workers : job[w].entry <= lastPk

\* What a request knows at each point
Informed(w) ==
  /\ pc[w] = "idle" => job[w] = NoJob
  /\ pc[w] # "idle" => job[w].kind # "none"
  /\ pc[w] \in Editing \ {"copy"} => job[w].entry \in Entries
  /\ pc[w] \in Editing \ {"delete"} => job[w].data \in Wishes
  /\ pc[w] \in Editing => job[w].oldDay \in Days
  /\ pc[w] \in Editing \union {"idle"} => agenda[w] = <<>>
  /\ pc[w] \in Looping \union {"insert"} => agenda[w] # <<>>
  /\ pc[w] = "insert" => Head(agenda[w]).op = "generate"
  /\ pc[w] \in {"match", "store"} => Head(agenda[w]).op \in {"sync", "capacity"}
  /\ pc[w] = "cancel" => Head(agenda[w]).op \in {"sync", "close"}
  /\ pc[w] \in Looping => loaded[w].work \in [Works -> Capacities]
  /\ pc[w] = "store" => batch[w] # {} /\ loaded[w].cap[First(batch[w])] \in Capacities

\* n seats are those of an entry that covers s, and of its lab work
Fits(s, n) ==
  \E e \in Matching(s) :
    /\ n \in {entry[e].cap, workCap[WorkOf[s]]}
    /\ n <= entry[e].cap /\ n <= workCap[WorkOf[s]]

\* A task will look at session s.
Covers(task, s) ==
  \/ task.op = "sync" /\ task.day = DayOf[s]
  \/ task.op = "capacity" /\ WorkOf[s] \in task.works /\ Matching(s) # {}

\* The days whose entries worker w is editing
Touched(w) ==
  {d \in Days :
     \/ pc[w] \in Editing /\ d = job[w].oldDay
     \/ pc[w] \in {"save"} \union Filling /\ d = job[w].data.day}

\* Worker w has still to look at session s.
Attends(w, s) ==
  \/ DayOf[s] \in Touched(w)
  \/ \E i \in 1..Len(agenda[w]) :
       /\ Covers(agenda[w][i], s)
       /\ i > 1 \/ pc[w] \in {"busy", "insert"} \/ s \in batch[w]

Closes(w) ==
  /\ pc[w] \in {"busy", "cancel"} /\ agenda[w] # <<>> /\ Head(agenda[w]).op = "close"
  /\ pc[w] = "cancel" => Live \subseteq batch[w]

\* What a request read is still so when no other came between.
Current(w) ==
  /\ pc[w] \in {"save", "delete"} =>
       entry[job[w].entry] # NoEntry /\ entry[job[w].entry].day = job[w].oldDay
  /\ pc[w] \in Filling => entry[job[w].entry] # NoEntry /\ entry[job[w].entry].day = job[w].data.day
  /\ pc[w] \in Editing /\ job[w].kind \in {"create", "copy"} => job[w].oldDay = job[w].data.day
  /\ pc[w] = "insert" => \A s \in Slots : plan[w][s] > 0 => ~blocked /\ Fits(s, plan[w][s])
  /\ pc[w] \in Looping => loaded[w].work = workCap
  /\ pc[w] \in Looping =>
       \A s \in batch[w] : loaded[w].cap[s] = session[s].cap \/ (pc[w] = "store" /\ s = First(batch[w]))
  /\ pc[w] = "store" => Fits(First(batch[w]), loaded[w].cap[First(batch[w])])

\* All is right when w is the only one at work.
Tidy(w) ==
  /\ Current(w)
  /\ \A s \in Live : Fits(s, session[s].cap) \/ Attends(w, s)
  /\ blocked /\ Live # {} => Closes(w)

Alone == \A v, w \in Workers : pc[v] # "idle" /\ pc[w] # "idle" => v = w

InOrder ==
  calm =>
    /\ Alone
    /\ \A w \in Workers : Current(w)
    /\ \A s \in Live : Fits(s, session[s].cap) \/ \E w \in Workers : Attends(w, s)
    /\ blocked /\ Live # {} => \E w \in Workers : Closes(w)

\* What was listed has been generated.
BatchesExist == \A w \in Workers : \A s \in batch[w] : session[s].status # "NONE"

Sound ==
  TableTypes /\ WorkTypes /\ KeysAreNumbered /\ BatchesExist /\ \A w \in Workers : Informed(w)

Inductive == Sound /\ InOrder

-----------------------------------------------------------------------------
(* Helpers *)

\* The first of some numbers is one of them.
LEMMA Least ==
  ASSUME NEW S, S \subseteq Nat, IsFiniteSet(S), S # {}
  PROVE  First(S) \in S
<1> DEFINE Below(n) == {u \in S : u < n}
           Bottoms == {Below(n) : n \in S}
<1>1. IsWellFoundedOn(StrictSubsetOrdering(S), SUBSET S)
  BY FS_StrictSubsetOrderingWellFounded, FS_FiniteSubsetsOfFinite
<1>2. Bottoms \subseteq SUBSET S /\ Bottoms # {}
  OBVIOUS
<1>3. PICK x \in Bottoms : \A y \in Bottoms : <<y, x>> \notin StrictSubsetOrdering(S)
  <2> HIDE DEF Bottoms
  <2>1. QED  BY <1>1, <1>2, WFMin
<1>4. PICK m \in S : x = Below(m)
  BY <1>3
<1>5. ASSUME NEW n \in S, ~(m <= n) PROVE FALSE
  <2>1. n \in Nat /\ m \in Nat /\ n < m
    BY <1>5
  <2>2. ASSUME NEW u \in Below(n) PROVE u \in Below(m)
    <3>1. u \in S /\ u \in Nat /\ u < n
      OBVIOUS
    <3>2. u < m
      BY <2>1, <3>1
    <3>3. QED  BY <3>1, <3>2
  <2>3. n \in Below(m) /\ n \notin Below(n)
    BY <2>1
  <2>4. <<Below(n), Below(m)>> \in StrictSubsetOrdering(S)
    BY <2>2, <2>3 DEF StrictSubsetOrdering
  <2>5. QED  BY <1>3, <1>4, <2>4
<1>6. \E m1 \in S : \A n \in S : m1 <= n
  BY <1>5
<1>7. QED  BY <1>6 DEF First

\* The first session of a batch and the first entry of a session
LEMMA Firsts ==
  /\ \A S \in (SUBSET Slots) \ {{}} : First(S) \in S
  /\ \A s \in Slots : Matching(s) # {} => First(Matching(s)) \in Matching(s)
<1>1. ASSUME NEW S \in (SUBSET Slots) \ {{}} PROVE First(S) \in S
  <2>1. S \subseteq Nat /\ IsFiniteSet(S)
    BY ScheduleAssumption, FS_Subset
  <2>2. QED  BY <1>1, <2>1, Least
<1>2. ASSUME NEW s \in Slots, Matching(s) # {} PROVE First(Matching(s)) \in Matching(s)
  <2>1. Matching(s) \subseteq Entries
    BY DEF Matching
  <2>2. Matching(s) \subseteq Nat /\ IsFiniteSet(Matching(s))
    BY <2>1, ScheduleAssumption, FS_Subset
  <2>3. QED  BY <1>2, <2>2, Least
<1>3. QED  BY <1>1, <1>2

\* A row is no absent entry.
LEMMA RowsExist ==
  /\ NoEntry \notin Rows
  /\ \A f \in Forms : f \in Wishes
  /\ \A x \in Wishes, W \in SUBSET Works, v \in Workers \union {NoWorker} :
       Row(x.day, W, x.cap, v) \in Rows
<1>1. NoEntry \notin Rows
  BY ScheduleAssumption DEF Rows
<1>2. \A f \in Forms : f \in Wishes
  BY ScheduleAssumption DEF Wishes
<1>3. \A x \in Wishes, W \in SUBSET Works, v \in Workers \union {NoWorker} :
        Row(x.day, W, x.cap, v) \in Rows
  BY DEF Wishes, Rows, Row
<1>4. QED  BY <1>1, <1>2, <1>3

\* The seats of a session that an entry gives it
LEMMA Generated ==
  ASSUME TableTypes, NEW s \in Slots, NEW e \in Matching(s),
         NEW n \in Capacities
  PROVE  /\ GeneratedCapacity(e, n) \in Capacities
         /\ n = workCap[WorkOf[s]] => Fits(s, GeneratedCapacity(e, n))
<1>1. e \in Entries /\ entry[e] \in Rows
  BY DEF TableTypes, Matching
<1>2. entry[e].cap \in Capacities /\ Capacities \subseteq Nat
  BY <1>1, ScheduleAssumption DEF Rows
<1>3. entry[e].cap \in Nat /\ n \in Nat
  BY <1>2
<1>4. QED  BY <1>2, <1>3 DEF GeneratedCapacity, Fits

-----------------------------------------------------------------------------
(* Workers *)

\* No worker but w has moved.
OthersStand(w) ==
  \A v \in Workers \ {w} :
    /\ pc'[v] = pc[v] /\ job'[v] = job[v] /\ agenda'[v] = agenda[v]
    /\ batch'[v] = batch[v] /\ loaded'[v] = loaded[v] /\ plan'[v] = plan[v]

\* The functions of the workers, changed at one of them
LEMMA OneMoves ==
  ASSUME WorkTypes, NEW w \in Workers,
         NEW p \in Points, NEW j \in Jobs, NEW a \in Seq(Tasks), NEW b \in SUBSET Slots,
         NEW l \in Loads, NEW n \in Plans,
         pc' = [pc EXCEPT ![w] = p], job' = [job EXCEPT ![w] = j],
         agenda' = [agenda EXCEPT ![w] = a], batch' = [batch EXCEPT ![w] = b],
         loaded' = [loaded EXCEPT ![w] = l], plan' = [plan EXCEPT ![w] = n]
  PROVE  /\ WorkTypes' /\ OthersStand(w)
         /\ pc'[w] = p /\ job'[w] = j /\ agenda'[w] = a
         /\ batch'[w] = b /\ loaded'[w] = l /\ plan'[w] = n
  BY DEF WorkTypes, OthersStand

\* What a worker leaves alone
LEMMA Leaves ==
  ASSUME WorkTypes, NEW w \in Workers
  PROVE  /\ pc = [pc EXCEPT ![w] = pc[w]] /\ job = [job EXCEPT ![w] = job[w]]
         /\ agenda = [agenda EXCEPT ![w] = agenda[w]] /\ batch = [batch EXCEPT ![w] = batch[w]]
         /\ loaded = [loaded EXCEPT ![w] = loaded[w]] /\ plan = [plan EXCEPT ![w] = plan[w]]
         /\ pc[w] \in Points /\ job[w] \in Jobs /\ agenda[w] \in Seq(Tasks)
         /\ batch[w] \in SUBSET Slots /\ loaded[w] \in Loads /\ plan[w] \in Plans
  BY DEF WorkTypes

\* The values of a worker with nothing to do
LEMMA Idleness ==
  /\ NoJob \in Jobs /\ NoLoad \in Loads /\ NoLoad.cap \in Plans /\ <<>> \in Seq(Tasks)
  /\ "idle" \in Points
  BY DEF NoJob, Jobs, Kinds, NoLoad, Loads, Plans, Points

\* A request that fails leaves its worker idle.
LEMMA FailStands ==
  ASSUME WorkTypes, NEW w \in Workers, Fail(w)
  PROVE  WorkTypes' /\ OthersStand(w) /\ Informed(w)' /\ pc'[w] = "idle" /\ calm' = FALSE
<1>1. WorkTypes' /\ OthersStand(w) /\ pc'[w] = "idle" /\ job'[w] = NoJob /\ agenda'[w] = <<>>
      /\ batch'[w] = {}
  <2> USE Idleness
  <2>1. pc' = [pc EXCEPT ![w] = "idle"] /\ job' = [job EXCEPT ![w] = NoJob]
        /\ agenda' = [agenda EXCEPT ![w] = <<>>] /\ batch' = [batch EXCEPT ![w] = {}]
        /\ loaded' = [loaded EXCEPT ![w] = NoLoad] /\ plan' = [plan EXCEPT ![w] = NoLoad.cap]
    BY DEF Fail
  <2>2. {} \in SUBSET Slots
    OBVIOUS
  <2>3. QED  BY <2>1, <2>2, OneMoves
<1>2. Informed(w)'
  BY <1>1 DEF Informed, Editing, Filling, Looping
<1>3. QED  BY <1>1, <1>2 DEF Fail

\* A request that begins
LEMMA BeginStands ==
  ASSUME WorkTypes, NEW w \in Workers, Informed(w), pc[w] = "idle",
         NEW j \in Jobs, NEW p \in Points, NEW a \in Seq(Tasks),
         pc' = [pc EXCEPT ![w] = p], job' = [job EXCEPT ![w] = j],
         agenda' = [agenda EXCEPT ![w] = a], UNCHANGED <<batch, loaded, plan>>
  PROVE  /\ WorkTypes' /\ OthersStand(w)
         /\ pc'[w] = p /\ job'[w] = j /\ agenda'[w] = a /\ batch'[w] = batch[w]
<1>1. batch' = batch /\ loaded' = loaded /\ plan' = plan
  OBVIOUS
<1>2. PICK b \in SUBSET Slots, l \in Loads, n \in Plans : b = batch[w] /\ l = loaded[w] /\ n = plan[w]
  BY Leaves
<1>3. batch' = [batch EXCEPT ![w] = b] /\ loaded' = [loaded EXCEPT ![w] = l]
      /\ plan' = [plan EXCEPT ![w] = n]
  BY <1>1, <1>2, Leaves
<1>4. WorkTypes' /\ OthersStand(w)
  BY <1>2, <1>3 DEF WorkTypes, OthersStand
<1>5. QED  BY <1>2, <1>3, <1>4 DEF WorkTypes

\* Tasks that make agendas, on no day and on some
LEMMA EmptyAgendas ==
  /\ <<Task("close", 0, {})>> \in Seq(Tasks)
  /\ \A W \in SUBSET Works :
       <<Task("generate", 0, W)>> \in Seq(Tasks) /\ <<Task("capacity", 0, W)>> \in Seq(Tasks)
<1>1. Task("close", 0, {}) \in Tasks
  BY DEF Task, Tasks
<1>2. \A W \in SUBSET Works : Task("generate", 0, W) \in Tasks /\ Task("capacity", 0, W) \in Tasks
  BY DEF Task, Tasks
<1>3. QED  BY <1>1, <1>2

\* Tasks of an edit
LEMMA Agendas ==
  ASSUME NEW d \in Days, NEW o \in Days, NEW W \in SUBSET Works
  PROVE  /\ <<Task("sync", d, {})>> \in Seq(Tasks)
         /\ <<Task("generate", 0, W), Task("sync", d, {})>> \in Seq(Tasks)
         /\ AfterEdit(o, d, W) \in Seq(Tasks)
<1>1. Task("sync", d, {}) \in Tasks /\ Task("sync", o, {}) \in Tasks
      /\ Task("generate", 0, W) \in Tasks /\ Task("generate", d, W) \in Tasks
  BY DEF Task, Tasks
<1>2. /\ <<Task("sync", d, {})>> \in Seq(Tasks)
      /\ <<Task("sync", o, {})>> \in Seq(Tasks)
      /\ <<Task("generate", d, W)>> \in Seq(Tasks)
      /\ <<>> \in Seq(Tasks)
  BY <1>1
<1>3. AfterEdit(o, d, W) \in Seq(Tasks)
  BY <1>2, ConcatProperties DEF AfterEdit
<1>4. QED  BY <1>1, <1>3

\* An idle worker that keeps its agenda keeps an empty one.
LEMMA KeepsAgenda ==
  ASSUME WorkTypes, NEW w \in Workers, Informed(w), pc[w] = "idle", UNCHANGED work
  PROVE  UNCHANGED <<batch, loaded, plan>> /\ agenda' = [agenda EXCEPT ![w] = <<>>]
<1>1. agenda' = agenda /\ batch' = batch /\ loaded' = loaded /\ plan' = plan
  BY DEF work
<1>2. agenda[w] = <<>>
  BY DEF Informed
<1>3. agenda = [agenda EXCEPT ![w] = <<>>]
  BY <1>2 DEF WorkTypes
<1>4. QED  BY <1>1, <1>3

\* The requests that begin leave the other workers alone and know what they do.
LEMMA RequestStands ==
  ASSUME Sound, NEW w \in Workers, Request(w)
  PROVE  WorkTypes' /\ OthersStand(w) /\ Informed(w)'
<1>t. WorkTypes /\ TableTypes /\ Informed(w)
  BY DEF Sound
<1>u. \A e \in Entries : entry[e] # NoEntry => entry[e] \in Rows
  BY <1>t DEF TableTypes
<1>e. <<>> \in Seq(Tasks) /\ Works \in SUBSET Works
  OBVIOUS
<1>k. /\ {"create", "copy", "update", "delete", "room", "work", "command"} \subseteq Kinds \ {"none"}
      /\ {"select", "save", "copy", "delete", "busy"} \subseteq Points
      /\ {TRUE, FALSE} = BOOLEAN /\ 0 \in Entries \union {0} /\ 0 \in Days \union {0}
      /\ NoEntry \in Wishes \union {NoEntry}
  BY DEF Kinds, Points
<1>1. CASE CreateEntry(w)
  <2>1. PICK data \in Forms :
          /\ lastPk + 1 \in Entries
          /\ Begin(w, "create", lastPk + 1, data, data.day, FALSE, "select")
          /\ UNCHANGED work
    BY <1>1 DEF CreateEntry
  <2>2. data \in Wishes /\ data.day \in Days
    BY RowsExist DEF Wishes
  <2>3. UNCHANGED <<batch, loaded, plan>> /\ agenda' = [agenda EXCEPT ![w] = <<>>]
    BY <1>t, <2>1, KeepsAgenda DEF Begin
  <2>a. PICK j : j = [kind |-> "create", entry |-> lastPk + 1, data |-> data, oldDay |-> data.day,
               forced |-> FALSE]
    OBVIOUS
  <2>b. j \in Jobs
    BY <2>a, <2>1, <2>2 DEF Jobs, Kinds
  <2>c. pc[w] = "idle" /\ pc' = [pc EXCEPT ![w] = "select"] /\ job' = [job EXCEPT ![w] = j]
    BY <2>1, <2>a DEF Begin
  <2>4. WorkTypes' /\ OthersStand(w) /\ pc'[w] = "select" /\ agenda'[w] = <<>> /\ job'[w] = j
    BY <1>t, <1>e, <1>k, <2>b, <2>c, <2>3, BeginStands
  <2>5. Informed(w)'
    BY <2>a, <2>1, <2>2, <2>4 DEF Informed, Editing, Filling, Looping
  <2>6. QED  BY <2>4, <2>5
<1>2. CASE LoadEntry(w)
  <2>1. PICK e \in Entries, data \in Forms :
          /\ entry[e] # NoEntry
          /\ Begin(w, "update", e, data, entry[e].day, FALSE, "save")
          /\ UNCHANGED work
    BY <1>2 DEF LoadEntry
  <2>2. data \in Wishes /\ entry[e].day \in Days
    BY <1>u, <2>1, RowsExist DEF Rows
  <2>3. UNCHANGED <<batch, loaded, plan>> /\ agenda' = [agenda EXCEPT ![w] = <<>>]
    BY <1>t, <2>1, KeepsAgenda DEF Begin
  <2>a. PICK j : j = [kind |-> "update", entry |-> e, data |-> data, oldDay |-> entry[e].day,
               forced |-> FALSE]
    OBVIOUS
  <2>b. j \in Jobs
    BY <2>a, <1>u, <2>1, <2>2 DEF Jobs, Kinds
  <2>c. pc[w] = "idle" /\ pc' = [pc EXCEPT ![w] = "save"] /\ job' = [job EXCEPT ![w] = j]
    BY <2>1, <2>a DEF Begin
  <2>4. WorkTypes' /\ OthersStand(w) /\ pc'[w] = "save" /\ agenda'[w] = <<>> /\ job'[w] = j
    BY <1>t, <1>e, <1>k, <2>b, <2>c, <2>3, BeginStands
  <2>5. Informed(w)'
    BY <2>a, <2>2, <2>4 DEF Informed, Editing, Filling, Looping
  <2>6. QED  BY <2>4, <2>5
<1>3. CASE ReadDays(w)
  <2>1. PICK e \in Entries, day \in Days :
          /\ entry[e] # NoEntry
          /\ Begin(w, "copy", 0, [day |-> day, works |-> entry[e].works, cap |-> entry[e].cap],
                   day, FALSE, "copy")
          /\ UNCHANGED work
    BY <1>3 DEF ReadDays
  <2>2. PICK data : data = [day |-> day, works |-> entry[e].works, cap |-> entry[e].cap]
    OBVIOUS
  <2>3. data \in Wishes
    BY <1>u, <2>1, <2>2 DEF Rows, Wishes
  <2>4. UNCHANGED <<batch, loaded, plan>> /\ agenda' = [agenda EXCEPT ![w] = <<>>]
    BY <1>t, <2>1, KeepsAgenda DEF Begin
  <2>a. PICK j : j = [kind |-> "copy", entry |-> 0, data |-> data, oldDay |-> day, forced |-> FALSE]
    OBVIOUS
  <2>b. j \in Jobs
    BY <2>a, <2>1, <2>2, <2>3 DEF Jobs, Kinds
  <2>c. pc[w] = "idle" /\ pc' = [pc EXCEPT ![w] = "copy"] /\ job' = [job EXCEPT ![w] = j]
    BY <2>1, <2>a, <2>2 DEF Begin
  <2>5. WorkTypes' /\ OthersStand(w) /\ pc'[w] = "copy" /\ agenda'[w] = <<>> /\ job'[w] = j
    BY <1>t, <1>e, <1>k, <2>b, <2>c, <2>4, BeginStands
  <2>6. Informed(w)'
    BY <2>a, <2>3, <2>5 DEF Informed, Editing, Filling, Looping
  <2>7. QED  BY <2>5, <2>6
<1>4. CASE CountConflicts(w)
  <2>1. PICK e \in Entries, forced \in BOOLEAN :
          /\ entry[e] # NoEntry
          /\ Begin(w, "delete", e, NoEntry, entry[e].day, forced, "delete")
          /\ UNCHANGED work
    BY <1>4 DEF CountConflicts
  <2>2. entry[e].day \in Days
    BY <1>u, <2>1 DEF Rows
  <2>3. UNCHANGED <<batch, loaded, plan>> /\ agenda' = [agenda EXCEPT ![w] = <<>>]
    BY <1>t, <2>1, KeepsAgenda DEF Begin
  <2>a. PICK j : j = [kind |-> "delete", entry |-> e, data |-> NoEntry, oldDay |-> entry[e].day,
               forced |-> forced]
    OBVIOUS
  <2>b. j \in Jobs
    BY <2>a, <2>1, <2>2 DEF Jobs, Kinds
  <2>c. pc[w] = "idle" /\ pc' = [pc EXCEPT ![w] = "delete"] /\ job' = [job EXCEPT ![w] = j]
    BY <2>1, <2>a DEF Begin
  <2>4. WorkTypes' /\ OthersStand(w) /\ pc'[w] = "delete" /\ agenda'[w] = <<>> /\ job'[w] = j
    BY <1>t, <1>e, <1>k, <2>b, <2>c, <2>3, BeginStands
  <2>5. Informed(w)'
    BY <2>a, <2>2, <2>4 DEF Informed, Editing, Filling, Looping
  <2>6. QED  BY <2>4, <2>5
<1>5. ASSUME NEW kind \in {"room", "work", "command"}, NEW a \in Seq(Tasks),
             Begin(w, kind, 0, NoEntry, 0, FALSE, "busy"),
             agenda' = [agenda EXCEPT ![w] = a], UNCHANGED <<batch, loaded, plan>>
      PROVE  WorkTypes' /\ OthersStand(w) /\ Informed(w)'
  <2>a. PICK j : j = [kind |-> kind, entry |-> 0, data |-> NoEntry, oldDay |-> 0, forced |-> FALSE]
    OBVIOUS
  <2>b. j \in Jobs /\ j.kind # "none"
    BY <2>a DEF Jobs, Kinds
  <2>c. pc[w] = "idle" /\ pc' = [pc EXCEPT ![w] = "busy"] /\ job' = [job EXCEPT ![w] = j]
    BY <1>5, <2>a DEF Begin
  <2>1. WorkTypes' /\ OthersStand(w) /\ pc'[w] = "busy" /\ job'[w] = j
    BY <1>t, <1>k, <1>5, <2>b, <2>c, BeginStands
  <2>2. Informed(w)'
    BY <2>b, <2>1 DEF Informed, Editing, Filling, Looping
  <2>3. QED  BY <2>1, <2>2
<1>6. CASE SetBlocked(w)
  <2>1. PICK a : a = <<IF blocked THEN Task("generate", 0, Works) ELSE Task("close", 0, {})>>
    OBVIOUS
  <2>2. a \in Seq(Tasks)
    BY <1>e, <2>1, EmptyAgendas
  <2>3. QED  BY <1>5, <1>6, <2>1, <2>2 DEF SetBlocked
<1>7. CASE SetWorkCapacity(w)
  <2>1. PICK x \in Works :
          /\ Begin(w, "work", 0, NoEntry, 0, FALSE, "busy")
          /\ agenda' = [agenda EXCEPT ![w] = <<Task("capacity", 0, {x})>>]
          /\ UNCHANGED <<batch, loaded, plan>>
    BY <1>7 DEF SetWorkCapacity
  <2>2. <<Task("capacity", 0, {x})>> \in Seq(Tasks)
    BY EmptyAgendas
  <2>3. QED  BY <1>5, <2>1, <2>2
<1>8. CASE RunCommand(w)
  <2>1. <<Task("generate", 0, Works)>> \in Seq(Tasks)
    BY <1>e, EmptyAgendas
  <2>2. QED  BY <1>5, <1>8, <2>1 DEF RunCommand
<1>9. QED  BY <1>1, <1>2, <1>3, <1>4, <1>6, <1>7, <1>8 DEF Request

\* A step that moves its worker to another point, and perhaps changes its agenda
LEMMA GotoStands ==
  ASSUME WorkTypes, NEW w \in Workers, NEW p \in Points, NEW a \in Seq(Tasks),
         pc' = [pc EXCEPT ![w] = p], agenda' = [agenda EXCEPT ![w] = a],
         UNCHANGED <<job, batch, loaded, plan>>
  PROVE  /\ WorkTypes' /\ OthersStand(w)
         /\ pc'[w] = p /\ agenda'[w] = a /\ job'[w] = job[w]
         /\ batch'[w] = batch[w] /\ loaded'[w] = loaded[w]
<1>1. job' = job /\ batch' = batch /\ loaded' = loaded /\ plan' = plan
  OBVIOUS
<1>2. WorkTypes' /\ OthersStand(w)
  BY <1>1 DEF WorkTypes, OthersStand
<1>3. QED  BY <1>1, <1>2 DEF WorkTypes

\* The rest of an agenda is an agenda.
LEMMA Rest ==
  ASSUME WorkTypes, NEW w \in Workers, agenda[w] # <<>>
  PROVE  Tail(agenda[w]) \in Seq(Tasks) /\ Head(agenda[w]) \in Tasks
<1>1. agenda[w] \in Seq(Tasks)
  BY DEF WorkTypes
<1>2. QED  BY <1>1, HeadTailProperties

\* The steps of edits leave the other workers alone and know what they do.
LEMMA EditStands ==
  ASSUME Sound, NEW w \in Workers,
         \/ SaveEntry(w) \/ ClearSelections(w) \/ AddSelection(w) \/ PickWorks(w)
         \/ RereadEntry(w) \/ ReadSelections(w) \/ CopyEntry(w) \/ CopyDone(w) \/ DeleteEntry(w)
  PROVE  WorkTypes' /\ OthersStand(w) /\ Informed(w)'
<1>t. WorkTypes /\ TableTypes /\ Informed(w)
  BY DEF Sound
<1>u. \A e \in Entries : entry[e] # NoEntry => entry[e] \in Rows
  BY <1>t DEF TableTypes
<1>p. Editing \subseteq Points /\ "busy" \in Points
  BY DEF Points, Editing, Filling
<1>a. agenda = [agenda EXCEPT ![w] = agenda[w]] /\ agenda[w] \in Seq(Tasks)
  BY <1>t, Leaves
<1>1. ASSUME NEW p \in Filling, pc[w] \in Editing \ {"copy", "delete"}, pc' = [pc EXCEPT ![w] = p],
             UNCHANGED <<job, work>>
      PROVE  WorkTypes' /\ OthersStand(w) /\ Informed(w)'
  <2>1. agenda' = agenda /\ UNCHANGED <<job, batch, loaded, plan>>
    BY <1>1 DEF work
  <2>2. p \in Points
    BY <1>p DEF Editing
  <2>3. /\ WorkTypes' /\ OthersStand(w) /\ pc'[w] = p /\ agenda'[w] = agenda[w]
        /\ job'[w] = job[w]
    BY <1>1, <1>t, <1>a, <2>1, <2>2, GotoStands
  <2>4. Informed(w)'
    BY <1>1, <1>t, <2>3 DEF Informed, Editing, Filling, Looping
  <2>5. QED  BY <2>3, <2>4
<1>2. CASE Fail(w)
  BY <1>2, <1>t, FailStands
<1>3. CASE SaveEntry(w)
  BY <1>1, <1>3 DEF SaveEntry, Goto, Editing, Filling
<1>4. CASE ClearSelections(w)
  BY <1>1, <1>4 DEF ClearSelections, Goto, Editing, Filling
<1>5. CASE AddSelection(w)
  <2>1. CASE entry[job[w].entry] = NoEntry \/ entry[job[w].entry].works # {}
    BY <1>2, <1>5, <2>1 DEF AddSelection
  <2>2. CASE ~(entry[job[w].entry] = NoEntry \/ entry[job[w].entry].works # {})
    BY <1>1, <1>5, <2>2 DEF AddSelection, Goto, Editing, Filling
  <2>3. QED  BY <2>1, <2>2
<1>6. CASE PickWorks(w)
  <2>1. CASE entry[job[w].entry] = NoEntry \/ entry[job[w].entry].by # w
    BY <1>2, <1>6, <2>1 DEF PickWorks
  <2>2. CASE ~(entry[job[w].entry] = NoEntry \/ entry[job[w].entry].by # w)
    BY <1>1, <1>6, <2>2 DEF PickWorks, Goto, Editing, Filling
  <2>3. QED  BY <2>1, <2>2
<1>7. ASSUME NEW a \in Seq(Tasks), pc[w] \in Editing, pc' = [pc EXCEPT ![w] = "busy"],
             agenda' = [agenda EXCEPT ![w] = a], UNCHANGED <<job, batch, loaded, plan>>
      PROVE  WorkTypes' /\ OthersStand(w) /\ Informed(w)'
  <2>1. /\ WorkTypes' /\ OthersStand(w) /\ pc'[w] = "busy" /\ agenda'[w] = a
        /\ job'[w] = job[w]
    BY <1>7, <1>t, <1>p, GotoStands
  <2>2. job[w].kind # "none"
    BY <1>t, <1>7 DEF Informed, Editing, Filling
  <2>3. Informed(w)'
    BY <2>1, <2>2 DEF Informed, Editing, Filling, Looping
  <2>4. QED  BY <2>1, <2>3
<1>8. CASE RereadEntry(w)
  <2>1. CASE entry[job[w].entry] = NoEntry
    BY <1>2, <1>8, <2>1 DEF RereadEntry
  <2>2. CASE entry[job[w].entry] # NoEntry
    <3>1. PICK a : a = AfterEdit(job[w].oldDay, entry[job[w].entry].day, entry[job[w].entry].works)
      OBVIOUS
    <3>2. pc[w] = "saved" /\ pc' = [pc EXCEPT ![w] = "busy"]
          /\ agenda' = [agenda EXCEPT ![w] = a] /\ UNCHANGED <<job, batch, loaded, plan>>
      BY <1>8, <2>2, <3>1 DEF RereadEntry, Goto
    <3>3. entry[job[w].entry] \in Rows /\ job[w].oldDay \in Days
      BY <1>t, <1>u, <2>2, <3>2 DEF Informed, Editing, Filling
    <3>4. a \in Seq(Tasks)
      BY <3>1, <3>3, Agendas DEF Rows
    <3>5. QED  BY <1>7, <3>2, <3>4 DEF Editing, Filling
  <2>3. QED  BY <2>1, <2>2
<1>9. CASE ReadSelections(w)
  <2>1. PICK W : W = IF entry[job[w].entry] = NoEntry THEN {} ELSE entry[job[w].entry].works
    OBVIOUS
  <2>2. PICK a : a = AfterEdit(job[w].oldDay, job[w].oldDay, W)
    OBVIOUS
  <2>3. pc[w] = "saved" /\ pc' = [pc EXCEPT ![w] = "busy"]
        /\ agenda' = [agenda EXCEPT ![w] = a] /\ UNCHANGED <<job, batch, loaded, plan>>
    BY <1>9, <2>1, <2>2 DEF ReadSelections, Goto
  <2>4. job[w].entry \in Entries /\ job[w].oldDay \in Days
    BY <1>t, <2>3 DEF Informed, Editing, Filling
  <2>5. W \in SUBSET Works
    BY <1>u, <2>1, <2>4 DEF Rows
  <2>6. a \in Seq(Tasks)
    BY <2>2, <2>4, <2>5, Agendas
  <2>7. QED  BY <1>7, <2>3, <2>6 DEF Editing, Filling
<1>10. CASE CopyDone(w)
  <2>1. PICK a : a = <<Task("generate", 0, Works), Task("sync", job[w].oldDay, {})>>
    OBVIOUS
  <2>2. pc[w] = "saved" /\ pc' = [pc EXCEPT ![w] = "busy"]
        /\ agenda' = [agenda EXCEPT ![w] = a] /\ UNCHANGED <<job, batch, loaded, plan>>
    BY <1>10, <2>1 DEF CopyDone, Goto
  <2>3. job[w].oldDay \in Days /\ Works \in SUBSET Works
    BY <1>t, <2>2 DEF Informed, Editing, Filling
  <2>4. a \in Seq(Tasks)
    BY <2>1, <2>3, Agendas
  <2>5. QED  BY <1>7, <2>2, <2>4 DEF Editing, Filling
<1>11. CASE DeleteEntry(w)
  <2>1. PICK a : a = <<Task("sync", job[w].oldDay, {})>>
    OBVIOUS
  <2>2. pc[w] = "delete" /\ pc' = [pc EXCEPT ![w] = "busy"]
        /\ agenda' = [agenda EXCEPT ![w] = a] /\ UNCHANGED <<job, batch, loaded, plan>>
    BY <1>11, <2>1 DEF DeleteEntry, Goto
  <2>3. job[w].oldDay \in Days /\ Works \in SUBSET Works
    BY <1>t, <2>2 DEF Informed, Editing, Filling
  <2>4. a \in Seq(Tasks)
    BY <2>1, <2>3, Agendas
  <2>5. QED  BY <1>7, <2>2, <2>4 DEF Editing, Filling
<1>12. CASE CopyEntry(w)
  <2>1. PICK j, p : /\ j = [job[w] EXCEPT !.entry = lastPk + 1]
                    /\ p = IF job[w].data.works = {} THEN "saved" ELSE "select"
    OBVIOUS
  <2>2. /\ pc[w] = "copy" /\ pc' = [pc EXCEPT ![w] = p] /\ lastPk + 1 \in Entries
        /\ UNCHANGED work
    BY <1>12, <2>1 DEF CopyEntry, Goto
  <2>3. job' = [job EXCEPT ![w] = j]
    BY <1>12, <1>t, <2>1 DEF CopyEntry, WorkTypes, Jobs
  <2>4. j \in Jobs /\ p \in {"saved", "select"} /\ j.entry \in Entries
        /\ j.kind = job[w].kind /\ j.data = job[w].data /\ j.oldDay = job[w].oldDay
    <3>1. job[w] \in Jobs
      BY <1>t DEF WorkTypes
    <3>2. QED  BY <2>1, <2>2, <3>1 DEF Jobs
  <2>5. WorkTypes' /\ OthersStand(w)
    BY <1>t, <1>p, <2>2, <2>3, <2>4 DEF WorkTypes, OthersStand, work, Editing, Filling
  <2>6. pc'[w] = p /\ job'[w] = j /\ agenda'[w] = agenda[w]
    BY <1>t, <2>2, <2>3 DEF WorkTypes, work
  <2>7. Informed(w)'
    BY <1>t, <2>2, <2>4, <2>6 DEF Informed, Editing, Filling, Looping
  <2>8. QED  BY <2>5, <2>7
<1>13. QED  BY <1>3, <1>4, <1>5, <1>6, <1>8, <1>9, <1>10, <1>11, <1>12

\* The capacity that a session should have is one.
LEMMA Desires ==
  ASSUME Sound, NEW w \in Workers, NEW s \in Slots, pc[w] \in Looping, Matching(s) # {}
  PROVE  Desired(w, s) \in Capacities
<1>1. First(Matching(s)) \in Matching(s)
  BY Firsts
<1>2. TableTypes /\ loaded[w].work \in [Works -> Capacities] /\ WorkOf[s] \in Works
  BY ScheduleAssumption DEF Sound, Informed
<1>3. QED  BY <1>1, <1>2, Generated DEF Desired

\* The steps over sessions leave the other workers alone and know what they do.
LEMMA LoopStands ==
  ASSUME Sound, NEW w \in Workers,
         \/ ReadEntries(w) \/ InsertSessions(w) \/ ListSessions(w) \/ BatchDone(w) \/ Skip(w)
         \/ FindOrphan(w) \/ FindCapacity(w) \/ StoreCapacity(w) \/ CancelSession(w)
         \/ CancelRaises(w) \/ Respond(w) \/ Die(w)
  PROVE  WorkTypes' /\ OthersStand(w) /\ Informed(w)'
<1>t. WorkTypes /\ TableTypes /\ Informed(w)
  BY DEF Sound
<1>p. Looping \union {"busy", "insert", "idle"} \subseteq Points
  BY DEF Points, Looping
<1>w. /\ pc[w] \in Points /\ job[w] \in Jobs /\ agenda[w] \in Seq(Tasks)
      /\ batch[w] \in SUBSET Slots /\ loaded[w] \in Loads /\ plan[w] \in Plans
  BY <1>t, Leaves
<1>1. CASE Fail(w)
  BY <1>1, <1>t, FailStands
<1>2. CASE ReadEntries(w)
  <2>1. PICK by \in [Slots -> Entries] :
          /\ \A s \in Slots : Matching(s) # {} => by[s] \in Matching(s)
          /\ plan' = [plan EXCEPT ![w] = [s \in Slots |->
               IF Generates(s, Head(agenda[w]).works)
                 THEN GeneratedCapacity(by[s], workCap[WorkOf[s]])
                 ELSE 0]]
    BY <1>2 DEF ReadEntries
  <2>2. PICK n : n = [s \in Slots |-> IF Generates(s, Head(agenda[w]).works)
                                        THEN GeneratedCapacity(by[s], workCap[WorkOf[s]])
                                        ELSE 0]
    OBVIOUS
  <2>3. ASSUME NEW s \in Slots, Generates(s, Head(agenda[w]).works)
        PROVE  GeneratedCapacity(by[s], workCap[WorkOf[s]]) \in Capacities
    <3>1. by[s] \in Matching(s)
      BY <2>1, <2>3 DEF Generates
    <3>2. workCap[WorkOf[s]] \in Capacities
      BY <1>t, ScheduleAssumption DEF TableTypes
    <3>3. QED  BY <1>t, <3>1, <3>2, Generated
  <2>4. n \in Plans /\ plan' = [plan EXCEPT ![w] = n]
    BY <2>1, <2>2, <2>3 DEF Plans
  <2>5. /\ pc[w] = "busy" /\ agenda[w] # <<>> /\ Head(agenda[w]).op = "generate"
        /\ pc' = [pc EXCEPT ![w] = "insert"] /\ UNCHANGED <<job, agenda, batch, loaded>>
    BY <1>2 DEF ReadEntries, Doing
  <2>6. WorkTypes' /\ OthersStand(w)
    BY <1>t, <1>p, <2>4, <2>5 DEF WorkTypes, OthersStand
  <2>7. pc'[w] = "insert" /\ job'[w] = job[w] /\ agenda'[w] = agenda[w]
    BY <1>t, <2>5 DEF WorkTypes
  <2>8. Informed(w)'
    BY <1>t, <2>5, <2>7 DEF Informed, Editing, Filling, Looping
  <2>9. QED  BY <2>6, <2>8
<1>3. ASSUME TaskDone(w), pc[w] \in Looping \union {"insert"},
             NEW l \in Loads, NEW n \in Plans,
             loaded' = [loaded EXCEPT ![w] = l], plan' = [plan EXCEPT ![w] = n],
             UNCHANGED <<job, batch>>
      PROVE  WorkTypes' /\ OthersStand(w) /\ Informed(w)'
  <2>1. agenda[w] # <<>> /\ job[w].kind # "none"
    BY <1>t, <1>3 DEF Informed, Looping
  <2>2. PICK a \in Seq(Tasks) : a = Tail(agenda[w])
    BY <1>t, <2>1, Rest
  <2>3. pc' = [pc EXCEPT ![w] = "busy"] /\ agenda' = [agenda EXCEPT ![w] = a]
    BY <1>3, <2>2, <1>t DEF TaskDone, WorkTypes
  <2>4. WorkTypes' /\ OthersStand(w)
    BY <1>3, <1>t, <1>p, <2>2, <2>3 DEF WorkTypes, OthersStand
  <2>5. pc'[w] = "busy" /\ job'[w] = job[w]
    BY <1>3, <1>t, <2>3 DEF WorkTypes
  <2>6. Informed(w)'
    BY <2>1, <2>5 DEF Informed, Editing, Filling, Looping
  <2>7. QED  BY <2>4, <2>6
<1>4. CASE InsertSessions(w)
  <2>1. loaded' = [loaded EXCEPT ![w] = loaded[w]] /\ plan' = [plan EXCEPT ![w] = NoLoad.cap]
        /\ TaskDone(w) /\ pc[w] = "insert" /\ UNCHANGED <<job, batch>>
    BY <1>4, <1>t DEF InsertSessions, WorkTypes
  <2>2. QED  BY <1>3, <1>w, <2>1, Idleness
<1>5. CASE BatchDone(w)
  <2>1. loaded' = [loaded EXCEPT ![w] = NoLoad] /\ plan' = [plan EXCEPT ![w] = plan[w]]
        /\ TaskDone(w) /\ pc[w] \in Looping /\ UNCHANGED <<job, batch>>
    BY <1>5, <1>t DEF BatchDone, WorkTypes, Looping
  <2>2. QED  BY <1>3, <1>w, <2>1, Idleness
<1>6. ASSUME NEW p \in Looping, NEW b \in SUBSET Slots, NEW l \in Loads,
             pc' = [pc EXCEPT ![w] = p], batch' = [batch EXCEPT ![w] = b],
             loaded' = [loaded EXCEPT ![w] = l], UNCHANGED <<job, agenda, plan>>
      PROVE  /\ WorkTypes' /\ OthersStand(w)
             /\ pc'[w] = p /\ batch'[w] = b /\ loaded'[w] = l
             /\ job'[w] = job[w] /\ agenda'[w] = agenda[w]
  <2>1. WorkTypes' /\ OthersStand(w)
    BY <1>6, <1>t, <1>p DEF WorkTypes, OthersStand
  <2>2. QED  BY <1>6, <1>t, <2>1 DEF WorkTypes
<1>7. CASE ListSessions(w)
  <2>1. PICK p, b, l :
          /\ p = IF Head(agenda[w]).op = "close" THEN "cancel" ELSE "match"
          /\ b = Listed(Head(agenda[w]))
          /\ l = [cap |-> [s \in Slots |-> session[s].cap], work |-> workCap]
    OBVIOUS
  <2>2. /\ pc' = [pc EXCEPT ![w] = p] /\ batch' = [batch EXCEPT ![w] = b]
        /\ loaded' = [loaded EXCEPT ![w] = l] /\ UNCHANGED <<job, agenda, plan>>
        /\ pc[w] = "busy" /\ agenda[w] # <<>> /\ Head(agenda[w]).op \in {"sync", "capacity", "close"}
    BY <1>7, <2>1 DEF ListSessions, Doing
  <2>3. p \in Looping /\ b \in SUBSET Slots
    BY <2>1, <2>2 DEF Looping, Listed, Live
  <2>4. l \in Loads /\ l.work \in [Works -> Capacities]
    <3>1. \A s \in Slots : session[s].cap \in Capacities \union {0}
      BY <1>t DEF TableTypes, SessionRows
    <3>2. workCap \in [Works -> Capacities]
      BY <1>t DEF TableTypes
    <3>3. QED  BY <2>1, <3>1, <3>2 DEF Loads
  <2>5. /\ WorkTypes' /\ OthersStand(w)
        /\ pc'[w] = p /\ loaded'[w] = l /\ job'[w] = job[w] /\ agenda'[w] = agenda[w]
    BY <1>6, <2>2, <2>3, <2>4
  <2>6. Informed(w)'
    BY <1>t, <2>1, <2>2, <2>4, <2>5 DEF Informed, Editing, Filling, Looping
  <2>7. QED  BY <2>5, <2>6
<1>8. ASSUME NEW p \in {"match", "cancel"}, NEW b \in SUBSET Slots,
             pc[w] \in Looping, pc' = [pc EXCEPT ![w] = p],
             p = "match" => Head(agenda[w]).op \in {"sync", "capacity"},
             p = "cancel" => Head(agenda[w]).op \in {"sync", "close"},
             batch' = [batch EXCEPT ![w] = b], UNCHANGED <<job, agenda, loaded, plan>>
      PROVE  WorkTypes' /\ OthersStand(w) /\ Informed(w)'
  <2>1. p \in Looping /\ loaded' = [loaded EXCEPT ![w] = loaded[w]]
    BY <1>8, <1>t DEF Looping, WorkTypes
  <2>2. /\ WorkTypes' /\ OthersStand(w)
        /\ pc'[w] = p /\ loaded'[w] = loaded[w] /\ job'[w] = job[w] /\ agenda'[w] = agenda[w]
    BY <1>6, <1>8, <1>w, <2>1
  <2>3. Informed(w)'
    BY <1>t, <1>8, <2>2 DEF Informed, Editing, Filling, Looping
  <2>4. QED  BY <2>2, <2>3
<1>9. CASE Skip(w)
  <2>1. PICK b : b = batch[w] \ {First(batch[w])}
    OBVIOUS
  <2>2. pc[w] = "match" /\ pc' = [pc EXCEPT ![w] = "match"] /\ b \in SUBSET Slots
        /\ batch' = [batch EXCEPT ![w] = b] /\ UNCHANGED <<job, agenda, loaded, plan>>
    BY <1>9, <1>t, <1>w, <2>1 DEF Skip, WorkTypes
  <2>3. Head(agenda[w]).op \in {"sync", "capacity"}
    BY <1>t, <2>2 DEF Informed
  <2>4. QED  BY <1>8, <2>2, <2>3 DEF Looping
<1>10. CASE FindOrphan(w)
  <2>1. pc[w] = "match" /\ pc' = [pc EXCEPT ![w] = "cancel"]
        /\ batch' = [batch EXCEPT ![w] = batch[w]] /\ UNCHANGED <<job, agenda, loaded, plan>>
        /\ Head(agenda[w]).op = "sync"
    BY <1>10, <1>t DEF FindOrphan, WorkTypes, work
  <2>2. QED  BY <1>8, <1>w, <2>1 DEF Looping
<1>11. CASE FindCapacity(w)
  <2>1. PICK l : l = [loaded[w] EXCEPT !.cap[First(batch[w])] = Desired(w, First(batch[w]))]
    OBVIOUS
  <2>2. pc[w] = "match" /\ pc' = [pc EXCEPT ![w] = "store"] /\ batch[w] # {}
        /\ batch' = [batch EXCEPT ![w] = batch[w]] /\ UNCHANGED <<job, agenda, plan>>
        /\ Matching(First(batch[w])) # {}
    BY <1>11, <1>t DEF FindCapacity, WorkTypes
  <2>3. loaded' = [loaded EXCEPT ![w] = l]
    BY <1>11, <1>t, <2>1 DEF FindCapacity, WorkTypes
  <2>4. First(batch[w]) \in Slots
    BY <1>w, <2>2, Firsts
  <2>5. Desired(w, First(batch[w])) \in Capacities
    BY <2>2, <2>4, Desires DEF Looping
  <2>6. l \in Loads /\ l.cap[First(batch[w])] \in Capacities /\ l.work = loaded[w].work
    BY <1>w, <2>1, <2>4, <2>5 DEF Loads
  <2>7. "store" \in Looping
    BY DEF Looping
  <2>8. /\ WorkTypes' /\ OthersStand(w) /\ pc'[w] = "store" /\ batch'[w] = batch[w]
        /\ loaded'[w] = l /\ job'[w] = job[w] /\ agenda'[w] = agenda[w]
    BY <1>6, <1>w, <2>2, <2>3, <2>6, <2>7
  <2>9. Informed(w)'
    BY <1>t, <2>2, <2>6, <2>8 DEF Informed, Editing, Filling, Looping
  <2>10. QED  BY <2>8, <2>9
<1>12. CASE StoreCapacity(w)
  <2>1. PICK b : b = batch[w] \ {First(batch[w])}
    OBVIOUS
  <2>2. pc[w] = "store" /\ pc' = [pc EXCEPT ![w] = "match"] /\ b \in SUBSET Slots
        /\ batch' = [batch EXCEPT ![w] = b] /\ UNCHANGED <<job, agenda, loaded, plan>>
    BY <1>12, <1>t, <1>w, <2>1 DEF StoreCapacity, WorkTypes, Goto
  <2>3. Head(agenda[w]).op \in {"sync", "capacity"}
    BY <1>t, <2>2 DEF Informed
  <2>4. QED  BY <1>8, <2>2, <2>3 DEF Looping
<1>13. CASE CancelSession(w)
  <2>1. PICK p, b : p = AfterCancel(w) /\ b = batch[w] \ {First(batch[w])}
    OBVIOUS
  <2>2. pc[w] = "cancel" /\ pc' = [pc EXCEPT ![w] = p] /\ b \in SUBSET Slots
        /\ batch' = [batch EXCEPT ![w] = b] /\ UNCHANGED <<job, agenda, loaded, plan>>
    BY <1>13, <1>t, <1>w, <2>1 DEF CancelSession, WorkTypes, Goto
  <2>3. Head(agenda[w]).op \in {"sync", "close"}
    BY <1>t, <2>2 DEF Informed
  <2>4. p \in {"match", "cancel"}
        /\ (p = "match" => Head(agenda[w]).op = "sync")
        /\ (p = "cancel" => Head(agenda[w]).op = "close")
    BY <2>1, <2>3 DEF AfterCancel
  <2>5. QED  BY <1>8, <2>2, <2>4 DEF Looping
<1>14. CASE CancelRaises(w) \/ Die(w)
  BY <1>1, <1>14 DEF CancelRaises, Die
<1>15. CASE Respond(w)
  <2>1. pc' = [pc EXCEPT ![w] = "idle"] /\ job' = [job EXCEPT ![w] = NoJob]
        /\ agenda[w] = <<>> /\ UNCHANGED <<agenda, batch, loaded, plan>>
    BY <1>15 DEF Respond, work
  <2>2. WorkTypes' /\ OthersStand(w)
    BY <1>t, <1>p, <2>1, Idleness DEF WorkTypes, OthersStand
  <2>3. pc'[w] = "idle" /\ job'[w] = NoJob /\ agenda'[w] = <<>>
    BY <1>t, <2>1 DEF WorkTypes
  <2>4. Informed(w)'
    BY <2>3 DEF Informed, Editing, Filling, Looping
  <2>5. QED  BY <2>2, <2>4
<1>16. QED
  BY <1>2, <1>4, <1>5, <1>7, <1>9, <1>10, <1>11, <1>12, <1>13, <1>14, <1>15

-----------------------------------------------------------------------------
(* Tables *)

\* Three steps write sessions.
LEMMA SessionSteps ==
  ASSUME [Next]_vars
  PROVE  \/ session' = session
         \/ \E w \in Workers : InsertSessions(w) \/ StoreCapacity(w) \/ CancelSession(w)
<1>1. ASSUME NEW w \in Workers, Request(w) PROVE session' = session
  BY <1>1 DEF Request, CreateEntry, LoadEntry, ReadDays, CountConflicts, SetBlocked,
              SetWorkCapacity, RunCommand, tables
<1>2. ASSUME NEW w \in Workers,
             \/ SaveEntry(w) \/ ClearSelections(w) \/ AddSelection(w) \/ PickWorks(w)
             \/ RereadEntry(w) \/ ReadSelections(w) \/ CopyEntry(w) \/ CopyDone(w) \/ DeleteEntry(w)
      PROVE session' = session
  BY <1>2 DEF SaveEntry, ClearSelections, AddSelection, PickWorks, RereadEntry, ReadSelections,
              CopyEntry, CopyDone, DeleteEntry, tables
<1>3. ASSUME NEW w \in Workers,
             \/ ReadEntries(w) \/ ListSessions(w) \/ BatchDone(w) \/ Skip(w) \/ FindOrphan(w)
             \/ FindCapacity(w) \/ CancelRaises(w) \/ Respond(w) \/ Die(w)
      PROVE session' = session
  BY <1>3 DEF ReadEntries, ListSessions, BatchDone, Skip, FindOrphan, FindCapacity, CancelRaises,
              Respond, Die, tables
<1>4. ASSUME NEW s \in Slots, Book(s) \/ CancelBooking(s) \/ Approach(s) PROVE session' = session
  BY <1>4 DEF Book, CancelBooking, Approach
<1>5. CASE UNCHANGED vars
  BY <1>5 DEF vars, tables
<1>6. QED  BY <1>1, <1>2, <1>3, <1>4, <1>5 DEF Next, Step

\* Sessions keep their types, none is ungenerated and none cancelled is opened.
LEMMA SessionsKept ==
  ASSUME Sound, [Next]_vars
  PROVE  /\ session' \in [Slots -> SessionRows]
         /\ \A s \in Slots :
              /\ session'[s].status = "NONE" <=> session'[s].cap = 0
              /\ session[s].status # "NONE" => session'[s].status # "NONE"
              /\ session[s].status = "CANCELLED" => session'[s].status = "CANCELLED"
<1> DEFINE Kept == /\ session' \in [Slots -> SessionRows]
                   /\ \A s \in Slots :
                        /\ session'[s].status = "NONE" <=> session'[s].cap = 0
                        /\ session[s].status # "NONE" => session'[s].status # "NONE"
                        /\ session[s].status = "CANCELLED" => session'[s].status = "CANCELLED"
<1>1. /\ session \in [Slots -> SessionRows]
      /\ \A s \in Slots : session[s].status = "NONE" <=> session[s].cap = 0
  BY DEF Sound, TableTypes
<1>2. CASE session' = session
  BY <1>1, <1>2
<1>3. ASSUME NEW w \in Workers, InsertSessions(w) PROVE Kept
  <2>1. plan[w] \in [Slots -> Capacities \union {0}] /\ Capacities \subseteq Nat \ {0}
    BY ScheduleAssumption DEF Sound, WorkTypes, Plans
  <2>2. session' = [s \in Slots |->
          IF plan[w][s] > 0 /\ session[s].status = "NONE"
            THEN [status |-> "OPEN", cap |-> plan[w][s]]
            ELSE session[s]]
    BY <1>3 DEF InsertSessions
  <2>3. ASSUME NEW s \in Slots
        PROVE  /\ session'[s] \in SessionRows
               /\ session'[s].status = "NONE" <=> session'[s].cap = 0
               /\ session[s].status # "NONE" => session'[s] = session[s]
    <3>1. CASE plan[w][s] > 0 /\ session[s].status = "NONE"
      <4>1. session'[s] = [status |-> "OPEN", cap |-> plan[w][s]]
        BY <2>2, <3>1
      <4>2. plan[w][s] \in Capacities \union {0} /\ plan[w][s] # 0
        BY <2>1, <3>1
      <4>3. QED  BY <3>1, <4>1, <4>2 DEF SessionRows
    <3>2. CASE ~(plan[w][s] > 0 /\ session[s].status = "NONE")
      BY <1>1, <2>2, <3>2
    <3>3. QED  BY <3>1, <3>2
  <2>4. session' \in [Slots -> SessionRows]
    BY <2>2, <2>3
  <2>5. QED  BY <1>1, <2>3, <2>4
<1>4. ASSUME NEW w \in Workers, NEW s \in Slots, session[s].status # "NONE", NEW x \in SessionRows,
             session' = [session EXCEPT ![s] = x],
             x.status # "NONE" /\ x.cap # 0,
             session[s].status = "CANCELLED" => x.status = "CANCELLED"
      PROVE  Kept
  BY <1>1, <1>4
<1>5. ASSUME NEW w \in Workers, StoreCapacity(w) \/ CancelSession(w)
      PROVE  First(batch[w]) \in Slots /\ session[First(batch[w])].status # "NONE"
  <2>1. batch[w] # {}
    BY <1>5 DEF Sound, Informed, StoreCapacity, CancelSession, Goto
  <2>2. First(batch[w]) \in batch[w] /\ batch[w] \subseteq Slots
    BY <2>1, Firsts DEF Sound, WorkTypes
  <2>3. QED  BY <2>2 DEF Sound, BatchesExist
<1>6. ASSUME NEW w \in Workers, StoreCapacity(w) PROVE Kept
  <2>1. PICK s, x : s = First(batch[w])
                    /\ x = [status |-> session[s].status, cap |-> loaded[w].cap[s]]
    OBVIOUS
  <2>2. s \in Slots /\ session[s].status # "NONE" /\ session[s] \in SessionRows
    BY <1>1, <1>5, <1>6, <2>1
  <2>3. loaded[w].cap[s] \in Capacities
    BY <1>6, <2>1 DEF Sound, Informed, StoreCapacity, Goto
  <2>4. session' = [session EXCEPT ![s] = x]
    <3>1. x = [session[s] EXCEPT !.cap = loaded[w].cap[s]]
      BY <2>1, <2>2 DEF SessionRows
    <3>2. session' = [session EXCEPT ![s].cap = loaded[w].cap[s]]
      BY <1>6, <2>1 DEF StoreCapacity
    <3>3. QED  BY <1>1, <2>2, <3>1, <3>2
  <2>5. x \in SessionRows /\ x.status = session[s].status /\ x.cap # 0
    BY <2>1, <2>2, <2>3, ScheduleAssumption DEF SessionRows
  <2>6. QED  BY <1>4, <2>2, <2>4, <2>5
<1>7. ASSUME NEW w \in Workers, CancelSession(w) PROVE Kept
  <2>1. PICK s, x : s = First(batch[w])
                    /\ x = [status |-> "CANCELLED", cap |-> session[s].cap]
    OBVIOUS
  <2>2. s \in Slots /\ session[s].status # "NONE" /\ session[s] \in SessionRows
    BY <1>1, <1>5, <1>7, <2>1
  <2>3. session' = [session EXCEPT ![s] = x]
    <3>1. x = [session[s] EXCEPT !.status = "CANCELLED"]
      BY <2>1, <2>2 DEF SessionRows
    <3>2. session' = [session EXCEPT ![s].status = "CANCELLED"]
      BY <1>7, <2>1 DEF CancelSession
    <3>3. QED  BY <1>1, <2>2, <3>1, <3>2
  <2>4. x \in SessionRows /\ x.status = "CANCELLED" /\ x.cap # 0
    BY <1>1, <2>1, <2>2 DEF SessionRows
  <2>5. QED  BY <1>4, <2>2, <2>3, <2>4
<1>8. QED  BY <1>2, <1>3, <1>6, <1>7, SessionSteps

\* Steps that write entries; all others leave them and the numbering alone.
LEMMA EntrySteps ==
  ASSUME [Next]_vars
  PROVE  \/ entry' = entry /\ lastPk' = lastPk
         \/ \E w \in Workers :
              \/ CreateEntry(w) \/ SaveEntry(w) \/ ClearSelections(w) \/ AddSelection(w)
              \/ PickWorks(w) \/ CopyEntry(w) \/ DeleteEntry(w)
<1>1. ASSUME NEW w \in Workers,
             \/ LoadEntry(w) \/ ReadDays(w) \/ CountConflicts(w) \/ SetBlocked(w)
             \/ SetWorkCapacity(w) \/ RunCommand(w)
      PROVE entry' = entry /\ lastPk' = lastPk
  BY <1>1 DEF LoadEntry, ReadDays, CountConflicts, SetBlocked, SetWorkCapacity, RunCommand, tables
<1>2. ASSUME NEW w \in Workers, RereadEntry(w) \/ ReadSelections(w) \/ CopyDone(w)
      PROVE entry' = entry /\ lastPk' = lastPk
  BY <1>2 DEF RereadEntry, ReadSelections, CopyDone, tables
<1>3. ASSUME NEW w \in Workers,
             \/ ReadEntries(w) \/ ListSessions(w) \/ BatchDone(w) \/ Skip(w) \/ FindOrphan(w)
             \/ FindCapacity(w) \/ Respond(w) \/ Die(w)
      PROVE entry' = entry /\ lastPk' = lastPk
  BY <1>3 DEF ReadEntries, ListSessions, BatchDone, Skip, FindOrphan, FindCapacity, Respond, Die,
              tables
<1>4. ASSUME NEW w \in Workers,
             InsertSessions(w) \/ StoreCapacity(w) \/ CancelSession(w) \/ CancelRaises(w)
      PROVE entry' = entry /\ lastPk' = lastPk
  BY <1>4 DEF InsertSessions, StoreCapacity, CancelSession, CancelRaises
<1>5. ASSUME NEW s \in Slots, Book(s) \/ CancelBooking(s) \/ Approach(s)
      PROVE entry' = entry /\ lastPk' = lastPk
  BY <1>5 DEF Book, CancelBooking, Approach
<1>6. CASE UNCHANGED vars
  BY <1>6 DEF vars, tables
<1>7. QED  BY <1>1, <1>2, <1>3, <1>4, <1>5, <1>6 DEF Next, Request, Step

\* An entry that is written keeps the form of one, or is removed.
LEMMA EntriesKept ==
  ASSUME Sound, [Next]_vars
  PROVE  /\ entry' \in [Entries -> {NoEntry} \union Rows]
         /\ lastPk' \in Nat /\ lastPk <= lastPk'
         /\ \A e \in Entries : entry'[e] # NoEntry => e <= lastPk'
<1> DEFINE Kept == /\ entry' \in [Entries -> {NoEntry} \union Rows]
                   /\ lastPk' \in Nat /\ lastPk <= lastPk'
                   /\ \A e \in Entries : entry'[e] # NoEntry => e <= lastPk'
<1>1. /\ entry \in [Entries -> {NoEntry} \union Rows] /\ lastPk \in Nat
      /\ \A e \in Entries : entry[e] # NoEntry => e <= lastPk
      /\ Entries \subseteq Nat
  BY ScheduleAssumption DEF Sound, TableTypes, KeysAreNumbered
<1>2. CASE entry' = entry /\ lastPk' = lastPk
  BY <1>1, <1>2
<1>3. ASSUME NEW e \in Entries, e <= lastPk, NEW x \in {NoEntry} \union Rows,
             entry' = [entry EXCEPT ![e] = x], lastPk' = lastPk
      PROVE  Kept
  BY <1>1, <1>3
<1>4. ASSUME NEW x \in Rows, lastPk + 1 \in Entries,
             entry' = [entry EXCEPT ![lastPk + 1] = x], lastPk' = lastPk + 1
      PROVE  Kept
  <2>1. \A e \in Entries : entry'[e] # NoEntry => e <= lastPk + 1
    <3>1. ASSUME NEW e \in Entries, entry'[e] # NoEntry PROVE e <= lastPk + 1
      <4>1. CASE e = lastPk + 1
        BY <1>1, <4>1
      <4>2. CASE e # lastPk + 1
        <5>1. e <= lastPk /\ e \in Nat
          BY <1>1, <1>4, <3>1, <4>2
        <5>2. QED  BY <1>1, <5>1
      <4>3. QED  BY <4>1, <4>2
    <3>2. QED  BY <3>1
  <2>2. lastPk' \in Nat /\ lastPk <= lastPk'
    BY <1>1, <1>4
  <2>3. entry' \in [Entries -> {NoEntry} \union Rows]
    BY <1>1, <1>4
  <2>4. QED  BY <1>4, <2>1, <2>2, <2>3
<1>5. ASSUME NEW w \in Workers, CreateEntry(w) PROVE Kept
  <2>1. PICK data \in Forms : /\ lastPk + 1 \in Entries
                              /\ entry' = [entry EXCEPT ![lastPk + 1] = Row(data.day, {}, data.cap, NoWorker)]
                              /\ lastPk' = lastPk + 1
    BY <1>5 DEF CreateEntry
  <2>2. Row(data.day, {}, data.cap, NoWorker) \in Rows
    BY RowsExist
  <2>3. QED  BY <1>4, <2>1, <2>2
<1>6. ASSUME NEW w \in Workers, CopyEntry(w) PROVE Kept
  <2>1. job[w].data \in Wishes
    BY <1>6 DEF CopyEntry, Goto, Sound, Informed, Editing
  <2>2. Row(job[w].data.day, {}, job[w].data.cap, NoWorker) \in Rows
    BY <2>1, RowsExist
  <2>3. QED  BY <1>4, <1>6, <2>2 DEF CopyEntry
<1>7. ASSUME NEW w \in Workers, pc[w] \in Editing \ {"copy"}
      PROVE  job[w].entry \in Entries /\ job[w].entry <= lastPk
  BY <1>7 DEF Sound, Informed, KeysAreNumbered
<1>8. ASSUME NEW w \in Workers, SaveEntry(w) PROVE Kept
  <2>1. job[w].entry \in Entries /\ job[w].entry <= lastPk /\ job[w].data \in Wishes
    BY <1>7, <1>8 DEF SaveEntry, Goto, Editing, Filling, Sound, Informed
  <2>2. PICK x : x = IF entry[job[w].entry] = NoEntry
                       THEN Row(job[w].data.day, {}, job[w].data.cap, NoWorker)
                       ELSE Row(job[w].data.day, entry[job[w].entry].works, job[w].data.cap,
                                entry[job[w].entry].by)
    OBVIOUS
  <2>3. x \in Rows
    <3>1. CASE entry[job[w].entry] = NoEntry
      BY <2>1, <2>2, <3>1, RowsExist
    <3>2. CASE entry[job[w].entry] # NoEntry
      <4>1. entry[job[w].entry].works \in SUBSET Works
            /\ entry[job[w].entry].by \in Workers \union {NoWorker}
        BY <1>1, <2>1, <3>2 DEF Rows
      <4>2. QED  BY <2>1, <2>2, <3>2, <4>1, RowsExist
    <3>3. QED  BY <3>1, <3>2
  <2>4. entry' = [entry EXCEPT ![job[w].entry] = x] /\ lastPk' = lastPk
    BY <1>8, <2>2 DEF SaveEntry
  <2>5. QED  BY <1>3, <2>1, <2>3, <2>4
<1>9. ASSUME NEW w \in Workers, pc[w] \in Editing \ {"copy"}, entry[job[w].entry] # NoEntry,
             NEW W \in SUBSET Works, NEW v \in Workers \union {NoWorker},
             SetWorks(job[w].entry, W, v), lastPk' = lastPk
      PROVE  Kept
  <2>1. job[w].entry \in Entries /\ job[w].entry <= lastPk
    BY <1>7, <1>9
  <2>2. PICK e \in Entries : e = job[w].entry
    BY <2>1
  <2>3. PICK x : x = [entry[e] EXCEPT !.works = W, !.by = v]
    OBVIOUS
  <2>4. entry[e] \in Rows
    BY <1>1, <1>9, <2>2
  <2>5. x \in Rows
    BY <2>3, <2>4 DEF Rows
  <2>6. entry' = [[entry EXCEPT ![e].works = W] EXCEPT ![e].by = v]
    BY <1>9, <2>2 DEF SetWorks
  <2>7. entry' = [entry EXCEPT ![e] = x]
    BY <1>1, <2>3, <2>4, <2>6 DEF Rows
  <2>8. QED  BY <1>3, <1>9, <2>1, <2>2, <2>5, <2>7
<1>10. ASSUME NEW w \in Workers, ClearSelections(w) PROVE Kept
  <2>1. CASE entry[job[w].entry] = NoEntry
    BY <1>2, <1>10, <2>1 DEF ClearSelections
  <2>2. CASE entry[job[w].entry] # NoEntry
    BY <1>9, <1>10, <2>2 DEF ClearSelections, Goto, Editing, Filling
  <2>3. QED  BY <2>1, <2>2
<1>11. ASSUME NEW w \in Workers, AddSelection(w) PROVE Kept
  <2>1. CASE entry' = entry
    BY <1>2, <1>11, <2>1 DEF AddSelection
  <2>2. CASE ~(entry[job[w].entry] = NoEntry \/ entry[job[w].entry].works # {})
    BY <1>9, <1>11, <2>2 DEF AddSelection, Editing, Filling
  <2>3. QED  BY <1>11, <2>1, <2>2 DEF AddSelection
<1>12. ASSUME NEW w \in Workers, PickWorks(w) PROVE Kept
  <2>1. CASE entry' = entry
    BY <1>2, <1>12, <2>1 DEF PickWorks
  <2>2. CASE ~(entry[job[w].entry] = NoEntry \/ entry[job[w].entry].by # w)
    <3>1. job[w].data.works \in SUBSET Works
      BY <1>12 DEF PickWorks, Sound, Informed, Editing, Filling, Wishes
    <3>2. QED  BY <1>9, <1>12, <2>2, <3>1 DEF PickWorks, Editing, Filling
  <2>3. QED  BY <1>12, <2>1, <2>2 DEF PickWorks
<1>13. ASSUME NEW w \in Workers, DeleteEntry(w) PROVE Kept
  BY <1>3, <1>7, <1>13 DEF DeleteEntry, Goto, Editing, Filling
<1>14. QED  BY <1>2, <1>5, <1>6, <1>8, <1>10, <1>11, <1>12, <1>13, EntrySteps

\* The other tables and the history keep their types.
LEMMA OthersKept ==
  ASSUME Sound, [Next]_vars
  PROVE  /\ booked' \subseteq Slots /\ blocked' \in BOOLEAN
         /\ workCap' \in [Works -> Capacities] /\ near' \subseteq Slots
         /\ served' \in 0..MaxRequests /\ calm' \in BOOLEAN
         /\ calm' => calm
<1> DEFINE Kept == /\ booked' \subseteq Slots /\ blocked' \in BOOLEAN
                   /\ workCap' \in [Works -> Capacities] /\ near' \subseteq Slots
                   /\ served' \in 0..MaxRequests /\ calm' \in BOOLEAN
                   /\ calm' => calm
<1>1. /\ booked \subseteq Slots /\ blocked \in BOOLEAN
      /\ workCap \in [Works -> Capacities] /\ near \subseteq Slots
      /\ served \in 0..MaxRequests /\ calm \in BOOLEAN /\ MaxRequests \in Nat
  BY ScheduleAssumption DEF Sound, TableTypes
<1>2. ASSUME UNCHANGED <<booked, blocked, workCap, near, ghost>> PROVE Kept
  BY <1>1, <1>2 DEF ghost
<1>3. ASSUME NEW w \in Workers, Fail(w), booked' \subseteq booked, UNCHANGED <<blocked, workCap, near>>
      PROVE  Kept
  BY <1>1, <1>3 DEF Fail
<1>4. ASSUME served < MaxRequests, served' = served + 1, calm' \in BOOLEAN, calm' => calm,
             UNCHANGED <<booked, near>>, blocked' \in BOOLEAN, workCap' \in [Works -> Capacities]
      PROVE  Kept
  BY <1>1, <1>4
<1>5. ASSUME NEW w \in Workers, NEW kind, NEW e, NEW data, NEW oldDay, NEW forced, NEW to,
             Begin(w, kind, e, data, oldDay, forced, to)
      PROVE  served < MaxRequests /\ served' = served + 1 /\ calm' \in BOOLEAN /\ (calm' => calm)
  <2>1. calm' = (calm /\ \A v \in Workers : pc[v] = "idle")
    BY <1>5 DEF Begin
  <2>2. calm' \in BOOLEAN /\ (calm' => calm)
    BY <1>1, <2>1
  <2>3. QED  BY <1>5, <2>2 DEF Begin
<1>6. ASSUME NEW w \in Workers, CreateEntry(w) PROVE Kept
  <2>1. PICK data \in Forms :
          Begin(w, "create", lastPk + 1, data, data.day, FALSE, "select")
    BY <1>6 DEF CreateEntry
  <2>2. served < MaxRequests /\ served' = served + 1 /\ calm' \in BOOLEAN /\ (calm' => calm)
    BY <1>5, <2>1
  <2>3. QED  BY <1>1, <1>4, <1>6, <2>2 DEF CreateEntry
<1>7. ASSUME NEW w \in Workers, LoadEntry(w) \/ ReadDays(w) \/ CountConflicts(w) \/ RunCommand(w)
      PROVE  Kept
  <2>1. UNCHANGED <<booked, near, blocked, workCap>>
    BY <1>7 DEF LoadEntry, ReadDays, CountConflicts, RunCommand, tables
  <2>2. \E kind, e, data, oldDay, forced, to : Begin(w, kind, e, data, oldDay, forced, to)
    BY <1>7 DEF LoadEntry, ReadDays, CountConflicts, RunCommand
  <2>3. served < MaxRequests /\ served' = served + 1 /\ calm' \in BOOLEAN /\ (calm' => calm)
    BY <1>5, <2>2
  <2>4. QED  BY <1>1, <1>4, <2>1, <2>3
<1>8. ASSUME NEW w \in Workers, SetBlocked(w) \/ SetWorkCapacity(w) PROVE Kept
  <2>1. UNCHANGED <<booked, near>> /\ blocked' \in BOOLEAN /\ workCap' \in [Works -> Capacities]
    BY <1>1, <1>8 DEF SetBlocked, SetWorkCapacity
  <2>2. \E kind, e, data, oldDay, forced, to : Begin(w, kind, e, data, oldDay, forced, to)
    BY <1>8 DEF SetBlocked, SetWorkCapacity
  <2>3. served < MaxRequests /\ served' = served + 1 /\ calm' \in BOOLEAN /\ (calm' => calm)
    BY <1>5, <2>2
  <2>4. QED  BY <1>4, <2>1, <2>3
<1>9. ASSUME NEW w \in Workers, AddSelection(w) \/ PickWorks(w) PROVE Kept
  <2>1. UNCHANGED <<booked, blocked, workCap, near>>
    BY <1>9 DEF AddSelection, PickWorks
  <2>2. Fail(w) \/ UNCHANGED ghost
    BY <1>9 DEF AddSelection, PickWorks
  <2>3. QED  BY <1>2, <1>3, <2>1, <2>2
<1>10. ASSUME NEW w \in Workers, RereadEntry(w) \/ Die(w) \/ CancelRaises(w) PROVE Kept
  <2>1. UNCHANGED <<blocked, workCap, near>> /\ booked' \subseteq booked
    BY <1>10 DEF RereadEntry, Die, CancelRaises, tables
  <2>2. Fail(w) \/ UNCHANGED <<booked, ghost>>
    BY <1>10 DEF RereadEntry, Die, CancelRaises, tables
  <2>3. QED  BY <1>2, <1>3, <2>1, <2>2
<1>11. ASSUME NEW w \in Workers,
              \/ SaveEntry(w) \/ ClearSelections(w) \/ ReadSelections(w) \/ CopyEntry(w)
              \/ CopyDone(w) \/ DeleteEntry(w)
       PROVE  Kept
  BY <1>2, <1>11 DEF SaveEntry, ClearSelections, ReadSelections, CopyEntry, CopyDone, DeleteEntry,
                     tables
<1>12. ASSUME NEW w \in Workers,
              \/ ReadEntries(w) \/ InsertSessions(w) \/ ListSessions(w) \/ BatchDone(w) \/ Skip(w)
              \/ FindOrphan(w) \/ FindCapacity(w) \/ StoreCapacity(w) \/ Respond(w)
       PROVE  Kept
  BY <1>2, <1>12 DEF ReadEntries, InsertSessions, ListSessions, BatchDone, Skip, FindOrphan,
                     FindCapacity, StoreCapacity, Respond, tables
<1>13. ASSUME NEW w \in Workers, CancelSession(w) PROVE Kept
  BY <1>1, <1>13 DEF CancelSession, ghost
<1>14. ASSUME NEW s \in Slots, Book(s) \/ CancelBooking(s) \/ Approach(s) PROVE Kept
  BY <1>1, <1>14 DEF Book, CancelBooking, Approach, ghost
<1>15. CASE UNCHANGED vars
  BY <1>2, <1>15 DEF vars, tables
<1>16. QED
  BY <1>6, <1>7, <1>8, <1>9, <1>10, <1>11, <1>12, <1>13, <1>14, <1>15 DEF Next, Request, Step

-----------------------------------------------------------------------------
(* Types and cancelled sessions *)

\* Either one worker moves, or none does and a student or time does.
LEMMA Movers ==
  ASSUME Sound, [Next]_vars
  PROVE  /\ WorkTypes' /\ \A w \in Workers : Informed(w)'
         /\ \/ UNCHANGED <<pc, job, agenda, batch, loaded, plan>>
            \/ \E w \in Workers : (Request(w) \/ Step(w) \/ Die(w)) /\ OthersStand(w)
<1>1. ASSUME NEW w \in Workers, Request(w) \/ Step(w) \/ Die(w)
      PROVE  WorkTypes' /\ OthersStand(w) /\ Informed(w)'
  <2>1. CASE Request(w)
    BY <2>1, RequestStands
  <2>2. CASE \/ SaveEntry(w) \/ ClearSelections(w) \/ AddSelection(w) \/ PickWorks(w)
             \/ RereadEntry(w) \/ ReadSelections(w) \/ CopyEntry(w) \/ CopyDone(w) \/ DeleteEntry(w)
    BY <2>2, EditStands
  <2>3. CASE \/ ReadEntries(w) \/ InsertSessions(w) \/ ListSessions(w) \/ BatchDone(w) \/ Skip(w)
             \/ FindOrphan(w) \/ FindCapacity(w) \/ StoreCapacity(w) \/ CancelSession(w)
             \/ CancelRaises(w) \/ Respond(w) \/ Die(w)
    BY <2>3, LoopStands
  <2>4. QED  BY <1>1, <2>1, <2>2, <2>3 DEF Step
<1>2. ASSUME NEW w \in Workers, OthersStand(w), Informed(w)'
      PROVE  \A v \in Workers : Informed(v)'
  <2>1. ASSUME NEW v \in Workers, v # w PROVE Informed(v)'
    <3>1. /\ pc'[v] = pc[v] /\ job'[v] = job[v] /\ agenda'[v] = agenda[v]
          /\ batch'[v] = batch[v] /\ loaded'[v] = loaded[v] /\ Informed(v)
      BY <1>2, <2>1 DEF OthersStand, Sound
    <3>2. QED  BY <3>1 DEF Informed
  <2>2. QED  BY <1>2, <2>1
<1>3. ASSUME UNCHANGED <<pc, job, agenda, batch, loaded, plan>>
      PROVE  WorkTypes' /\ \A w \in Workers : Informed(w)'
  <2>1. pc' = pc /\ job' = job /\ agenda' = agenda /\ batch' = batch /\ loaded' = loaded /\ plan' = plan
    BY <1>3
  <2>2. QED  BY <2>1 DEF WorkTypes, Informed, Sound
<1>4. ASSUME NEW s \in Slots, Book(s) \/ CancelBooking(s) \/ Approach(s)
      PROVE  UNCHANGED <<pc, job, agenda, batch, loaded, plan>>
  BY <1>4 DEF Book, CancelBooking, Approach, work
<1>5. CASE UNCHANGED vars
  <2>1. UNCHANGED <<pc, job, agenda, batch, loaded, plan>>
    BY <1>5 DEF vars, work
  <2>2. QED  BY <1>3, <2>1
<1>6. QED  BY <1>1, <1>2, <1>3, <1>4, <1>5 DEF Next

\* What a worker lists is live, and the key of its entry has been given.
LEMMA Lists ==
  ASSUME Sound, NEW w \in Workers, Request(w) \/ Step(w) \/ Die(w)
  PROVE  batch'[w] \subseteq batch[w] \union Live
<1>t. batch \in [Workers -> SUBSET Slots]
  BY DEF Sound, WorkTypes
<1>1. CASE batch' = batch
  BY <1>1
<1>2. CASE Fail(w)
  BY <1>2, <1>t DEF Fail
<1>3. CASE Request(w)
  BY <1>1, <1>3 DEF Request, CreateEntry, LoadEntry, ReadDays, CountConflicts, SetBlocked,
                    SetWorkCapacity, RunCommand, work
<1>4. CASE \/ SaveEntry(w) \/ ClearSelections(w) \/ AddSelection(w) \/ PickWorks(w)
           \/ RereadEntry(w) \/ ReadSelections(w) \/ CopyEntry(w) \/ CopyDone(w) \/ DeleteEntry(w)
  BY <1>1, <1>2, <1>4 DEF SaveEntry, ClearSelections, AddSelection, PickWorks, RereadEntry,
              ReadSelections, CopyEntry, CopyDone, DeleteEntry, work
<1>5. CASE \/ ReadEntries(w) \/ InsertSessions(w) \/ BatchDone(w)
           \/ FindOrphan(w) \/ FindCapacity(w) \/ CancelRaises(w) \/ Respond(w) \/ Die(w)
  BY <1>1, <1>2, <1>5 DEF ReadEntries, InsertSessions, BatchDone, FindOrphan, FindCapacity,
              CancelRaises, Respond, Die, work
<1>6. CASE Skip(w) \/ StoreCapacity(w) \/ CancelSession(w)
  BY <1>t, <1>6 DEF Skip, StoreCapacity, CancelSession
<1>7. CASE ListSessions(w)
  <2>1. Listed(Head(agenda[w])) \subseteq Live
    BY <1>7 DEF ListSessions, Doing, Listed
  <2>2. QED  BY <1>7, <1>t, <2>1 DEF ListSessions
<1>8. QED  BY <1>3, <1>4, <1>5, <1>6, <1>7 DEF Step

\* No request knows an entry of the future.
LEMMA Numbers ==
  ASSUME Sound, NEW w \in Workers, Request(w) \/ Step(w) \/ Die(w)
  PROVE  job'[w].entry <= lastPk'
<1>t. /\ job \in [Workers -> Jobs] /\ lastPk \in Nat /\ job[w].entry <= lastPk
      /\ \A e \in Entries : entry[e] # NoEntry => e <= lastPk
  BY DEF Sound, WorkTypes, TableTypes, KeysAreNumbered
<1>1. CASE job' = job /\ lastPk' = lastPk
  BY <1>1, <1>t
<1>2. ASSUME job' = [job EXCEPT ![w] = NoJob], lastPk' = lastPk PROVE job'[w].entry <= lastPk'
  BY <1>2, <1>t DEF NoJob
<1>3. ASSUME NEW kind, NEW e \in Nat, NEW data, NEW oldDay, NEW forced, NEW to,
             Begin(w, kind, e, data, oldDay, forced, to), e <= lastPk'
      PROVE  job'[w].entry <= lastPk'
  BY <1>3, <1>t DEF Begin
<1>4. CASE CreateEntry(w)
  <2>1. PICK data \in Forms : Begin(w, "create", lastPk + 1, data, data.day, FALSE, "select")
    BY <1>4 DEF CreateEntry
  <2>2. lastPk + 1 \in Nat /\ lastPk' = lastPk + 1 /\ lastPk + 1 <= lastPk'
    BY <1>4, <1>t DEF CreateEntry
  <2>3. QED  BY <1>3, <2>1, <2>2
<1>a. CASE LoadEntry(w)
  <2>1. PICK e \in Entries, data \in Forms :
          entry[e] # NoEntry /\ Begin(w, "update", e, data, entry[e].day, FALSE, "save")
    BY <1>a DEF LoadEntry
  <2>2. e \in Nat /\ e <= lastPk'
    BY <1>a, <1>t, <2>1, ScheduleAssumption DEF LoadEntry, tables
  <2>3. QED  BY <1>3, <2>1, <2>2
<1>5. CASE CountConflicts(w)
  <2>1. PICK e \in Entries, forced \in BOOLEAN :
          entry[e] # NoEntry /\ Begin(w, "delete", e, NoEntry, entry[e].day, forced, "delete")
    BY <1>5 DEF CountConflicts
  <2>2. e \in Nat /\ e <= lastPk'
    BY <1>5, <1>t, <2>1, ScheduleAssumption DEF CountConflicts, tables
  <2>3. QED  BY <1>3, <2>1, <2>2
<1>6. CASE ReadDays(w) \/ SetBlocked(w) \/ SetWorkCapacity(w) \/ RunCommand(w)
  <2>1. lastPk' = lastPk
    BY <1>6 DEF ReadDays, SetBlocked, SetWorkCapacity, RunCommand, tables
  <2>2. PICK kind, data, oldDay, forced, to : Begin(w, kind, 0, data, oldDay, forced, to)
    BY <1>6 DEF ReadDays, SetBlocked, SetWorkCapacity, RunCommand
  <2>3. 0 <= lastPk'
    BY <1>t, <2>1
  <2>4. QED  BY <1>3, <2>2, <2>3
<1>7. CASE SaveEntry(w) \/ ClearSelections(w) \/ ReadSelections(w) \/ CopyDone(w) \/ DeleteEntry(w)
  BY <1>1, <1>7 DEF SaveEntry, ClearSelections, ReadSelections, CopyDone, DeleteEntry, tables
<1>8. CASE AddSelection(w) \/ PickWorks(w) \/ RereadEntry(w) \/ CancelRaises(w) \/ Die(w)
  <2>1. lastPk' = lastPk
    BY <1>8 DEF AddSelection, PickWorks, RereadEntry, CancelRaises, Die, tables
  <2>2. Fail(w) \/ job' = job
    BY <1>8 DEF AddSelection, PickWorks, RereadEntry, CancelRaises, Die
  <2>3. QED  BY <1>1, <1>2, <2>1, <2>2 DEF Fail
<1>9. CASE CopyEntry(w)
  <2>1. job' = [job EXCEPT ![w].entry = lastPk + 1] /\ lastPk' = lastPk + 1
    BY <1>9 DEF CopyEntry
  <2>2. job'[w].entry = lastPk + 1
    BY <1>t, <2>1 DEF Jobs
  <2>3. QED  BY <1>t, <2>1, <2>2
<1>10. CASE \/ ReadEntries(w) \/ InsertSessions(w) \/ ListSessions(w) \/ BatchDone(w) \/ Skip(w)
            \/ FindOrphan(w) \/ FindCapacity(w) \/ StoreCapacity(w) \/ CancelSession(w)
  BY <1>1, <1>10 DEF ReadEntries, InsertSessions, ListSessions, BatchDone, Skip, FindOrphan,
                     FindCapacity, StoreCapacity, CancelSession, tables
<1>11. CASE Respond(w)
  BY <1>2, <1>11 DEF Respond, tables
<1>12. QED
  BY <1>a, <1>4, <1>5, <1>6, <1>7, <1>8, <1>9, <1>10, <1>11 DEF Request, Step

\* Every step keeps the types and what requests know.
LEMMA SoundKept == Sound /\ [Next]_vars => Sound'
<1> SUFFICES ASSUME Sound, [Next]_vars PROVE Sound'
  OBVIOUS
<1>1. TableTypes'
  BY SessionsKept, EntriesKept, OthersKept DEF TableTypes
<1>2. WorkTypes' /\ \A w \in Workers : Informed(w)'
  BY Movers
<1>3. KeysAreNumbered'
  <2>1. lastPk \in Nat /\ lastPk' \in Nat /\ lastPk <= lastPk'
    BY EntriesKept DEF Sound, TableTypes
  <2>2. ASSUME NEW v \in Workers, job'[v] = job[v] PROVE job'[v].entry <= lastPk'
    <3>1. job[v].entry \in Entries \union {0} /\ job[v].entry <= lastPk
      <4>1. job[v] \in Jobs /\ job[v].entry <= lastPk
        BY DEF Sound, WorkTypes, KeysAreNumbered
      <4>2. QED  BY <4>1 DEF Jobs
    <3>2. PICK n \in Entries \union {0} : n = job[v].entry
      BY <3>1
    <3>3. n \in Nat
      <4>1. Entries \subseteq Nat
        BY ScheduleAssumption
      <4>2. CASE n \in Entries
        BY <4>1, <4>2
      <4>3. CASE n = 0
        BY <4>3
      <4>4. QED  BY <4>2, <4>3
    <3>4. n <= lastPk'
      BY <2>1, <3>1, <3>2, <3>3
    <3>5. QED
      <4>1. job'[v].entry = n
        BY <2>2, <3>2
      <4>2. QED  BY <3>4, <4>1
  <2>3. ASSUME NEW v \in Workers PROVE job'[v].entry <= lastPk'
    BY <2>2, Movers, Numbers DEF OthersStand
  <2>4. QED  BY <2>3, EntriesKept DEF KeysAreNumbered
<1>4. BatchesExist'
  <2>1. ASSUME NEW v \in Workers, NEW s \in batch'[v] PROVE session'[s].status # "NONE"
    <3>1. s \in batch[v] \union Live
      BY <2>1, Movers, Lists DEF OthersStand
    <3>2. s \in Slots /\ session[s].status # "NONE"
      BY <3>1 DEF Sound, WorkTypes, BatchesExist, Live
    <3>3. QED  BY <3>2, SessionsKept
  <2>2. QED  BY <2>1 DEF BatchesExist
<1>5. QED  BY <1>1, <1>2, <1>3, <1>4 DEF Sound

\* The first entry and its sessions
LEMMA SoundInit == Init => Sound
<1> SUFFICES ASSUME Init PROVE Sound
  OBVIOUS
<1>1. PICK f \in Forms :
        /\ entry = [e \in Entries |-> IF e = 1 THEN Row(f.day, f.works, f.cap, NoWorker) ELSE NoEntry]
        /\ session = [s \in Slots |->
             IF s \in near /\ Matching(s) # {}
               THEN [status |-> "OPEN", cap |-> GeneratedCapacity(1, workCap[WorkOf[s]])]
               ELSE [status |-> "NONE", cap |-> 0]]
  BY DEF Init
<1>2. lastPk = 1 /\ workCap = WorkCapAtFirst /\ near \subseteq Slots /\ booked = {} /\ blocked = FALSE
      /\ served = 0 /\ calm = TRUE
  BY DEF Init
<1>3. f \in Wishes
  BY RowsExist
<1>4. Row(f.day, f.works, f.cap, NoWorker) \in Rows
  BY <1>3, RowsExist DEF Wishes
<1>5. entry \in [Entries -> {NoEntry} \union Rows] /\ workCap \in [Works -> Capacities]
      /\ MaxRequests \in Nat /\ lastPk \in Nat
  BY <1>1, <1>2, <1>4, ScheduleAssumption
<1>6. ASSUME NEW s \in Slots
      PROVE  session[s] \in SessionRows /\ (session[s].status = "NONE" <=> session[s].cap = 0)
  <2>1. CASE s \in near /\ Matching(s) # {}
    <3>1. 1 \in Entries /\ entry[1].cap = f.cap /\ f.cap \in Capacities
      BY <1>1, <1>3, ScheduleAssumption DEF Row, Wishes
    <3>2. workCap[WorkOf[s]] \in Capacities /\ 0 \notin Capacities
      BY <1>5, ScheduleAssumption
    <3>3. GeneratedCapacity(1, workCap[WorkOf[s]]) \in Capacities
      BY <3>1, <3>2 DEF GeneratedCapacity
    <3>4. session[s] = [status |-> "OPEN", cap |-> GeneratedCapacity(1, workCap[WorkOf[s]])]
      BY <1>1, <2>1
    <3>5. QED  BY <3>2, <3>3, <3>4 DEF SessionRows
  <2>2. CASE ~(s \in near /\ Matching(s) # {})
    <3>1. session[s] = [status |-> "NONE", cap |-> 0]
      BY <1>1, <2>2
    <3>2. QED  BY <3>1 DEF SessionRows
  <2>3. QED  BY <2>1, <2>2
<1>7. TableTypes
  <2>1. session \in [Slots -> SessionRows]
    BY <1>1, <1>6
  <2>2. served \in 0..MaxRequests /\ calm \in BOOLEAN
    BY <1>2, <1>5
  <2>3. booked \subseteq Slots /\ blocked \in BOOLEAN /\ near \subseteq Slots
    BY <1>2
  <2>4. \A s \in Slots : session[s].status = "NONE" <=> session[s].cap = 0
    BY <1>6
  <2>5. QED  BY <1>5, <2>1, <2>2, <2>3, <2>4 DEF TableTypes
<1>8. /\ pc = [w \in Workers |-> "idle"] /\ job = [w \in Workers |-> NoJob]
      /\ agenda = [w \in Workers |-> <<>>] /\ batch = [w \in Workers |-> {}]
      /\ loaded = [w \in Workers |-> NoLoad] /\ plan = [w \in Workers |-> NoLoad.cap]
  BY DEF Init
<1>9. WorkTypes
  BY <1>8, Idleness DEF WorkTypes
<1>10. \A w \in Workers : Informed(w)
  BY <1>8 DEF Informed, Editing, Filling, Looping
<1>11. KeysAreNumbered
  BY <1>1, <1>2, <1>8 DEF KeysAreNumbered, NoJob
<1>12. BatchesExist
  BY <1>8 DEF BatchesExist
<1>13. QED  BY <1>7, <1>9, <1>10, <1>11, <1>12 DEF Sound

\* Requests know their entries, agendas and batches, however they overlap.
THEOREM RequestsStaySound == Spec => []Sound
<1>1. QED  BY SoundInit, SoundKept, PTL DEF Spec

\* The variables keep their types, and a session that exists has a seat.
THEOREM ScheduleTypes == Spec => []TypeOK
<1>1. ASSUME Sound PROVE TypeOK
  <2>1. \A w \in Workers : job[w].kind \in Kinds /\ (job[w] = NoJob <=> pc[w] = "idle")
    BY <1>1 DEF Sound, Informed, WorkTypes, Jobs, NoJob
  <2>2. QED  BY <1>1, <2>1 DEF Sound, TableTypes, WorkTypes, TypeOK, Rows, SessionRows, Points, Plans, Kinds
<1>2. QED  BY <1>1, RequestsStaySound, PTL

\* However generation, synchronisation and capacity updates overlap, no cancelled
\* session is opened again.
THEOREM NeverReopened == Spec => CancelledStaysCancelled
<1>1. Sound /\ [Next]_vars
        => [\A s \in Slots : session[s].status = "CANCELLED" => session'[s].status = "CANCELLED"]_vars
  BY SessionsKept
<1>2. QED  BY <1>1, RequestsStaySound, PTL DEF Spec, CancelledStaysCancelled

-----------------------------------------------------------------------------
(* One request after another *)

\* Nobody attends to anything when idle.
LEMMA IdleIsNothing ==
  ASSUME NEW w \in Workers, Informed(w), pc[w] = "idle"
  PROVE  Current(w) /\ ~Closes(w) /\ \A s \in Slots : ~Attends(w, s)
<1>1. agenda[w] = <<>>
  BY DEF Informed
<1>2. 1..Len(agenda[w]) = {}
  BY <1>1
<1>3. QED  BY <1>1, <1>2 DEF Current, Closes, Attends, Touched, Editing, Filling, Looping

\* Every step but the beginning of a request is made by a worker that is busy.
LEMMA StepsAreBusy ==
  ASSUME NEW w \in Workers, Step(w)
  PROVE  pc[w] # "idle"
<1>1. CASE \/ SaveEntry(w) \/ ClearSelections(w) \/ AddSelection(w) \/ PickWorks(w)
           \/ RereadEntry(w) \/ ReadSelections(w) \/ CopyEntry(w) \/ CopyDone(w) \/ DeleteEntry(w)
  BY <1>1 DEF SaveEntry, ClearSelections, AddSelection, PickWorks, RereadEntry, ReadSelections,
              CopyEntry, CopyDone, DeleteEntry, Goto
<1>2. CASE \/ ReadEntries(w) \/ InsertSessions(w) \/ ListSessions(w) \/ BatchDone(w) \/ Skip(w)
           \/ FindOrphan(w) \/ FindCapacity(w) \/ StoreCapacity(w) \/ CancelSession(w)
           \/ CancelRaises(w) \/ Respond(w)
  BY <1>2 DEF ReadEntries, InsertSessions, ListSessions, BatchDone, Skip, FindOrphan, FindCapacity,
              StoreCapacity, CancelSession, CancelRaises, Respond, Doing, Goto
<1>3. QED  BY <1>1, <1>2 DEF Step

\* A request begins in order when nobody is at work.
LEMMA RequestsAreFirst ==
  ASSUME NEW w \in Workers, Request(w), calm'
  PROVE  \A v \in Workers : pc[v] = "idle"
<1>1. ASSUME NEW kind, NEW e, NEW data, NEW oldDay, NEW forced, NEW to,
             Begin(w, kind, e, data, oldDay, forced, to)
      PROVE  \A v \in Workers : pc[v] = "idle"
  BY <1>1 DEF Begin
<1>2. \E kind, e, data, oldDay, forced, to : Begin(w, kind, e, data, oldDay, forced, to)
  BY DEF Request, CreateEntry, LoadEntry, ReadDays, CountConflicts, SetBlocked, SetWorkCapacity,
         RunCommand
<1>3. QED  BY <1>1, <1>2

\* While requests come one after another, the one that moves is the only one at work.
LEMMA Solo ==
  ASSUME Inductive, NEW w \in Workers, Request(w) \/ Step(w), calm, calm'
  PROVE  (\A v \in Workers \ {w} : pc[v] = "idle") /\ Tidy(w)
<1>1. Alone /\ Current(w) /\ \A v \in Workers : Informed(v)
  BY DEF Inductive, InOrder, Sound
<1>2. \A v \in Workers \ {w} : pc[v] = "idle"
  BY <1>1, StepsAreBusy, RequestsAreFirst DEF Alone
<1>3. \A s \in Live : Fits(s, session[s].cap) \/ Attends(w, s)
  <2>1. ASSUME NEW s \in Live PROVE Fits(s, session[s].cap) \/ Attends(w, s)
    <3>1. s \in Slots
      BY DEF Live
    <3>2. Fits(s, session[s].cap) \/ \E v \in Workers : Attends(v, s)
      BY DEF Inductive, InOrder
    <3>3. QED  BY <1>1, <1>2, <3>1, <3>2, IdleIsNothing
  <2>2. QED  BY <2>1
<1>4. blocked /\ Live # {} => Closes(w)
  <2>1. blocked /\ Live # {} => \E v \in Workers : Closes(v)
    BY DEF Inductive, InOrder
  <2>2. QED  BY <1>1, <1>2, <2>1, IdleIsNothing
<1>5. QED  BY <1>1, <1>2, <1>3, <1>4 DEF Tidy

\* The order of the whole from that of the one at work
LEMMA InOrderAgain ==
  ASSUME Sound', NEW w \in Workers, OthersStand(w), \A v \in Workers \ {w} : pc[v] = "idle",
         Tidy(w)'
  PROVE  InOrder'
<1>1. \A v \in Workers \ {w} : pc'[v] = "idle" /\ Informed(v)'
  BY DEF OthersStand, Sound
<1>2. \A v \in Workers \ {w} : Current(v)'
  <2>1. ASSUME NEW v \in Workers \ {w} PROVE Current(v)'
    BY <1>1 DEF Current, Editing, Filling, Looping
  <2>2. QED  BY <2>1
<1>3. Alone'
  BY <1>1 DEF Alone
<1>4. (\A v \in Workers : Current(v)') /\ (blocked' /\ Live' # {} => Closes(w)')
      /\ \A s \in Live' : Fits(s, session[s].cap)' \/ Attends(w, s)'
  BY <1>2 DEF Tidy
<1>5. QED  BY <1>3, <1>4 DEF InOrder

\* What rows decide is the same when they are.
LEMMA SameRows ==
  ASSUME UNCHANGED <<entry, workCap>>
  PROVE  /\ \A s \in Slots : Matching(s)' = Matching(s)
         /\ \A s \in Slots, n \in Capacities \union {0} : Fits(s, n)' <=> Fits(s, n)
         /\ \A s \in Slots, task \in Tasks : Covers(task, s)' <=> Covers(task, s)
<1>1. entry' = entry /\ workCap' = workCap
  OBVIOUS
<1>2. \A s \in Slots : Matching(s)' = Matching(s)
  BY <1>1 DEF Matching
<1>3. \A s \in Slots, n \in Capacities \union {0} : Fits(s, n)' <=> Fits(s, n)
  BY <1>1, <1>2 DEF Fits
<1>4. \A s \in Slots, task \in Tasks : Covers(task, s)' <=> Covers(task, s)
  BY <1>2 DEF Covers
<1>5. QED  BY <1>2, <1>3, <1>4

\* A session on another day than an entry had and gets is as right as before.
LEMMA OtherDays ==
  ASSUME TableTypes, NEW e \in Entries, NEW x \in {NoEntry} \union Rows, NEW D,
         entry' = [entry EXCEPT ![e] = x], workCap' = workCap,
         entry[e] # NoEntry => entry[e].day \in D,
         x # NoEntry => x.day \in D
  PROVE  \A s \in Slots, n \in Capacities \union {0} :
           DayOf[s] \notin D /\ Fits(s, n) => Fits(s, n)'
<1> SUFFICES ASSUME NEW s \in Slots, NEW n \in Capacities \union {0}, DayOf[s] \notin D, Fits(s, n)
             PROVE  Fits(s, n)'
  OBVIOUS
<1>1. PICK f \in Matching(s) :
        /\ n \in {entry[f].cap, workCap[WorkOf[s]]}
        /\ n <= entry[f].cap /\ n <= workCap[WorkOf[s]]
  BY DEF Fits
<1>2. f \in Entries /\ f # e
  BY <1>1 DEF Matching
<1>3. entry'[f] = entry[f]
  BY <1>2 DEF TableTypes
<1>4. f \in Matching(s)'
  BY <1>1, <1>2, <1>3 DEF Matching
<1>5. QED  BY <1>1, <1>3, <1>4 DEF Fits

\* An edited day is attended to, other days are as they were.
LEMMA EditTidies ==
  ASSUME Sound, NEW w \in Workers, Tidy(w),
         pc[w] \in Editing \union {"idle"}, Touched(w) \subseteq Touched(w)',
         \A s \in Slots, n \in Capacities \union {0} :
           DayOf[s] \notin Touched(w)' /\ Fits(s, n) => Fits(s, n)',
         UNCHANGED <<session, blocked>>,
         Current(w)'
  PROVE  Tidy(w)'
<1>1. agenda[w] = <<>> /\ session \in [Slots -> SessionRows]
  BY DEF Sound, Informed, TableTypes
<1>2. 1..Len(agenda[w]) = {}
  BY <1>1
<1>3. session' = session /\ blocked' = blocked /\ Live' = Live /\ Live \subseteq Slots
  BY DEF Live
<1>4. ASSUME NEW s \in Live PROVE Fits(s, session[s].cap)' \/ Attends(w, s)'
  <2>1. s \in Slots /\ session[s].cap \in Capacities \union {0}
    BY <1>1, <1>3 DEF SessionRows
  <2>2. CASE DayOf[s] \in Touched(w)'
    BY <2>2 DEF Attends
  <2>3. CASE DayOf[s] \notin Touched(w)'
    <3>1. ~Attends(w, s)
      BY <1>2, <2>3 DEF Attends
    <3>2. Fits(s, session[s].cap)
      BY <3>1 DEF Tidy
    <3>3. PICK n \in Capacities \union {0} : n = session[s].cap
      BY <2>1
    <3>4. Fits(s, n)'
      BY <2>1, <2>3, <3>2, <3>3
    <3>5. QED  BY <1>3, <3>3, <3>4 DEF Fits
  <2>4. QED  BY <2>2, <2>3
<1>5. ~(blocked' /\ Live' # {})
  BY <1>3 DEF Tidy, Closes, Editing, Filling
<1>6. QED  BY <1>3, <1>4, <1>5 DEF Tidy

\* The first steps of requests keep order.
LEMMA RequestTidies ==
  ASSUME Sound, Sound', NEW w \in Workers, Tidy(w), Request(w), pc[w] = "idle"
  PROVE  Tidy(w)'
<1>t. /\ pc \in [Workers -> Points] /\ job \in [Workers -> Jobs]
      /\ agenda \in [Workers -> Seq(Tasks)] /\ TableTypes
  BY DEF Sound, WorkTypes
<1>u. Touched(w) = {} /\ agenda[w] = <<>>
  BY DEF Touched, Editing, Filling, Sound, Informed
<1>s. ASSUME UNCHANGED <<entry, workCap>>
      PROVE  \A s \in Slots, n \in Capacities \union {0} :
               DayOf[s] \notin Touched(w)' /\ Fits(s, n) => Fits(s, n)'
  BY <1>s, SameRows
<1>1. CASE CreateEntry(w)
  <2>0. PICK data \in Forms :
          /\ lastPk + 1 \in Entries
          /\ entry' = [entry EXCEPT ![lastPk + 1] = Row(data.day, {}, data.cap, NoWorker)]
          /\ Begin(w, "create", lastPk + 1, data, data.day, FALSE, "select")
          /\ UNCHANGED <<session, blocked, workCap>>
    BY <1>1 DEF CreateEntry
  <2>1. PICK x :
          /\ x = Row(data.day, {}, data.cap, NoWorker)
          /\ lastPk + 1 \in Entries
          /\ entry' = [entry EXCEPT ![lastPk + 1] = x]
          /\ Begin(w, "create", lastPk + 1, data, data.day, FALSE, "select")
          /\ UNCHANGED <<session, blocked, workCap>>
    BY <2>0
  <2>2. data \in Wishes /\ data.day \in Days /\ x \in Rows /\ x.day = data.day /\ x # NoEntry
    BY <2>1, RowsExist DEF Wishes, Row
  <2>3. pc'[w] = "select" /\ job'[w].data = data /\ job'[w].oldDay = data.day
        /\ job'[w].entry = lastPk + 1
    BY <1>t, <2>1 DEF Begin
  <2>4. entry[lastPk + 1] = NoEntry
    BY <1>t, <2>1 DEF Sound, KeysAreNumbered, TableTypes
  <2>5. data.day \in Touched(w)'
    BY <2>2, <2>3 DEF Touched, Editing, Filling
  <2>6. \A s \in Slots, n \in Capacities \union {0} :
          DayOf[s] \notin Touched(w)' /\ Fits(s, n) => Fits(s, n)'
    BY <1>t, <2>1, <2>2, <2>4, <2>5, OtherDays
  <2>7. entry'[lastPk + 1] = x
    BY <1>t, <2>1 DEF TableTypes
  <2>8. Current(w)'
    BY <2>2, <2>3, <2>7 DEF Current, Editing, Filling, Looping
  <2>9. QED  BY <1>u, <2>1, <2>6, <2>8, EditTidies
<1>2. CASE LoadEntry(w)
  <2>1. PICK e \in Entries, data \in Forms :
          /\ entry[e] # NoEntry
          /\ Begin(w, "update", e, data, entry[e].day, FALSE, "save")
          /\ UNCHANGED <<entry, session, blocked, workCap>>
    BY <1>2 DEF LoadEntry, tables
  <2>2. pc'[w] = "save" /\ job'[w].entry = e /\ job'[w].oldDay = entry[e].day
        /\ job'[w].kind = "update"
    BY <1>t, <2>1 DEF Begin
  <2>3. Current(w)'
    BY <2>1, <2>2 DEF Current, Editing, Filling, Looping
  <2>4. QED  BY <1>s, <1>u, <2>1, <2>3, EditTidies
<1>3. CASE ReadDays(w)
  <2>1. PICK e \in Entries, day \in Days :
          /\ Begin(w, "copy", 0, [day |-> day, works |-> entry[e].works, cap |-> entry[e].cap],
                   day, FALSE, "copy")
          /\ UNCHANGED <<entry, session, blocked, workCap>>
    BY <1>3 DEF ReadDays, tables
  <2>2. pc'[w] = "copy" /\ job'[w].oldDay = day /\ job'[w].data.day = day
    BY <1>t, <2>1 DEF Begin
  <2>3. Current(w)'
    BY <2>2 DEF Current, Editing, Filling, Looping
  <2>4. QED  BY <1>s, <1>u, <2>1, <2>3, EditTidies
<1>4. CASE CountConflicts(w)
  <2>1. PICK e \in Entries, forced \in BOOLEAN :
          /\ entry[e] # NoEntry
          /\ Begin(w, "delete", e, NoEntry, entry[e].day, forced, "delete")
          /\ UNCHANGED <<entry, session, blocked, workCap>>
    BY <1>4 DEF CountConflicts, tables
  <2>2. pc'[w] = "delete" /\ job'[w].entry = e /\ job'[w].oldDay = entry[e].day
        /\ job'[w].kind = "delete"
    BY <1>t, <2>1 DEF Begin
  <2>3. Current(w)'
    BY <2>1, <2>2 DEF Current, Editing, Filling, Looping
  <2>4. QED  BY <1>s, <1>u, <2>1, <2>3, EditTidies
<1>5. CASE RunCommand(w)
  <2>1. Begin(w, "command", 0, NoEntry, 0, FALSE, "busy")
        /\ UNCHANGED <<entry, session, blocked, workCap>>
    BY <1>5 DEF RunCommand, tables
  <2>2. Current(w)'
    BY <1>t, <2>1 DEF Begin, Current, Editing, Filling, Looping
  <2>3. QED  BY <1>s, <1>u, <2>1, <2>2, EditTidies
<1>6. ASSUME UNCHANGED session
      PROVE  /\ Live' = Live /\ (blocked => Live = {})
             /\ \A s \in Live : /\ s \in Slots /\ session[s].cap \in Capacities \union {0}
                                /\ Fits(s, session[s].cap)
  <2>1. Live' = Live
    BY <1>6 DEF Live
  <2>2. ~Closes(w) /\ \A s \in Slots : ~Attends(w, s)
    BY IdleIsNothing DEF Sound
  <2>3. Live \subseteq Slots
    BY DEF Live
  <2>4. \A s \in Slots : session[s].cap \in Capacities \union {0}
    BY <1>t DEF TableTypes, SessionRows
  <2>5. QED  BY <2>1, <2>2, <2>3, <2>4 DEF Tidy
<1>7. CASE SetBlocked(w)
  <2>1. /\ Begin(w, "room", 0, NoEntry, 0, FALSE, "busy") /\ blocked' = ~blocked
        /\ UNCHANGED <<entry, session, workCap>>
        /\ agenda' = [agenda EXCEPT ![w] =
             <<IF blocked THEN Task("generate", 0, Works) ELSE Task("close", 0, {})>>]
    BY <1>7 DEF SetBlocked
  <2>2. pc'[w] = "busy"
        /\ agenda'[w] = <<IF blocked THEN Task("generate", 0, Works) ELSE Task("close", 0, {})>>
    BY <1>t, <2>1 DEF Begin
  <2>3. Current(w)'
    BY <2>2 DEF Current, Editing, Filling, Looping
  <2>4. ASSUME blocked' PROVE Closes(w)'
    <3>1. agenda'[w] = <<Task("close", 0, {})>>
      BY <2>1, <2>2, <2>4, <1>t DEF TableTypes
    <3>2. agenda'[w] # <<>> /\ Head(agenda'[w]) = Task("close", 0, {})
      BY <3>1
    <3>3. QED  BY <2>2, <3>2 DEF Closes, Task
  <2>5. \A s \in Live : Fits(s, session[s].cap)'
    <3>1. ASSUME NEW s \in Live PROVE Fits(s, session[s].cap)'
      <4>1. PICK n \in Capacities \union {0} : n = session[s].cap /\ s \in Slots /\ Fits(s, n)
        BY <1>6, <2>1
      <4>2. Fits(s, n)'
        BY <2>1, <4>1, SameRows
      <4>3. QED  BY <2>1, <4>1, <4>2 DEF Fits
    <3>2. QED  BY <3>1
  <2>6. QED  BY <1>6, <2>1, <2>3, <2>4, <2>5 DEF Tidy
<1>8. CASE SetWorkCapacity(w)
  <2>1. PICK x \in Works, m \in Capacities :
          /\ Begin(w, "work", 0, NoEntry, 0, FALSE, "busy")
          /\ workCap' = [workCap EXCEPT ![x] = m]
          /\ agenda' = [agenda EXCEPT ![w] = <<Task("capacity", 0, {x})>>]
          /\ UNCHANGED <<entry, session, blocked>>
    BY <1>8 DEF SetWorkCapacity
  <2>2. pc'[w] = "busy" /\ agenda'[w] = <<Task("capacity", 0, {x})>>
    BY <1>t, <2>1 DEF Begin
  <2>3. Current(w)'
    BY <2>2 DEF Current, Editing, Filling, Looping
  <2>4. ASSUME NEW s \in Live PROVE Fits(s, session[s].cap)' \/ Attends(w, s)'
    <3>1. s \in Slots /\ Fits(s, session[s].cap) /\ session' = session
      BY <1>6, <2>1
    <3>2. Matching(s)' = Matching(s) /\ Matching(s) # {}
      BY <2>1, <3>1 DEF Matching, Fits
    <3>3. CASE WorkOf[s] = x
      <4>1. Len(agenda'[w]) = 1 /\ agenda'[w][1] = Task("capacity", 0, {x})
        BY <2>2
      <4>2. Covers(agenda[w][1], s)'
        BY <3>2, <3>3, <4>1 DEF Covers, Task
      <4>3. 1 \in 1..Len(agenda'[w])
        BY <4>1
      <4>4. QED  BY <2>2, <4>2, <4>3 DEF Attends
    <3>4. CASE WorkOf[s] # x
      <4>1. workCap'[WorkOf[s]] = workCap[WorkOf[s]]
        BY <1>t, <2>1, <3>1, <3>4, ScheduleAssumption DEF TableTypes
      <4>2. entry' = entry
        BY <2>1
      <4>3. QED  BY <3>1, <3>2, <4>1, <4>2 DEF Fits
    <3>5. QED  BY <3>3, <3>4
  <2>5. ~(blocked' /\ Live' # {})
    BY <1>6, <2>1
  <2>6. QED  BY <1>6, <2>1, <2>3, <2>4, <2>5 DEF Tidy
<1>9. QED  BY <1>1, <1>2, <1>3, <1>4, <1>5, <1>7, <1>8 DEF Request

\* An agenda that synchronises the edited days attends to them.
LEMMA AgendaTidies ==
  ASSUME Sound, NEW w \in Workers, Tidy(w), pc[w] \in Editing, pc'[w] = "busy",
         \A d \in Touched(w) :
           \E i \in 1..Len(agenda'[w]) : agenda'[w][i].op = "sync" /\ agenda'[w][i].day = d,
         \A s \in Slots, n \in Capacities \union {0} :
           DayOf[s] \notin Touched(w) /\ Fits(s, n) => Fits(s, n)',
         UNCHANGED <<session, blocked>>
  PROVE  Tidy(w)'
<1>1. agenda[w] = <<>> /\ session \in [Slots -> SessionRows]
  BY DEF Sound, Informed, TableTypes
<1>2. 1..Len(agenda[w]) = {}
  BY <1>1
<1>3. session' = session /\ blocked' = blocked /\ Live' = Live /\ Live \subseteq Slots
  BY DEF Live
<1>4. ASSUME NEW s \in Live PROVE Fits(s, session[s].cap)' \/ Attends(w, s)'
  <2>1. s \in Slots /\ session[s].cap \in Capacities \union {0}
    BY <1>1, <1>3 DEF SessionRows
  <2>2. CASE DayOf[s] \in Touched(w)
    <3>1. PICK i \in 1..Len(agenda'[w]) : agenda'[w][i].op = "sync" /\ agenda'[w][i].day = DayOf[s]
      BY <2>2
    <3>2. QED  BY <3>1 DEF Attends, Covers
  <2>3. CASE DayOf[s] \notin Touched(w)
    <3>1. ~Attends(w, s)
      BY <1>2, <2>3 DEF Attends
    <3>2. Fits(s, session[s].cap)
      BY <3>1 DEF Tidy
    <3>3. PICK n \in Capacities \union {0} : n = session[s].cap
      BY <2>1
    <3>4. Fits(s, n)'
      BY <2>1, <2>3, <3>2, <3>3
    <3>5. QED  BY <1>3, <3>3, <3>4 DEF Fits
  <2>4. QED  BY <2>2, <2>3
<1>5. ~(blocked' /\ Live' # {})
  BY <1>3 DEF Tidy, Closes, Editing, Filling
<1>6. Current(w)'
  BY DEF Current, Editing, Filling, Looping
<1>7. QED  BY <1>3, <1>4, <1>5, <1>6 DEF Tidy

\* What is called after an edit synchronises the old day and the new one.
LEMMA BothDays ==
  ASSUME NEW o \in Days, NEW d \in Days, NEW W \in SUBSET Works, NEW a, a = AfterEdit(o, d, W)
  PROVE  \A x \in {o, d} : \E i \in 1..Len(a) : a[i].op = "sync" /\ a[i].day = x
<1>1. PICK p, q, r : /\ p = (IF o # d THEN <<Task("sync", o, {})>> ELSE <<>>)
                     /\ q = (IF W # {} THEN <<Task("generate", d, W)>> ELSE <<>>)
                     /\ r = <<Task("sync", d, {})>>
  OBVIOUS
<1>2. Task("sync", o, {}) \in Tasks /\ Task("sync", d, {}) \in Tasks /\ Task("generate", d, W) \in Tasks
  BY DEF Task, Tasks
<1>3. p \in Seq(Tasks) /\ q \in Seq(Tasks) /\ r \in Seq(Tasks)
  BY <1>1, <1>2
<1>4. Len(r) = 1 /\ r[1] = Task("sync", d, {}) /\ (o # d => Len(p) = 1 /\ p[1] = Task("sync", o, {}))
  BY <1>1
<1>5. PICK k, m \in Nat : k = Len(p) /\ m = Len(q)
  BY <1>3, LenProperties
<1>6. PICK pq : pq = p \o q
  OBVIOUS
<1>7. /\ pq \in Seq(Tasks) /\ Len(pq) = k + m
      /\ \A i \in 1..k + m : pq[i] = IF i <= k THEN p[i] ELSE q[i - k]
  BY <1>3, <1>5, <1>6, ConcatProperties
<1>8. a = pq \o r
  BY <1>1, <1>6 DEF AfterEdit
<1>9. /\ Len(a) = k + m + 1
      /\ \A i \in 1..k + m + 1 : a[i] = IF i <= k + m THEN pq[i] ELSE r[i - (k + m)]
  <2>1. /\ Len(pq \o r) = Len(pq) + Len(r)
        /\ \A i \in 1..Len(pq) + Len(r) : (pq \o r)[i] = IF i <= Len(pq) THEN pq[i] ELSE r[i - Len(pq)]
    BY <1>3, <1>7, ConcatProperties
  <2>2. Len(pq) = k + m /\ Len(r) = 1
    BY <1>4, <1>7
  <2>3. QED  BY <1>8, <2>1, <2>2
<1>10. a[k + m + 1] = Task("sync", d, {}) /\ k + m + 1 \in 1..Len(a)
  <2>1. k + m + 1 \in 1..k + m + 1 /\ ~(k + m + 1 <= k + m) /\ (k + m + 1) - (k + m) = 1
    BY <1>5
  <2>2. QED  BY <1>4, <1>9, <2>1
<1>11. ASSUME o # d PROVE a[1] = Task("sync", o, {}) /\ 1 \in 1..Len(a)
  <2>1. k = 1 /\ p[1] = Task("sync", o, {})
    BY <1>4, <1>5, <1>11
  <2>2. 1 \in 1..k + m /\ 1 <= k /\ 1 \in 1..k + m + 1 /\ 1 <= k + m
    BY <1>5, <2>1
  <2>3. QED  BY <1>7, <1>9, <2>1, <2>2
<1>12. QED  BY <1>10, <1>11 DEF Task

\* The steps of edits keep order.
LEMMA EditStepsTidy ==
  ASSUME Sound, Sound', NEW w \in Workers, Tidy(w), calm',
         \/ SaveEntry(w) \/ ClearSelections(w) \/ AddSelection(w) \/ PickWorks(w)
         \/ RereadEntry(w) \/ ReadSelections(w) \/ CopyEntry(w) \/ CopyDone(w) \/ DeleteEntry(w)
  PROVE  Tidy(w)'
<1>t. /\ pc \in [Workers -> Points] /\ job \in [Workers -> Jobs]
      /\ agenda \in [Workers -> Seq(Tasks)] /\ TableTypes /\ Informed(w) /\ Current(w)
  BY DEF Sound, WorkTypes, Tidy
<1>u. \A e \in Entries : entry[e] # NoEntry => entry[e] \in Rows
  BY <1>t DEF TableTypes
<1>f. ~Fail(w)
  BY DEF Fail
<1>s. ASSUME UNCHANGED <<entry, workCap>>, NEW D
      PROVE  \A s \in Slots, n \in Capacities \union {0} : DayOf[s] \notin D /\ Fits(s, n) => Fits(s, n)'
  BY <1>s, SameRows
<1>1. ASSUME pc[w] \in Editing \ {"copy", "delete"}, NEW p \in Filling, pc'[w] = p, job'[w] = job[w],
             NEW x \in Rows, x.day = job[w].data.day, entry' = [entry EXCEPT ![job[w].entry] = x],
             UNCHANGED <<session, blocked, workCap>>
      PROVE  Tidy(w)'
  <2>1. PICK e \in Entries : e = job[w].entry
    BY <1>1, <1>t DEF Informed
  <2>2. job[w].data \in Wishes /\ job[w].oldDay \in Days
    BY <1>1, <1>t DEF Informed
  <2>3. Touched(w) \subseteq Touched(w)' /\ {job[w].oldDay, job[w].data.day} \subseteq Touched(w)'
    <3>1. job[w].data.day \in Days
      BY <2>2 DEF Wishes
    <3>2. p \in Editing /\ p \in {"save"} \union Filling
      BY DEF Editing
    <3>3. pc'[w] = p /\ job'[w] = job[w]
      BY <1>1
    <3>4. job[w].oldDay \in Touched(w)'
      BY <2>2, <3>2, <3>3 DEF Touched
    <3>7. job[w].data.day \in Touched(w)'
      BY <3>1, <3>2, <3>3 DEF Touched
    <3>5. Touched(w) \subseteq {job[w].oldDay, job[w].data.day}
      BY DEF Touched
    <3>6. QED  BY <3>4, <3>5, <3>7
  <2>4. entry[e] # NoEntry /\ entry[e].day \in Touched(w)' /\ x.day \in Touched(w)'
    BY <1>1, <1>t, <2>1, <2>3 DEF Current, Editing, Filling
  <2>5. \A s \in Slots, n \in Capacities \union {0} :
          DayOf[s] \notin Touched(w)' /\ Fits(s, n) => Fits(s, n)'
    BY <1>1, <1>t, <2>1, <2>4, OtherDays
  <2>6. entry'[e] = x /\ x # NoEntry
    BY <1>1, <1>t, <2>1, RowsExist DEF TableTypes
  <2>7. Current(w)'
    <3>1. p # "save" /\ p # "delete" /\ p # "insert" /\ p \notin Looping /\ p \in Editing
      BY <1>1 DEF Editing, Filling, Looping
    <3>2. job[w].kind \in {"create", "copy"} => job[w].oldDay = job[w].data.day
      BY <1>1, <1>t DEF Current, Editing
    <3>3. QED  BY <1>1, <2>1, <2>6, <3>1, <3>2 DEF Current, Looping
  <2>8. QED  BY <1>1, <2>3, <2>5, <2>7, EditTidies
<1>2. ASSUME pc[w] \in Filling, NEW p \in Filling, pc'[w] = p, job'[w] = job[w],
             NEW W \in SUBSET Works, NEW v \in Workers \union {NoWorker},
             SetWorks(job[w].entry, W, v), UNCHANGED <<session, blocked, workCap>>
      PROVE  Tidy(w)'
  <2>1. PICK e \in Entries : e = job[w].entry
    BY <1>2, <1>t DEF Informed, Editing, Filling
  <2>2. entry[e] # NoEntry /\ entry[e].day = job[w].data.day /\ entry[e] \in Rows
    BY <1>2, <1>t, <1>u, <2>1 DEF Current
  <2>3. PICK x : x = [entry[e] EXCEPT !.works = W, !.by = v]
    OBVIOUS
  <2>4. x \in Rows /\ x.day = job[w].data.day
    BY <2>2, <2>3 DEF Rows
  <2>5. entry' = [[entry EXCEPT ![e].works = W] EXCEPT ![e].by = v]
    BY <1>2, <2>1 DEF SetWorks
  <2>6. entry' = [entry EXCEPT ![e] = x]
    BY <1>t, <2>2, <2>3, <2>5 DEF TableTypes, Rows
  <2>7. pc[w] \in Editing \ {"copy", "delete"}
    BY <1>2 DEF Editing, Filling
  <2>8. QED  BY <1>1, <1>2, <2>1, <2>4, <2>6, <2>7
<1>3. CASE SaveEntry(w)
  <2>1. pc[w] = "save" /\ pc'[w] = "clear" /\ job' = job /\ UNCHANGED <<session, blocked, workCap>>
    BY <1>3, <1>t DEF SaveEntry, Goto
  <2>2. job[w].entry \in Entries /\ job[w].data \in Wishes /\ entry[job[w].entry] # NoEntry
    BY <1>t, <2>1 DEF Informed, Current, Editing, Filling
  <2>3. PICK x : x = Row(job[w].data.day, entry[job[w].entry].works, job[w].data.cap,
                         entry[job[w].entry].by)
    OBVIOUS
  <2>4. entry' = [entry EXCEPT ![job[w].entry] = x]
    BY <1>3, <2>2, <2>3 DEF SaveEntry
  <2>5. x.day = job[w].data.day
    BY <2>3 DEF Row
  <2>6. x \in Rows
    <3>1. entry[job[w].entry].works \in SUBSET Works
          /\ entry[job[w].entry].by \in Workers \union {NoWorker}
      BY <1>u, <2>2 DEF Rows
    <3>2. QED  BY <2>2, <2>3, <3>1, RowsExist
  <2>7. pc[w] \in Editing \ {"copy", "delete"} /\ "clear" \in Filling
    BY <2>1 DEF Editing, Filling
  <2>8. QED  BY <1>1, <2>1, <2>4, <2>5, <2>6, <2>7
<1>4. CASE ClearSelections(w)
  <2>1. pc[w] = "clear" /\ pc'[w] = "select" /\ job' = job /\ UNCHANGED <<session, blocked, workCap>>
    BY <1>4, <1>t DEF ClearSelections, Goto
  <2>2. pc[w] \in Filling /\ "select" \in Filling
    BY <2>1 DEF Filling
  <2>3. entry[job[w].entry] # NoEntry
    BY <1>t, <2>2 DEF Current
  <2>4. SetWorks(job[w].entry, {}, NoWorker)
    BY <1>4, <2>3 DEF ClearSelections
  <2>5. QED  BY <1>2, <2>1, <2>2, <2>4
<1>5. CASE AddSelection(w)
  <2>1. pc[w] = "select" /\ pc'[w] = "pick" /\ job' = job /\ UNCHANGED <<session, blocked, workCap>>
        /\ SetWorks(job[w].entry, Works, w)
    BY <1>5, <1>f, <1>t DEF AddSelection, Goto
  <2>2. pc[w] \in Filling /\ "pick" \in Filling
    BY <2>1 DEF Filling
  <2>3. QED  BY <1>2, <2>1, <2>2
<1>6. CASE PickWorks(w)
  <2>1. pc[w] = "pick" /\ pc'[w] = "saved" /\ job' = job /\ UNCHANGED <<session, blocked, workCap>>
        /\ SetWorks(job[w].entry, job[w].data.works, NoWorker)
    BY <1>6, <1>f, <1>t DEF PickWorks, Goto
  <2>2. pc[w] \in Filling /\ "saved" \in Filling
    BY <2>1 DEF Filling
  <2>3. job[w].data.works \in SUBSET Works
    BY <1>t, <2>1 DEF Informed, Editing, Filling, Wishes
  <2>4. QED  BY <1>2, <2>1, <2>2, <2>3
<1>7. CASE CopyEntry(w)
  <2>1. PICK p, x : /\ p = IF job[w].data.works = {} THEN "saved" ELSE "select"
                    /\ x = Row(job[w].data.day, {}, job[w].data.cap, NoWorker)
    OBVIOUS
  <2>2. /\ pc[w] = "copy" /\ pc'[w] = p /\ lastPk + 1 \in Entries
        /\ entry' = [entry EXCEPT ![lastPk + 1] = x]
        /\ UNCHANGED <<session, blocked, workCap>>
        /\ job' = [job EXCEPT ![w].entry = lastPk + 1]
    BY <1>7, <1>t, <2>1 DEF CopyEntry, Goto
  <2>3. job'[w].entry = lastPk + 1 /\ job'[w].data = job[w].data /\ job'[w].kind = job[w].kind
        /\ job'[w].oldDay = job[w].oldDay
    BY <1>t, <2>2 DEF Jobs
  <2>4. job[w].data \in Wishes /\ job[w].oldDay \in Days
    BY <1>t, <2>2 DEF Informed, Editing
  <2>5. p \in Filling /\ x \in Rows /\ x # NoEntry /\ x.day = job[w].data.day
    BY <2>1, <2>4, RowsExist DEF Filling, Row
  <2>6. Touched(w) \subseteq Touched(w)' /\ x.day \in Touched(w)'
    BY <2>2, <2>3, <2>4, <2>5 DEF Touched, Editing, Filling, Wishes
  <2>7. entry[lastPk + 1] = NoEntry
    BY <1>t, <2>2 DEF Sound, KeysAreNumbered, TableTypes
  <2>8. \A s \in Slots, n \in Capacities \union {0} :
          DayOf[s] \notin Touched(w)' /\ Fits(s, n) => Fits(s, n)'
    BY <1>t, <2>2, <2>5, <2>6, <2>7, OtherDays
  <2>9. entry'[lastPk + 1] = x
    BY <1>t, <2>2 DEF TableTypes
  <2>10. Current(w)'
    <3>1. p # "save" /\ p # "delete" /\ p # "insert" /\ p \notin Looping
      BY <2>5 DEF Filling, Looping
    <3>2. job[w].kind \in {"create", "copy"} => job[w].oldDay = job[w].data.day
      BY <1>t, <2>2 DEF Current, Editing
    <3>3. entry'[job'[w].entry] = x /\ x.day = job'[w].data.day
      BY <2>3, <2>5, <2>9
    <3>4. job'[w].kind \in {"create", "copy"} => job'[w].oldDay = job'[w].data.day
      BY <2>3, <3>2
    <3>5. pc'[w] = p /\ x # NoEntry
      BY <2>2, <2>5
    <3>6. QED  BY <3>1, <3>3, <3>4, <3>5 DEF Current, Looping
  <2>11. pc[w] \in Editing
    BY <2>2 DEF Editing
  <2>12. QED  BY <2>2, <2>6, <2>8, <2>10, <2>11, EditTidies
<1>8. CASE RereadEntry(w)
  <2>1. /\ pc[w] = "saved" /\ pc'[w] = "busy" /\ UNCHANGED <<entry, session, blocked, workCap>>
        /\ entry[job[w].entry] # NoEntry
        /\ agenda'[w] = AfterEdit(job[w].oldDay, entry[job[w].entry].day, entry[job[w].entry].works)
    BY <1>8, <1>f, <1>t DEF RereadEntry, Goto, tables
  <2>2. /\ job[w].entry \in Entries /\ job[w].oldDay \in Days /\ job[w].data \in Wishes
        /\ entry[job[w].entry].day = job[w].data.day
    BY <1>t, <2>1 DEF Informed, Current, Editing, Filling
  <2>3. entry[job[w].entry].day \in Days /\ entry[job[w].entry].works \in SUBSET Works
    BY <1>u, <2>1, <2>2 DEF Rows
  <2>4. Touched(w) \subseteq {job[w].oldDay, entry[job[w].entry].day}
    BY <2>2 DEF Touched
  <2>5. \A d \in Touched(w) :
          \E i \in 1..Len(agenda'[w]) : agenda'[w][i].op = "sync" /\ agenda'[w][i].day = d
    <3>1. PICK o \in Days, d \in Days, W \in SUBSET Works :
            /\ o = job[w].oldDay /\ d = entry[job[w].entry].day /\ W = entry[job[w].entry].works
      BY <2>2, <2>3
    <3>2. agenda'[w] = AfterEdit(o, d, W) /\ Touched(w) \subseteq {o, d}
      BY <2>1, <2>4, <3>1
    <3>3. QED  BY <3>2, BothDays
  <2>6. QED  BY <1>s, <2>1, <2>5, AgendaTidies DEF Editing, Filling
<1>9. CASE ReadSelections(w)
  <2>1. PICK W : W = IF entry[job[w].entry] = NoEntry THEN {} ELSE entry[job[w].entry].works
    OBVIOUS
  <2>2. /\ pc[w] = "saved" /\ pc'[w] = "busy" /\ UNCHANGED <<entry, session, blocked, workCap>>
        /\ job[w].kind = "create"
        /\ agenda'[w] = AfterEdit(job[w].oldDay, job[w].oldDay, W)
    BY <1>9, <1>t, <2>1 DEF ReadSelections, Goto, tables
  <2>3. /\ job[w].entry \in Entries /\ job[w].oldDay \in Days
        /\ job[w].oldDay = job[w].data.day
    BY <1>t, <2>2 DEF Informed, Current, Editing, Filling
  <2>4. W \in SUBSET Works
    BY <1>u, <2>1, <2>3 DEF Rows
  <2>5. Touched(w) \subseteq {job[w].oldDay}
    BY <2>3 DEF Touched
  <2>6. \A d \in Touched(w) :
          \E i \in 1..Len(agenda'[w]) : agenda'[w][i].op = "sync" /\ agenda'[w][i].day = d
    BY <2>2, <2>3, <2>4, <2>5, BothDays
  <2>7. QED  BY <1>s, <2>2, <2>6, AgendaTidies DEF Editing, Filling
<1>10. CASE CopyDone(w)
  <2>1. /\ pc[w] = "saved" /\ pc'[w] = "busy" /\ UNCHANGED <<entry, session, blocked, workCap>>
        /\ job[w].kind = "copy"
        /\ agenda'[w] = <<Task("generate", 0, Works), Task("sync", job[w].oldDay, {})>>
    BY <1>10, <1>t DEF CopyDone, Goto, tables
  <2>2. job[w].oldDay = job[w].data.day
    BY <1>t, <2>1 DEF Current, Editing, Filling
  <2>3. Touched(w) \subseteq {job[w].oldDay}
    BY <2>2 DEF Touched
  <2>4. 2 \in 1..Len(agenda'[w]) /\ agenda'[w][2] = Task("sync", job[w].oldDay, {})
    BY <2>1
  <2>5. \A d \in Touched(w) :
          \E i \in 1..Len(agenda'[w]) : agenda'[w][i].op = "sync" /\ agenda'[w][i].day = d
    BY <2>3, <2>4 DEF Task
  <2>6. QED  BY <1>s, <2>1, <2>5, AgendaTidies DEF Editing, Filling
<1>11. CASE DeleteEntry(w)
  <2>1. /\ pc[w] = "delete" /\ pc'[w] = "busy" /\ UNCHANGED <<session, blocked, workCap>>
        /\ entry' = [entry EXCEPT ![job[w].entry] = NoEntry]
        /\ agenda'[w] = <<Task("sync", job[w].oldDay, {})>>
    BY <1>11, <1>t DEF DeleteEntry, Goto
  <2>2. PICK e \in Entries : e = job[w].entry
    BY <1>t, <2>1 DEF Informed, Editing
  <2>3. job[w].oldDay \in Days /\ entry[e].day = job[w].oldDay
    BY <1>t, <2>1, <2>2 DEF Informed, Current, Editing
  <2>4. Touched(w) \subseteq {job[w].oldDay} /\ job[w].oldDay \in Touched(w)
    <3>1. pc[w] \notin {"save"} \union Filling /\ pc[w] \in Editing
      BY <2>1 DEF Editing, Filling
    <3>2. job[w].oldDay \in Touched(w)
      BY <2>3, <3>1 DEF Touched
    <3>3. Touched(w) \subseteq {job[w].oldDay}
      BY <3>1 DEF Touched
    <3>4. QED  BY <3>2, <3>3
  <2>5. 1 \in 1..Len(agenda'[w]) /\ agenda'[w][1] = Task("sync", job[w].oldDay, {})
    BY <2>1
  <2>6. \A d \in Touched(w) :
          \E i \in 1..Len(agenda'[w]) : agenda'[w][i].op = "sync" /\ agenda'[w][i].day = d
    BY <2>4, <2>5 DEF Task
  <2>7. entry[e].day \in Touched(w) /\ entry' = [entry EXCEPT ![e] = NoEntry] /\ workCap' = workCap
    BY <2>1, <2>2, <2>3, <2>4
  <2>8. \A s \in Slots, n \in Capacities \union {0} :
          DayOf[s] \notin Touched(w) /\ Fits(s, n) => Fits(s, n)'
    BY <1>t, <2>7, OtherDays
  <2>9. QED  BY <2>1, <2>6, <2>8, AgendaTidies DEF Editing
<1>12. QED  BY <1>3, <1>4, <1>5, <1>6, <1>7, <1>8, <1>9, <1>10, <1>11

\* What the agenda has for a session, the head of it or the rest
LEMMA Upcoming ==
  ASSUME Sound, NEW w \in Workers, pc[w] \notin Editing, NEW s \in Slots, Attends(w, s)
  PROVE  /\ agenda[w] # <<>> /\ agenda[w] \in Seq(Tasks) /\ Len(agenda[w]) \in Nat
         /\ \/ \E i \in 2..Len(agenda[w]) : Covers(agenda[w][i], s)
            \/ /\ Covers(Head(agenda[w]), s)
               /\ pc[w] \in {"busy", "insert"} \/ s \in batch[w]
<1>1. agenda[w] \in Seq(Tasks)
  BY DEF Sound, WorkTypes
<1>2. PICK n \in Nat : n = Len(agenda[w])
  BY <1>1, LenProperties
<1>3. Touched(w) = {}
  BY DEF Touched, Editing, Filling
<1>4. PICK i \in 1..n :
        Covers(agenda[w][i], s) /\ (i > 1 \/ pc[w] \in {"busy", "insert"} \/ s \in batch[w])
  BY <1>2, <1>3 DEF Attends
<1>5. agenda[w] # <<>>
  BY <1>1, <1>2, <1>4
<1>6. CASE i = 1
  <2>1. agenda[w][1] = Head(agenda[w])
    BY <1>1, <1>5
  <2>2. QED  BY <1>1, <1>2, <1>4, <1>5, <1>6, <2>1
<1>7. CASE i # 1
  <2>1. i \in 2..n
    BY <1>2, <1>4, <1>7
  <2>2. QED  BY <1>1, <1>2, <1>4, <1>5, <2>1
<1>8. QED  BY <1>6, <1>7

\* A worker that keeps its agenda, and a session in its batch, still attends to it.
LEMMA AttendsOn ==
  ASSUME Sound, NEW w \in Workers, pc[w] \notin Editing, NEW s \in Slots, Attends(w, s),
         entry' = entry, agenda'[w] = agenda[w],
         /\ Covers(Head(agenda[w]), s)
         /\ pc[w] \in {"busy", "insert"} \/ s \in batch[w]
         => pc'[w] \in {"busy", "insert"} \/ s \in batch'[w]
  PROVE  Attends(w, s)'
<1>1. \A task : Covers(task, s)' <=> Covers(task, s)
  BY DEF Covers, Matching
<1>2. PICK n \in Nat : n = Len(agenda[w])
  BY Upcoming
<1>3. agenda[w] \in Seq(Tasks) /\ agenda[w] # <<>>
  BY Upcoming
<1>4. CASE \E i \in 2..n : Covers(agenda[w][i], s)
  <2>1. PICK i \in 2..n : Covers(agenda[w][i], s)
    BY <1>4
  <2>2. i \in 1..n /\ i > 1
    BY <1>2, <2>1
  <2>3. Covers(agenda[w][i], s)'
    BY <1>1, <2>1
  <2>4. QED  BY <1>2, <2>2, <2>3 DEF Attends
<1>5. CASE Covers(Head(agenda[w]), s) /\ (pc[w] \in {"busy", "insert"} \/ s \in batch[w])
  <2>1. 1 \in 1..n /\ agenda[w][1] = Head(agenda[w])
    BY <1>2, <1>3
  <2>2. Covers(agenda[w][1], s)'
    BY <1>1, <1>5, <2>1
  <2>3. QED  BY <1>2, <1>5, <2>1, <2>2 DEF Attends
<1>6. QED  BY <1>2, <1>4, <1>5, Upcoming

\* One that is done with a task attends to what the others cover.
LEMMA AttendsNext ==
  ASSUME Sound, NEW w \in Workers, pc[w] \notin Editing, NEW s \in Slots, Attends(w, s),
         entry' = entry, pc'[w] = "busy", agenda'[w] = Tail(agenda[w]),
         ~ /\ Covers(Head(agenda[w]), s)
           /\ pc[w] \in {"busy", "insert"} \/ s \in batch[w]
  PROVE  Attends(w, s)'
<1>1. \A task : Covers(task, s)' <=> Covers(task, s)
  BY DEF Covers, Matching
<1>2. PICK n \in Nat : n = Len(agenda[w])
  BY Upcoming
<1>3. agenda[w] \in Seq(Tasks) /\ agenda[w] # <<>>
  BY Upcoming
<1>4. PICK i \in 2..n : Covers(agenda[w][i], s)
  BY <1>2, Upcoming
<1>5. Len(agenda'[w]) = n - 1 /\ \A j \in 1..(n - 1) : agenda'[w][j] = agenda[w][j + 1]
  BY <1>2, <1>3, HeadTailProperties
<1>6. i - 1 \in 1..(n - 1) /\ (i - 1) + 1 = i
  BY <1>2, <1>4
<1>7. agenda'[w][i - 1] = agenda[w][i]
  BY <1>5, <1>6
<1>8. Covers(agenda[w][i - 1], s)'
  BY <1>1, <1>4, <1>7
<1>9. QED  BY <1>5, <1>6, <1>8 DEF Attends

\* A step over sessions makes one right or goes on attending to it.
LEMMA LoopTidies ==
  ASSUME Sound, NEW w \in Workers, Tidy(w), UNCHANGED <<entry, blocked, workCap>>, Current(w)',
         \A s \in Live' :
           \/ Fits(s, session'[s].cap)
           \/ /\ s \in Live /\ session'[s].cap = session[s].cap
              /\ Attends(w, s) => Attends(w, s)',
         blocked => Live' \subseteq Live,
         Closes(w) => Closes(w)' \/ Live' = {}
  PROVE  Tidy(w)'
<1>1. entry' = entry /\ workCap' = workCap /\ blocked' = blocked
  OBVIOUS
<1>2. ASSUME NEW s \in Slots, Fits(s, session'[s].cap) PROVE Fits(s, session[s].cap)'
  BY <1>1, <1>2 DEF Fits, Matching
<1>3. Live' \subseteq Slots
  BY DEF Live
<1>4. ASSUME NEW s \in Live' PROVE Fits(s, session[s].cap)' \/ Attends(w, s)'
  <2>1. CASE Fits(s, session'[s].cap)
    BY <1>2, <1>3, <2>1
  <2>2. CASE /\ s \in Live /\ session'[s].cap = session[s].cap
             /\ Attends(w, s) => Attends(w, s)'
    <3>1. Fits(s, session'[s].cap) \/ Attends(w, s)
      BY <2>2 DEF Tidy
    <3>2. QED  BY <1>2, <1>3, <2>2, <3>1
  <2>3. QED  BY <2>1, <2>2
<1>5. blocked' /\ Live' # {} => Closes(w)'
  BY <1>1 DEF Tidy
<1>6. QED  BY <1>4, <1>5 DEF Tidy

\* The steps of generation and of the ends of tasks keep order.
LEMMA TaskStepsTidy ==
  ASSUME Sound, Sound', NEW w \in Workers, Tidy(w),
         ReadEntries(w) \/ InsertSessions(w) \/ ListSessions(w) \/ BatchDone(w) \/ Respond(w)
  PROVE  Tidy(w)'
<1>t. /\ WorkTypes /\ TableTypes /\ Informed(w) /\ Current(w)
      /\ pc \in [Workers -> Points] /\ agenda \in [Workers -> Seq(Tasks)]
      /\ batch \in [Workers -> SUBSET Slots] /\ loaded \in [Workers -> Loads]
      /\ plan \in [Workers -> Plans]
  BY DEF Sound, WorkTypes, Tidy
<1>l. Live \subseteq Slots
  BY DEF Live
<1>1. CASE ReadEntries(w)
  <2>1. /\ pc[w] = "busy" /\ agenda[w] # <<>> /\ Head(agenda[w]).op = "generate"
        /\ pc'[w] = "insert" /\ UNCHANGED <<entry, session, blocked, workCap, agenda>>
    BY <1>1, <1>t DEF ReadEntries, Doing, tables
  <2>2. ASSUME NEW s \in Slots, plan'[w][s] > 0 PROVE ~blocked' /\ Fits(s, plan'[w][s])
    <3>1. PICK by \in [Slots -> Entries] :
            /\ \A x \in Slots : Matching(x) # {} => by[x] \in Matching(x)
            /\ plan' = [plan EXCEPT ![w] = [x \in Slots |->
                 IF Generates(x, Head(agenda[w]).works)
                   THEN GeneratedCapacity(by[x], workCap[WorkOf[x]])
                   ELSE 0]]
      BY <1>1 DEF ReadEntries
    <3>2. plan'[w][s] = IF Generates(s, Head(agenda[w]).works)
                          THEN GeneratedCapacity(by[s], workCap[WorkOf[s]])
                          ELSE 0
      BY <1>t, <3>1
    <3>3. CASE Generates(s, Head(agenda[w]).works)
      <4>1. ~blocked' /\ by[s] \in Matching(s) /\ plan'[w][s] = GeneratedCapacity(by[s], workCap[WorkOf[s]])
        BY <2>1, <3>1, <3>2, <3>3 DEF Generates
      <4>2. workCap[WorkOf[s]] \in Capacities
        BY <1>t, ScheduleAssumption DEF TableTypes
      <4>3. QED  BY <1>t, <4>1, <4>2, Generated
    <3>4. CASE ~Generates(s, Head(agenda[w]).works)
      <4>1. plan'[w][s] = 0
        BY <3>2, <3>4
      <4>2. QED  BY <2>2, <4>1
    <3>5. QED  BY <3>3, <3>4
  <2>3. Current(w)'
    <3>1. \A s \in Slots : plan'[w][s] > 0 => ~blocked' /\ Fits(s, plan[w][s])'
      BY <2>1, <2>2 DEF Fits, Matching
    <3>2. QED  BY <2>1, <3>1 DEF Current, Editing, Filling, Looping
  <2>4. ASSUME NEW s \in Live, Attends(w, s) PROVE Attends(w, s)'
    <3>1. pc[w] \notin Editing /\ s \in Slots
      BY <1>l, <2>1 DEF Editing, Filling
    <3>2. QED  BY <2>1, <2>4, <3>1, AttendsOn
  <2>5. Live' = Live /\ session' = session
    BY <2>1 DEF Live
  <2>6. ~Closes(w)
    BY <2>1 DEF Closes
  <2>7. QED  BY <2>1, <2>3, <2>4, <2>5, <2>6, LoopTidies
<1>2. CASE InsertSessions(w)
  <2>1. /\ pc[w] = "insert" /\ agenda[w] # <<>> /\ Head(agenda[w]).op = "generate"
        /\ pc'[w] = "busy" /\ agenda'[w] = Tail(agenda[w]) /\ UNCHANGED <<entry, blocked, workCap>>
    BY <1>2, <1>t DEF InsertSessions, TaskDone, Informed
  <2>2. Current(w)'
    BY <2>1 DEF Current, Editing, Filling, Looping
  <2>3. ASSUME NEW s \in Live, Attends(w, s) PROVE Attends(w, s)'
    <3>1. pc[w] \notin Editing /\ s \in Slots /\ ~Covers(Head(agenda[w]), s)
      BY <1>l, <2>1 DEF Editing, Filling, Covers
    <3>2. QED  BY <2>1, <2>3, <3>1, AttendsNext
  <2>4. ASSUME NEW s \in Live'
        PROVE  \/ ~blocked /\ Fits(s, session'[s].cap)
               \/ s \in Live /\ session'[s].cap = session[s].cap
    <3>1. s \in Slots
      BY DEF Live
    <3>2. CASE plan[w][s] > 0 /\ session[s].status = "NONE"
      <4>1. session'[s] = [status |-> "OPEN", cap |-> plan[w][s]]
        BY <1>2, <3>1, <3>2 DEF InsertSessions
      <4>2. session'[s].cap = plan[w][s]
        BY <4>1
      <4>3. QED  BY <1>t, <2>1, <3>1, <3>2, <4>2 DEF Current
    <3>3. CASE ~(plan[w][s] > 0 /\ session[s].status = "NONE")
      <4>1. session'[s] = session[s]
        BY <1>2, <3>1, <3>3 DEF InsertSessions
      <4>2. session'[s].status = "OPEN"
        BY <2>4 DEF Live
      <4>3. QED  BY <3>1, <4>1, <4>2 DEF Live
    <3>4. QED  BY <3>2, <3>3
  <2>5. blocked => Live' \subseteq Live
    BY <2>4
  <2>6. ~Closes(w)
    BY <2>1 DEF Closes
  <2>7. QED  BY <2>1, <2>2, <2>3, <2>4, <2>5, <2>6, LoopTidies
<1>3. CASE ListSessions(w)
  <2>1. /\ pc[w] = "busy" /\ agenda[w] # <<>> /\ agenda' = agenda
        /\ Head(agenda[w]).op \in {"sync", "capacity", "close"}
        /\ pc'[w] = (IF Head(agenda[w]).op = "close" THEN "cancel" ELSE "match")
        /\ batch'[w] = Listed(Head(agenda[w]))
        /\ UNCHANGED <<entry, session, blocked, workCap>>
    BY <1>3, <1>t DEF ListSessions, Doing, tables
  <2>2. loaded'[w] = [cap |-> [s \in Slots |-> session[s].cap], work |-> workCap]
    BY <1>3, <1>t DEF ListSessions
  <2>3. batch'[w] \subseteq Slots
    BY DEF Sound, WorkTypes
  <2>4. loaded'[w].work = workCap' /\ \A s \in batch'[w] : loaded'[w].cap[s] = session'[s].cap
    BY <2>1, <2>2, <2>3
  <2>5. Current(w)'
    BY <2>1, <2>4 DEF Current, Editing, Filling
  <2>6. ASSUME NEW s \in Live, Attends(w, s) PROVE Attends(w, s)'
    <3>1. pc[w] \notin Editing /\ s \in Slots
      BY <1>l, <2>1 DEF Editing, Filling
    <3>2. ASSUME Covers(Head(agenda[w]), s) PROVE s \in batch'[w]
      BY <2>1, <2>6, <3>2 DEF Covers, Listed
    <3>3. QED  BY <2>1, <2>6, <3>1, <3>2, AttendsOn
  <2>7. Live' = Live /\ session' = session
    BY <2>1 DEF Live
  <2>8. Closes(w) => Closes(w)'
    BY <2>1, <2>7 DEF Closes, Listed
  <2>9. QED  BY <2>1, <2>5, <2>6, <2>7, <2>8, LoopTidies
<1>4. CASE BatchDone(w)
  <2>1. /\ pc[w] \in {"match", "cancel"} /\ batch[w] = {} /\ pc'[w] = "busy"
        /\ agenda'[w] = Tail(agenda[w]) /\ UNCHANGED <<entry, session, blocked, workCap>>
    BY <1>4, <1>t DEF BatchDone, TaskDone, tables
  <2>2. Current(w)'
    BY <2>1 DEF Current, Editing, Filling, Looping
  <2>3. ASSUME NEW s \in Live, Attends(w, s) PROVE Attends(w, s)'
    <3>1. pc[w] \notin Editing /\ s \in Slots /\ pc[w] \notin {"busy", "insert"} /\ s \notin batch[w]
      BY <1>l, <2>1 DEF Editing, Filling
    <3>2. QED  BY <2>1, <2>3, <3>1, AttendsNext
  <2>4. Live' = Live /\ session' = session
    BY <2>1 DEF Live
  <2>5. Closes(w) => Live' = {}
    BY <2>1, <2>4 DEF Closes
  <2>6. QED  BY <2>1, <2>2, <2>3, <2>4, <2>5, LoopTidies
<1>5. CASE Respond(w)
  <2>1. /\ pc[w] = "busy" /\ agenda[w] = <<>> /\ pc'[w] = "idle"
        /\ UNCHANGED <<entry, session, blocked, workCap>>
    BY <1>5, <1>t DEF Respond, tables
  <2>2. Current(w)'
    BY <2>1 DEF Current, Editing, Filling, Looping
  <2>3. \A s \in Live : ~Attends(w, s)
    <3>1. ASSUME NEW s \in Live, Attends(w, s) PROVE FALSE
      <4>1. pc[w] \notin Editing /\ s \in Slots
        BY <1>l, <2>1 DEF Editing, Filling
      <4>2. QED  BY <2>1, <3>1, <4>1, Upcoming
    <3>2. QED  BY <3>1
  <2>4. Live' = Live /\ session' = session
    BY <2>1 DEF Live
  <2>5. ~Closes(w)
    BY <2>1 DEF Closes
  <2>6. QED  BY <2>1, <2>2, <2>3, <2>4, <2>5, LoopTidies
<1>6. QED  BY <1>1, <1>2, <1>3, <1>4, <1>5

\* The steps that look at one session of the batch keep order.
LEMMA BatchStepsTidy ==
  ASSUME Sound, Sound', NEW w \in Workers, Tidy(w),
         Skip(w) \/ FindOrphan(w) \/ FindCapacity(w) \/ StoreCapacity(w) \/ CancelSession(w)
  PROVE  Tidy(w)'
<1>t. /\ WorkTypes /\ TableTypes /\ Informed(w) /\ Current(w)
      /\ pc \in [Workers -> Points] /\ batch \in [Workers -> SUBSET Slots]
      /\ loaded \in [Workers -> Loads] /\ session \in [Slots -> SessionRows]
  BY DEF Sound, WorkTypes, TableTypes, Tidy
<1>l. Live \subseteq Slots
  BY DEF Live
<1>a. PICK s0 : s0 = First(batch[w])
  OBVIOUS
<1>b. pc[w] \in Looping /\ pc[w] \notin Editing
  BY <1>t DEF Skip, FindOrphan, FindCapacity, StoreCapacity, CancelSession, Goto, Looping, Editing,
              Filling
<1>c. batch[w] # {} /\ s0 \in batch[w] /\ s0 \in Slots
  <2>1. batch[w] # {}
    BY <1>t DEF Skip, FindOrphan, FindCapacity, StoreCapacity, CancelSession, Goto, Informed
  <2>2. batch[w] \in (SUBSET Slots) \ {{}}
    BY <1>t, <2>1
  <2>3. QED  BY <1>a, <2>1, <2>2, Firsts
<1>d. agenda[w] # <<>>
  BY <1>b, <1>t DEF Informed
<1>e. loaded[w].work = workCap
  BY <1>b, <1>t DEF Current
<1>g. ASSUME Matching(s0) # {}
      PROVE  Desired(w, s0) \in Capacities /\ Fits(s0, Desired(w, s0))
  <2>1. First(Matching(s0)) \in Matching(s0)
    BY <1>c, <1>g, Firsts
  <2>2. workCap[WorkOf[s0]] \in Capacities
    BY <1>c, <1>t, ScheduleAssumption DEF TableTypes
  <2>3. PICK e \in Matching(s0) : e = First(Matching(s0))
    BY <2>1
  <2>4. Desired(w, s0) = GeneratedCapacity(e, workCap[WorkOf[s0]])
    BY <1>e, <2>3 DEF Desired
  <2>5. QED  BY <1>c, <1>t, <2>2, <2>4, Generated
<1>o. ASSUME entry' = entry, agenda' = agenda, NEW s \in Live, s # s0, Attends(w, s),
             batch[w] \ {s0} \subseteq batch'[w]
      PROVE  Attends(w, s)'
  <2>1. s \in Slots /\ pc[w] \notin {"busy", "insert"}
    BY <1>b, <1>l DEF Looping
  <2>2. s \in batch[w] => s \in batch'[w]
    BY <1>o
  <2>3. QED  BY <1>b, <1>o, <2>1, <2>2, AttendsOn
<1>1. CASE Skip(w)
  <2>1. /\ pc[w] = "match" /\ pc'[w] = "match" /\ agenda' = agenda /\ loaded' = loaded
        /\ batch'[w] = batch[w] \ {s0} /\ UNCHANGED <<entry, session, blocked, workCap>>
    BY <1>1, <1>a, <1>t DEF Skip, tables
  <2>2. Current(w)'
    <3>1. \A s \in batch'[w] : loaded'[w].cap[s] = session'[s].cap
      BY <1>b, <1>t, <2>1 DEF Current
    <3>2. loaded'[w].work = workCap'
      BY <1>e, <2>1
    <3>3. QED  BY <2>1, <3>1, <3>2 DEF Current, Editing, Filling
  <2>3. Live' = Live /\ session' = session
    BY <2>1 DEF Live
  <2>4. ASSUME NEW s \in Live'
        PROVE  \/ Fits(s, session'[s].cap)
               \/ s \in Live /\ session'[s].cap = session[s].cap /\ (Attends(w, s) => Attends(w, s)')
    <3>1. CASE s # s0
      BY <1>o, <2>1, <2>3, <3>1
    <3>2. CASE s = s0 /\ Matching(s0) = {}
      <4>1. Head(agenda[w]).op = "capacity"
        BY <1>1, <1>a, <3>2 DEF Skip
      <4>2. ~Covers(Head(agenda[w]), s)
        BY <3>2, <4>1 DEF Covers
      <4>3. Attends(w, s) => Attends(w, s)'
        BY <1>b, <1>c, <2>1, <3>2, <4>2, AttendsOn
      <4>4. QED  BY <2>3, <4>3
    <3>3. CASE s = s0 /\ Matching(s0) # {}
      <4>1. Desired(w, s0) = loaded[w].cap[s0]
        BY <1>1, <1>a, <3>3 DEF Skip
      <4>2. loaded[w].cap[s0] = session[s0].cap
        BY <1>b, <1>c, <1>t, <2>1 DEF Current
      <4>3. QED  BY <1>g, <2>3, <3>3, <4>1, <4>2
    <3>4. QED  BY <3>1, <3>2, <3>3
  <2>5. ~Closes(w)
    BY <2>1 DEF Closes
  <2>6. QED  BY <2>1, <2>2, <2>3, <2>4, <2>5, LoopTidies
<1>2. CASE FindOrphan(w)
  <2>1. /\ pc[w] = "match" /\ pc'[w] = "cancel" /\ agenda' = agenda /\ loaded' = loaded
        /\ batch' = batch /\ UNCHANGED <<entry, session, blocked, workCap>>
    BY <1>2, <1>t DEF FindOrphan, tables, work
  <2>2. Current(w)'
    <3>1. \A s \in batch'[w] : loaded'[w].cap[s] = session'[s].cap
      BY <1>b, <1>t, <2>1 DEF Current
    <3>2. loaded'[w].work = workCap'
      BY <1>e, <2>1
    <3>3. QED  BY <2>1, <3>1, <3>2 DEF Current, Editing, Filling
  <2>3. Live' = Live /\ session' = session
    BY <2>1 DEF Live
  <2>4. ASSUME NEW s \in Live, Attends(w, s) PROVE Attends(w, s)'
    <3>1. s \in Slots /\ (pc[w] \in {"busy", "insert"} \/ s \in batch[w] => s \in batch'[w])
      BY <1>l, <2>1
    <3>2. QED  BY <1>b, <2>1, <2>4, <3>1, AttendsOn
  <2>5. ~Closes(w)
    BY <2>1 DEF Closes
  <2>6. QED  BY <2>1, <2>2, <2>3, <2>4, <2>5, LoopTidies
<1>3. CASE FindCapacity(w)
  <2>1. /\ pc[w] = "match" /\ pc'[w] = "store" /\ agenda' = agenda
        /\ batch' = batch /\ UNCHANGED <<entry, session, blocked, workCap>>
        /\ loaded' = [loaded EXCEPT ![w].cap[s0] = Desired(w, s0)] /\ Matching(s0) # {}
    BY <1>3, <1>a, <1>t DEF FindCapacity, tables
  <2>2. /\ loaded'[w].work = loaded[w].work /\ loaded'[w].cap[s0] = Desired(w, s0)
        /\ \A s \in Slots : s # s0 => loaded'[w].cap[s] = loaded[w].cap[s]
    BY <1>c, <1>t, <2>1 DEF Loads
  <2>3. Current(w)'
    <3>1. ASSUME NEW s \in batch'[w] PROVE loaded'[w].cap[s] = session'[s].cap \/ s = s0
      <4>1. s \in Slots /\ s \in batch[w]
        BY <1>t, <2>1
      <4>2. loaded[w].cap[s] = session[s].cap
        BY <1>b, <1>t, <2>1, <4>1 DEF Current
      <4>3. QED  BY <2>1, <2>2, <4>1, <4>2
    <3>2. loaded'[w].work = workCap'
      BY <1>e, <2>1, <2>2
    <3>3. s0 = First(batch[w])'
      BY <1>a, <2>1
    <3>4. Fits(s0, loaded[w].cap[s0])'
      <4>1. PICK n : n = Desired(w, s0) /\ Fits(s0, n)
        BY <1>g, <2>1
      <4>2. Fits(s0, n)' /\ loaded'[w].cap[s0] = n
        BY <2>1, <2>2, <4>1 DEF Fits, Matching
      <4>3. QED  BY <4>2 DEF Fits
    <3>5. Fits(First(batch[w]), loaded[w].cap[First(batch[w])])'
      BY <3>3, <3>4 DEF Fits, Matching
    <3>6. QED  BY <2>1, <3>1, <3>2, <3>3, <3>5 DEF Current, Editing, Filling
  <2>4. Live' = Live /\ session' = session
    BY <2>1 DEF Live
  <2>5. ASSUME NEW s \in Live, Attends(w, s) PROVE Attends(w, s)'
    <3>1. s \in Slots /\ (pc[w] \in {"busy", "insert"} \/ s \in batch[w] => s \in batch'[w])
      BY <1>l, <2>1
    <3>2. QED  BY <1>b, <2>1, <2>5, <3>1, AttendsOn
  <2>6. ~Closes(w)
    BY <2>1 DEF Closes
  <2>7. QED  BY <2>1, <2>3, <2>4, <2>5, <2>6, LoopTidies
<1>4. CASE StoreCapacity(w)
  <2>1. /\ pc[w] = "store" /\ pc'[w] = "match" /\ agenda' = agenda /\ loaded' = loaded
        /\ batch'[w] = batch[w] \ {s0} /\ UNCHANGED <<entry, blocked, workCap>>
        /\ session' = [session EXCEPT ![s0].cap = loaded[w].cap[s0]]
    BY <1>4, <1>a, <1>t DEF StoreCapacity, Goto
  <2>2. /\ session'[s0].cap = loaded[w].cap[s0]
        /\ \A s \in Slots : session'[s].status = session[s].status /\ (s # s0 => session'[s] = session[s])
    BY <1>c, <1>t, <2>1 DEF SessionRows
  <2>3. Current(w)'
    <3>1. ASSUME NEW s \in batch'[w] PROVE loaded'[w].cap[s] = session'[s].cap
      <4>1. s \in Slots /\ s \in batch[w] /\ s # s0
        BY <1>t, <2>1
      <4>2. loaded[w].cap[s] = session[s].cap
        BY <1>a, <1>b, <1>t, <4>1 DEF Current
      <4>3. QED  BY <2>1, <2>2, <4>1, <4>2
    <3>2. loaded'[w].work = workCap'
      BY <1>e, <2>1
    <3>3. QED  BY <2>1, <3>1, <3>2 DEF Current, Editing, Filling
  <2>4. Live' = Live
    BY <2>2 DEF Live
  <2>5. ASSUME NEW s \in Live'
        PROVE  \/ Fits(s, session'[s].cap)
               \/ s \in Live /\ session'[s].cap = session[s].cap /\ (Attends(w, s) => Attends(w, s)')
    <3>1. CASE s # s0
      BY <1>l, <1>o, <2>1, <2>2, <2>4, <3>1
    <3>2. CASE s = s0
      BY <1>a, <1>t, <2>1, <2>2, <3>2 DEF Current
    <3>3. QED  BY <3>1, <3>2
  <2>6. ~Closes(w)
    BY <2>1 DEF Closes
  <2>7. QED  BY <2>1, <2>3, <2>4, <2>5, <2>6, LoopTidies
<1>5. CASE CancelSession(w)
  <2>1. /\ pc[w] = "cancel" /\ agenda' = agenda /\ loaded' = loaded
        /\ pc'[w] = (IF Head(agenda[w]).op = "close" THEN "cancel" ELSE "match")
        /\ batch'[w] = batch[w] \ {s0} /\ UNCHANGED <<entry, blocked, workCap>>
        /\ session' = [session EXCEPT ![s0].status = "CANCELLED"]
    BY <1>5, <1>a, <1>t DEF CancelSession, AfterCancel, Goto
  <2>2. /\ session'[s0].status = "CANCELLED"
        /\ \A s \in Slots : session'[s].cap = session[s].cap /\ (s # s0 => session'[s] = session[s])
    BY <1>c, <1>t, <2>1 DEF SessionRows
  <2>3. Current(w)'
    <3>1. ASSUME NEW s \in batch'[w] PROVE loaded'[w].cap[s] = session'[s].cap
      <4>1. s \in Slots /\ s \in batch[w]
        BY <1>t, <2>1
      <4>2. loaded[w].cap[s] = session[s].cap
        BY <1>b, <1>t, <2>1, <4>1 DEF Current
      <4>3. QED  BY <2>1, <2>2, <4>1, <4>2
    <3>2. loaded'[w].work = workCap'
      BY <1>e, <2>1
    <3>3. QED  BY <2>1, <3>1, <3>2 DEF Current, Editing, Filling
  <2>4. Live' = Live \ {s0}
    BY <1>c, <2>2 DEF Live
  <2>5. ASSUME NEW s \in Live'
        PROVE  s \in Live /\ session'[s].cap = session[s].cap /\ (Attends(w, s) => Attends(w, s)')
    BY <1>l, <1>o, <2>1, <2>2, <2>4
  <2>6. Closes(w) => Closes(w)'
    BY <2>1, <2>4 DEF Closes
  <2>7. QED  BY <2>1, <2>3, <2>4, <2>5, <2>6, LoopTidies
<1>6. QED  BY <1>1, <1>2, <1>3, <1>4, <1>5

\* Requests that come one after another stay in order.
LEMMA InOrderKept == Sound /\ Sound' /\ InOrder /\ [Next]_vars => InOrder'
<1> SUFFICES ASSUME Sound, Sound', InOrder, [Next]_vars, calm' PROVE InOrder'
  BY DEF InOrder
<1>1. calm
  BY OthersKept
<1>2. ASSUME NEW w \in Workers, Request(w) \/ Step(w) \/ Die(w) PROVE InOrder'
  <2>1. OthersStand(w)
    <3>1. CASE Request(w)
      BY <3>1, RequestStands
    <3>2. CASE \/ SaveEntry(w) \/ ClearSelections(w) \/ AddSelection(w) \/ PickWorks(w)
               \/ RereadEntry(w) \/ ReadSelections(w) \/ CopyEntry(w) \/ CopyDone(w) \/ DeleteEntry(w)
      BY <3>2, EditStands
    <3>3. CASE \/ ReadEntries(w) \/ InsertSessions(w) \/ ListSessions(w) \/ BatchDone(w) \/ Skip(w)
               \/ FindOrphan(w) \/ FindCapacity(w) \/ StoreCapacity(w) \/ CancelSession(w)
               \/ CancelRaises(w) \/ Respond(w) \/ Die(w)
      BY <3>3, LoopStands
    <3>4. QED  BY <1>2, <3>1, <3>2, <3>3 DEF Step
  <2>2. ~Die(w) /\ ~CancelRaises(w)
    BY DEF Die, CancelRaises, Fail
  <2>3. (\A v \in Workers \ {w} : pc[v] = "idle") /\ Tidy(w)
    BY <1>1, <1>2, <2>2, Solo DEF Inductive
  <2>4. Tidy(w)'
    <3>1. CASE Request(w)
      BY <2>3, <3>1, RequestsAreFirst, RequestTidies
    <3>2. CASE \/ SaveEntry(w) \/ ClearSelections(w) \/ AddSelection(w) \/ PickWorks(w)
               \/ RereadEntry(w) \/ ReadSelections(w) \/ CopyEntry(w) \/ CopyDone(w) \/ DeleteEntry(w)
      BY <2>3, <3>2, EditStepsTidy
    <3>3. CASE ReadEntries(w) \/ InsertSessions(w) \/ ListSessions(w) \/ BatchDone(w) \/ Respond(w)
      BY <2>3, <3>3, TaskStepsTidy
    <3>4. CASE Skip(w) \/ FindOrphan(w) \/ FindCapacity(w) \/ StoreCapacity(w) \/ CancelSession(w)
      BY <2>3, <3>4, BatchStepsTidy
    <3>5. QED  BY <1>2, <2>2, <3>1, <3>2, <3>3, <3>4 DEF Step
  <2>5. QED  BY <2>1, <2>3, <2>4, InOrderAgain
<1>3. ASSUME UNCHANGED <<entry, session, blocked, workCap, pc, job, agenda, batch, loaded, plan>>
      PROVE  InOrder'
  <2>1. /\ entry' = entry /\ session' = session /\ blocked' = blocked /\ workCap' = workCap
        /\ pc' = pc /\ job' = job /\ agenda' = agenda /\ batch' = batch /\ loaded' = loaded
        /\ plan' = plan
    BY <1>3
  <2>2. /\ \A s : Matching(s)' = Matching(s)
        /\ Live' = Live
    BY <2>1 DEF Matching, Live
  <2>3. \A s, n : Fits(s, n)' <=> Fits(s, n)
    BY <2>1, <2>2 DEF Fits
  <2>4. \A w, s : Attends(w, s)' <=> Attends(w, s)
    BY <2>1, <2>2 DEF Attends, Covers, Touched
  <2>5. \A w : (Closes(w)' <=> Closes(w))
    BY <2>1, <2>2 DEF Closes
  <2>6. Alone /\ (\A w \in Workers : Current(w))
        /\ (\A s \in Live : Fits(s, session[s].cap) \/ \E w \in Workers : Attends(w, s))
        /\ (blocked /\ Live # {} => \E w \in Workers : Closes(w))
    BY <1>1 DEF InOrder
  <2>7. \A w \in Workers : Current(w)'
    BY <2>1, <2>2, <2>3, <2>6 DEF Current
  <2>8. \A s \in Live' : Fits(s, session[s].cap)' \/ \E w \in Workers : Attends(w, s)'
    <3>1. ASSUME NEW s \in Live', Fits(s, session[s].cap) PROVE Fits(s, session[s].cap)'
      BY <2>1, <3>1 DEF Fits, Matching
    <3>2. QED  BY <2>2, <2>4, <2>6, <3>1
  <2>9. blocked' /\ Live' # {} => \E w \in Workers : Closes(w)'
    BY <2>1, <2>2, <2>5, <2>6
  <2>10. Alone'
    BY <2>1, <2>6 DEF Alone
  <2>11. QED  BY <2>7, <2>8, <2>9, <2>10 DEF InOrder
<1>4. CASE \E s \in Slots : Book(s) \/ CancelBooking(s) \/ Approach(s)
  BY <1>3, <1>4 DEF Book, CancelBooking, Approach, work
<1>5. CASE UNCHANGED vars
  BY <1>3, <1>5 DEF vars, tables, work
<1>6. QED  BY <1>2, <1>4, <1>5 DEF Next

\* The sessions that exist at first are those of the first entry.
LEMMA InOrderInit == Init => InOrder
<1> SUFFICES ASSUME Init PROVE InOrder
  OBVIOUS
<1>1. Sound
  BY SoundInit
<1>2. \A w \in Workers : pc[w] = "idle"
  BY DEF Init
<1>3. Alone /\ (\A w \in Workers : Current(w)) /\ ~blocked
  BY <1>1, <1>2, IdleIsNothing DEF Alone, Sound, Init
<1>4. ASSUME NEW s \in Live PROVE Fits(s, session[s].cap)
  <2>1. PICK f \in Forms :
          /\ entry = [e \in Entries |-> IF e = 1 THEN Row(f.day, f.works, f.cap, NoWorker) ELSE NoEntry]
          /\ session = [x \in Slots |->
               IF x \in near /\ Matching(x) # {}
                 THEN [status |-> "OPEN", cap |-> GeneratedCapacity(1, workCap[WorkOf[x]])]
                 ELSE [status |-> "NONE", cap |-> 0]]
    BY DEF Init
  <2>2. s \in Slots /\ session[s].status = "OPEN"
    BY DEF Live
  <2>3. Matching(s) # {} /\ session[s].cap = GeneratedCapacity(1, workCap[WorkOf[s]])
    BY <2>1, <2>2
  <2>4. 1 \in Matching(s)
    BY <2>1, <2>3 DEF Matching
  <2>5. workCap[WorkOf[s]] \in Capacities /\ TableTypes
    BY <1>1, <2>2, ScheduleAssumption DEF Sound, TableTypes
  <2>6. Fits(s, GeneratedCapacity(1, workCap[WorkOf[s]]))
    BY <2>2, <2>4, <2>5, Generated
  <2>7. QED  BY <2>3, <2>6
<1>5. QED  BY <1>3, <1>4 DEF InOrder

\* While requests come one after another, each knows what it read, and every live
\* session is right or still to be looked at.
THEOREM RequestsStayInOrder == Spec => []Inductive
<1>1. Init => Inductive
  BY SoundInit, InOrderInit DEF Inductive
<1>2. Inductive /\ [Next]_vars => Inductive'
  BY SoundKept, InOrderKept DEF Inductive
<1>3. QED  BY <1>1, <1>2, PTL DEF Spec

\* When all is settled nobody has anything to look at.
LEMMA SettledIsRight ==
  ASSUME Inductive, Settled
  PROVE  (\A s \in Live : Fits(s, session[s].cap)) /\ (blocked => Live = {})
<1>1. \A w \in Workers : ~Closes(w) /\ \A s \in Slots : ~Attends(w, s)
  BY IdleIsNothing DEF Settled, Inductive, Sound
<1>2. Live \subseteq Slots
  BY DEF Live
<1>3. QED  BY <1>1, <1>2 DEF Inductive, InOrder, Settled

\* After edits that did not overlap, an entry covers every live session.
THEOREM OrphansAreCancelled == Spec => []NoOrphans
<1>1. Inductive => NoOrphans
  BY SettledIsRight DEF NoOrphans, Fits
<1>2. QED  BY <1>1, RequestsStayInOrder, PTL

\* The seats of a live session are then those of an entry that covers it and of
\* its lab work.
THEOREM CapacitiesFollow == Spec => []CapacityFromEntry
<1>1. Inductive => CapacityFromEntry
  BY SettledIsRight DEF CapacityFromEntry, Fits
<1>2. QED  BY <1>1, RequestsStayInOrder, PTL

\* A blocked room has no live session then.
THEOREM BlockedRoomsEmpty == Spec => []BlockedRoomIsEmpty
<1>1. Inductive => BlockedRoomIsEmpty
  BY SettledIsRight DEF BlockedRoomIsEmpty
<1>2. QED  BY <1>1, RequestsStayInOrder, PTL

=============================================================================
