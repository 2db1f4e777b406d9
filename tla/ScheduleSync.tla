---------------------------- MODULE ScheduleSync ----------------------------
(***************************************************************************)
(* The weekly schedule of one room and the lab sessions generated from it: *)
(* edits of schedule entries, of the room and of lab works, generation     *)
(* (slot_generation.py) and the synchronisation of existing sessions       *)
(* (schedule_sync.py), while students book and cancel.                     *)
(*                                                                         *)
(* Nothing here runs in one transaction except the cancellation of one     *)
(* session: a request is a series of statements that commit one by one,    *)
(* and other requests and students come in between.                        *)
(***************************************************************************)
EXTENDS Integers, Sequences, FiniteSets

CONSTANTS
  Slots,          \* sessions that may exist, by their natural key, in order of start
  DayOf, WorkOf,  \* weekday and lab work of a slot
  Days, Works,
  Entries,        \* primary keys of schedule entries: 1..n
  NoEntry,
  Capacities,
  Forms,          \* what the entry form may ask for: [day, works, cap]
  FarAtFirst,     \* slots beyond the horizon of the generator in the beginning
  WorkCapAtFirst, \* capacity of each lab work in the beginning
  Workers,        \* server threads and the cron job
  NoWorker,
  MaxRequests     \* bound: requests ever served

ASSUME ScheduleAssumption ==
  /\ Slots \subseteq Nat /\ IsFiniteSet(Slots)
  /\ Entries \subseteq Nat \ {0} /\ IsFiniteSet(Entries) /\ 1 \in Entries
  /\ DayOf \in [Slots -> Days] /\ WorkOf \in [Slots -> Works]
  /\ Capacities \subseteq Nat \ {0}
  /\ Forms \subseteq [day : Days, works : (SUBSET Works) \ {{}}, cap : Capacities]
  /\ FarAtFirst \subseteq Slots
  /\ WorkCapAtFirst \in [Works -> Capacities]
  /\ NoWorker \notin Workers
  /\ NoEntry \notin [day : Days, works : SUBSET Works, cap : Capacities,
                     by : Workers \union {NoWorker}]
  /\ MaxRequests \in Nat

VARIABLES
  entry,          \* ScheduleEntry rows: [day, works, cap, by], works as entry_lab_work_ids,
                  \* by the request whose selection is being filled in
  lastPk,         \* the last primary key given to an entry
  session,        \* LabSession rows: [status, cap], status "NONE" before generation
  booked,         \* slots where a student holds a BOOKED booking
  blocked,        \* is_blocked of the room
  workCap,        \* capacity of each lab work
  near,           \* slots within the horizon of the generator
  pc,
  job,            \* the request a worker serves: [kind, entry, data, oldDay, forced]
  agenda,         \* what the view still has to call: [op, day, works]
  batch,          \* sessions listed and not yet handled
  loaded,         \* session and lab work capacities as they were listed
  plan,           \* capacity of each slot to insert, 0 for none
  served,
  calm            \* no two requests have overlapped, and none has failed

tables == <<entry, lastPk, session, booked, blocked, workCap, near>>
work == <<agenda, batch, loaded, plan>>
ghost == <<served, calm>>
vars == <<tables, pc, job, work, ghost>>

Row(day, works, cap, by) == [day |-> day, works |-> works, cap |-> cap, by |-> by]

NoJob == [kind |-> "none", entry |-> 0, data |-> NoEntry, oldDay |-> 0, forced |-> FALSE]

NoLoad == [cap |-> [s \in Slots |-> 0], work |-> [x \in Works |-> 0]]

-----------------------------------------------------------------------------
(* Entries and sessions *)

\* matching_entries_for_session
Matching(s) ==
  {e \in Entries : entry[e] # NoEntry /\ entry[e].day = DayOf[s] /\ WorkOf[s] \in entry[e].works}

First(S) == CHOOSE x \in S : \A y \in S : x <= y

\* generated_session_capacity
GeneratedCapacity(e, workCapacity) ==
  IF entry[e].cap < workCapacity THEN entry[e].cap ELSE workCapacity

Live == {s \in Slots : session[s].status = "OPEN"}

\* One entry, and the sessions generated from it
Init ==
  \E f \in Forms :
    /\ entry = [e \in Entries |-> IF e = 1 THEN Row(f.day, f.works, f.cap, NoWorker) ELSE NoEntry]
    /\ lastPk = 1
    /\ near = Slots \ FarAtFirst
    /\ workCap = WorkCapAtFirst
    /\ session = [s \in Slots |->
         IF s \in near /\ Matching(s) # {}
           THEN [status |-> "OPEN", cap |-> GeneratedCapacity(1, workCap[WorkOf[s]])]
           ELSE [status |-> "NONE", cap |-> 0]]
    /\ booked = {}
    /\ blocked = FALSE
    /\ pc = [w \in Workers |-> "idle"]
    /\ job = [w \in Workers |-> NoJob]
    /\ agenda = [w \in Workers |-> <<>>]
    /\ batch = [w \in Workers |-> {}]
    /\ loaded = [w \in Workers |-> NoLoad]
    /\ plan = [w \in Workers |-> NoLoad.cap]
    /\ served = 0
    /\ calm = TRUE

-----------------------------------------------------------------------------
(* Requests: what they do before they turn to the sessions *)

Task(op, day, works) == [op |-> op, day |-> day, works |-> works]

Begin(w, kind, e, data, oldDay, forced, to) ==
  /\ pc[w] = "idle"
  /\ served < MaxRequests
  /\ served' = served + 1
  /\ calm' = (calm /\ \A v \in Workers : pc[v] = "idle")
  /\ job' = [job EXCEPT ![w] =
       [kind |-> kind, entry |-> e, data |-> data, oldDay |-> oldDay, forced |-> forced]]
  /\ pc' = [pc EXCEPT ![w] = to]

Fail(w) ==
  /\ pc' = [pc EXCEPT ![w] = "idle"]
  /\ job' = [job EXCEPT ![w] = NoJob]
  /\ agenda' = [agenda EXCEPT ![w] = <<>>]
  /\ batch' = [batch EXCEPT ![w] = {}]
  /\ loaded' = [loaded EXCEPT ![w] = NoLoad]
  /\ plan' = [plan EXCEPT ![w] = NoLoad.cap]
  /\ calm' = FALSE
  /\ UNCHANGED served

Goto(w, from, to) == pc[w] = from /\ pc' = [pc EXCEPT ![w] = to]

\* create_schedule_entry: a row with no selections yet.  A blocked room takes no
\* new entries.
CreateEntry(w) ==
  \E data \in Forms :
    /\ ~blocked
    /\ lastPk + 1 \in Entries
    /\ lastPk' = lastPk + 1
    /\ entry' = [entry EXCEPT ![lastPk + 1] = Row(data.day, {}, data.cap, NoWorker)]
    /\ Begin(w, "create", lastPk + 1, data, data.day, FALSE, "select")
    /\ UNCHANGED <<session, booked, blocked, workCap, near, work>>

\* The entry as the view loads it, and the cleaned form
LoadEntry(w) ==
  \E e \in Entries, data \in Forms :
    /\ entry[e] # NoEntry
    /\ ~blocked
    /\ Begin(w, "update", e, data, entry[e].day, FALSE, "save")
    /\ UNCHANGED <<tables, work>>

\* entry.save() inserts the row again if it is gone, without its selections.
SaveEntry(w) ==
  LET e == job[w].entry
      form == job[w].data
  IN
  /\ Goto(w, "save", "clear")
  /\ entry' = [entry EXCEPT ![e] =
       IF entry[e] = NoEntry
         THEN Row(form.day, {}, form.cap, NoWorker)
         ELSE Row(form.day, entry[e].works, form.cap, entry[e].by)]
  /\ UNCHANGED <<lastPk, session, booked, blocked, workCap, near, job, work, ghost>>

\* copy_schedule_weekday reads both days at once.  All entries of a day begin at the
\* same time, so one is copied, and only to an empty day.  The room may be blocked.
ReadDays(w) ==
  \E e \in Entries, day \in Days :
    /\ entry[e] # NoEntry /\ entry[e].day # day
    /\ \A f \in Entries : entry[f] # NoEntry => entry[f].day # day
    /\ Begin(w, "copy", 0, [day |-> day, works |-> entry[e].works, cap |-> entry[e].cap], day, FALSE,
             "copy")
    /\ UNCHANGED <<tables, work>>

\* The copy, before it gets the selections that the entry had
CopyEntry(w) ==
  LET form == job[w].data IN
  /\ lastPk + 1 \in Entries
  /\ Goto(w, "copy", IF form.works = {} THEN "saved" ELSE "select")
  /\ lastPk' = lastPk + 1
  /\ entry' = [entry EXCEPT ![lastPk + 1] = Row(form.day, {}, form.cap, NoWorker)]
  /\ job' = [job EXCEPT ![w].entry = lastPk + 1]
  /\ UNCHANGED <<session, booked, blocked, workCap, near, work, ghost>>

SetWorks(e, works, by) == entry' = [entry EXCEPT ![e].works = works, ![e].by = by]

\* _apply_selections deletes the selections, ...
ClearSelections(w) ==
  LET e == job[w].entry IN
  /\ Goto(w, "clear", "select")
  /\ IF entry[e] = NoEntry THEN UNCHANGED entry ELSE SetWorks(e, {}, NoWorker)
  /\ UNCHANGED <<lastPk, session, booked, blocked, workCap, near, job, work, ghost>>

\* ... adds the discipline, which for now stands for all its lab works (and
\* raises if the entry is gone or somebody else has added it), ...
AddSelection(w) ==
  LET e == job[w].entry IN
  /\ pc[w] = "select"
  /\ IF entry[e] = NoEntry \/ entry[e].works # {}
       THEN Fail(w) /\ UNCHANGED entry
       ELSE /\ Goto(w, "select", "pick")
            /\ SetWorks(e, Works, w)
            /\ UNCHANGED <<job, work, ghost>>
  /\ UNCHANGED <<lastPk, session, booked, blocked, workCap, near>>

\* ... and narrows it to the selected ones, or raises if it is gone.
PickWorks(w) ==
  LET e == job[w].entry IN
  /\ pc[w] = "pick"
  /\ IF entry[e] = NoEntry \/ entry[e].by # w
       THEN Fail(w) /\ UNCHANGED entry
       ELSE /\ Goto(w, "pick", "saved")
            /\ SetWorks(e, job[w].data.works, NoWorker)
            /\ UNCHANGED <<job, work, ghost>>
  /\ UNCHANGED <<lastPk, session, booked, blocked, workCap, near>>

\* Defect: the sessions of the old weekday are forgotten.
AfterEditNewDayOnly(oldDay, day, works) ==
  (IF works # {} THEN <<Task("generate", day, works)>> ELSE <<>>) \o <<Task("sync", day, {})>>

\* Defect: new sessions are generated, those that exist are left as they are.
AfterEditGenerateOnly(oldDay, day, works) ==
  IF works # {} THEN <<Task("generate", day, works)>> ELSE <<>>

\* What the views call after an entry is saved: _sync_at the old weekday,
\* _regenerate, _sync_at the new one.
AfterEdit(oldDay, day, works) ==
  (IF oldDay # day THEN <<Task("sync", oldDay, {})>> ELSE <<>>)
  \o (IF works # {} THEN <<Task("generate", day, works)>> ELSE <<>>)
  \o <<Task("sync", day, {})>>

\* update_schedule_entry gets the row again and raises if it is gone.
RereadEntry(w) ==
  LET row == entry[job[w].entry] IN
  /\ job[w].kind = "update" /\ pc[w] = "saved"
  /\ IF row = NoEntry
       THEN Fail(w)
       ELSE /\ Goto(w, "saved", "busy")
            /\ agenda' = [agenda EXCEPT ![w] = AfterEdit(job[w].oldDay, row.day, row.works)]
            /\ UNCHANGED <<job, batch, loaded, plan, ghost>>
  /\ UNCHANGED tables

\* The view of a creation goes on with the instance it has, and reads only the
\* selections.
ReadSelections(w) ==
  LET row == entry[job[w].entry] IN
  /\ job[w].kind = "create"
  /\ Goto(w, "saved", "busy")
  /\ agenda' = [agenda EXCEPT ![w] =
       AfterEdit(job[w].oldDay, job[w].oldDay, IF row = NoEntry THEN {} ELSE row.works)]
  /\ UNCHANGED <<tables, job, batch, loaded, plan, ghost>>

\* LabHeadScheduleCopyDayView generates everything and synchronises the new day.
CopyDone(w) ==
  /\ job[w].kind = "copy"
  /\ Goto(w, "saved", "busy")
  /\ agenda' = [agenda EXCEPT ![w] =
       <<Task("generate", 0, Works), Task("sync", job[w].oldDay, {})>>]
  /\ UNCHANGED <<tables, job, batch, loaded, plan, ghost>>

\* entry_future_booking_conflicts, for a deletion that is confirmed or not
CountConflicts(w) ==
  \E e \in Entries, forced \in BOOLEAN :
    /\ entry[e] # NoEntry
    /\ forced \/ \A s \in booked \intersect Live : Matching(s) # {e}
    /\ Begin(w, "delete", e, NoEntry, entry[e].day, forced, "delete")
    /\ UNCHANGED <<tables, work>>

DeleteEntry(w) ==
  /\ Goto(w, "delete", "busy")
  /\ entry' = [entry EXCEPT ![job[w].entry] = NoEntry]
  /\ agenda' = [agenda EXCEPT ![w] = <<Task("sync", job[w].oldDay, {})>>]
  /\ UNCHANGED <<lastPk, session, booked, blocked, workCap, near, job, batch, loaded, plan, ghost>>

\* LabHeadRoomUpdateView: a room that becomes blocked loses its sessions, one
\* that becomes free is generated again.
SetBlocked(w) ==
  /\ Begin(w, "room", 0, NoEntry, 0, FALSE, "busy")
  /\ blocked' = ~blocked
  /\ agenda' = [agenda EXCEPT ![w] =
       <<IF blocked THEN Task("generate", 0, Works) ELSE Task("close", 0, {})>>]
  /\ UNCHANGED <<entry, lastPk, session, booked, workCap, near, batch, loaded, plan>>

\* LabHeadLabWorkUpdateView, for a change of the capacity
SetWorkCapacity(w) ==
  \E x \in Works, n \in Capacities :
    /\ workCap[x] # n
    /\ Begin(w, "work", 0, NoEntry, 0, FALSE, "busy")
    /\ workCap' = [workCap EXCEPT ![x] = n]
    /\ agenda' = [agenda EXCEPT ![w] = <<Task("capacity", 0, {x})>>]
    /\ UNCHANGED <<entry, lastPk, session, booked, blocked, near, batch, loaded, plan>>

\* The generate_sessions command
RunCommand(w) ==
  /\ Begin(w, "command", 0, NoEntry, 0, FALSE, "busy")
  /\ agenda' = [agenda EXCEPT ![w] = <<Task("generate", 0, Works)>>]
  /\ UNCHANGED <<tables, batch, loaded, plan>>

-----------------------------------------------------------------------------
(* Sessions *)

Doing(w, op) == pc[w] = "busy" /\ agenda[w] # <<>> /\ Head(agenda[w]).op = op

TaskDone(w) ==
  /\ pc' = [pc EXCEPT ![w] = "busy"]
  /\ agenda' = [agenda EXCEPT ![w] = Tail(@)]

\* Defect: the filter on blocked rooms is dropped.
GeneratesBlockedToo(s, works) ==
  s \in near /\ WorkOf[s] \in works /\ Matching(s) # {}

Generates(s, works) ==
  ~blocked /\ s \in near /\ WorkOf[s] \in works /\ Matching(s) # {}

\* generate_lab_sessions reads the entries and the lab works.  Of two entries
\* that cover a slot the first in order of start makes it, not of primary key.
ReadEntries(w) ==
  /\ Doing(w, "generate")
  /\ \E by \in [Slots -> Entries] :
       /\ \A s \in Slots : Matching(s) # {} => by[s] \in Matching(s)
       /\ plan' = [plan EXCEPT ![w] = [s \in Slots |->
            IF Generates(s, Head(agenda[w]).works)
              THEN GeneratedCapacity(by[s], workCap[WorkOf[s]])
              ELSE 0]]
  /\ pc' = [pc EXCEPT ![w] = "insert"]
  /\ UNCHANGED <<tables, job, agenda, batch, loaded, ghost>>

\* Defect: update_or_create, which opens the sessions that it finds.
InsertOrReopen(w) ==
  /\ pc[w] = "insert"
  /\ session' = [s \in Slots |->
       IF plan[w][s] > 0 THEN [status |-> "OPEN", cap |-> plan[w][s]] ELSE session[s]]
  /\ plan' = [plan EXCEPT ![w] = NoLoad.cap]
  /\ TaskDone(w)
  /\ UNCHANGED <<entry, lastPk, booked, blocked, workCap, near, job, batch, loaded, ghost>>

\* bulk_create(ignore_conflicts=True)
InsertSessions(w) ==
  /\ pc[w] = "insert"
  /\ session' = [s \in Slots |->
       IF plan[w][s] > 0 /\ session[s].status = "NONE"
         THEN [status |-> "OPEN", cap |-> plan[w][s]]
         ELSE session[s]]
  /\ plan' = [plan EXCEPT ![w] = NoLoad.cap]
  /\ TaskDone(w)
  /\ UNCHANGED <<entry, lastPk, booked, blocked, workCap, near, job, batch, loaded, ghost>>

Listed(task) ==
  CASE task.op = "sync"     -> {s \in Live : DayOf[s] = task.day}
    [] task.op = "capacity" -> {s \in Live : WorkOf[s] \in task.works}
    [] task.op = "close"    -> Live

\* The sessions are listed once, their lab works with them.
ListSessions(w) ==
  /\ Doing(w, "sync") \/ Doing(w, "capacity") \/ Doing(w, "close")
  /\ batch' = [batch EXCEPT ![w] = Listed(Head(agenda[w]))]
  /\ loaded' = [loaded EXCEPT ![w] = [cap |-> [s \in Slots |-> session[s].cap], work |-> workCap]]
  /\ pc' = [pc EXCEPT ![w] = IF Head(agenda[w]).op = "close" THEN "cancel" ELSE "match"]
  /\ UNCHANGED <<tables, job, agenda, plan, ghost>>

BatchDone(w) ==
  /\ pc[w] \in {"match", "cancel"}
  /\ batch[w] = {}
  /\ loaded' = [loaded EXCEPT ![w] = NoLoad]
  /\ TaskDone(w)
  /\ UNCHANGED <<tables, job, batch, plan, ghost>>

\* Defect: the seats that are left instead of all seats.
DesiredLeft(w, s) ==
  GeneratedCapacity(First(Matching(s)), loaded[w].work[WorkOf[s]]) - (IF s \in booked THEN 1 ELSE 0)

Desired(w, s) == GeneratedCapacity(First(Matching(s)), loaded[w].work[WorkOf[s]])

\* Nothing to do for the next session: its capacity is right, or no entry
\* covers it and only capacities are being synchronised.
Skip(w) ==
  LET s == First(batch[w]) IN
  /\ pc[w] = "match" /\ batch[w] # {}
  /\ IF Matching(s) = {}
       THEN Head(agenda[w]).op = "capacity"
       ELSE Desired(w, s) = loaded[w].cap[s]
  /\ batch' = [batch EXCEPT ![w] = @ \ {s}]
  /\ UNCHANGED <<tables, pc, job, agenda, loaded, plan, ghost>>

\* No entry covers the session: sync_future_sessions_for_slot will cancel it.
FindOrphan(w) ==
  /\ pc[w] = "match" /\ batch[w] # {}
  /\ Matching(First(batch[w])) = {}
  /\ Head(agenda[w]).op = "sync"
  /\ pc' = [pc EXCEPT ![w] = "cancel"]
  /\ UNCHANGED <<tables, job, work, ghost>>

\* Another capacity than the listed one is remembered, ...
FindCapacity(w) ==
  LET s == First(batch[w]) IN
  /\ pc[w] = "match" /\ batch[w] # {}
  /\ Matching(s) # {} /\ Desired(w, s) # loaded[w].cap[s]
  /\ loaded' = [loaded EXCEPT ![w].cap[s] = Desired(w, s)]
  /\ pc' = [pc EXCEPT ![w] = "store"]
  /\ UNCHANGED <<tables, job, agenda, batch, plan, ghost>>

\* Defect: the whole row is saved, with the status that it had in the list.
StoreRow(w) ==
  LET s == First(batch[w]) IN
  /\ Goto(w, "store", "match")
  /\ session' = [session EXCEPT ![s] = [status |-> "OPEN", cap |-> loaded[w].cap[s]]]
  /\ batch' = [batch EXCEPT ![w] = @ \ {s}]
  /\ UNCHANGED <<entry, lastPk, booked, blocked, workCap, near, job, agenda, loaded, plan, ghost>>

\* ... and session.save(update_fields=["capacity"]) writes it.
StoreCapacity(w) ==
  LET s == First(batch[w]) IN
  /\ Goto(w, "store", "match")
  /\ session' = [session EXCEPT ![s].cap = loaded[w].cap[s]]
  /\ batch' = [batch EXCEPT ![w] = @ \ {s}]
  /\ UNCHANGED <<entry, lastPk, booked, blocked, workCap, near, job, agenda, loaded, plan, ghost>>

AfterCancel(w) == IF Head(agenda[w]).op = "close" THEN "cancel" ELSE "match"

\* cancel_session_bookings
CancelSession(w) ==
  LET s == First(batch[w]) IN
  /\ batch[w] # {}
  /\ Goto(w, "cancel", AfterCancel(w))
  /\ session' = [session EXCEPT ![s].status = "CANCELLED"]
  /\ booked' = booked \ {s}
  /\ batch' = [batch EXCEPT ![w] = @ \ {s}]
  /\ UNCHANGED <<entry, lastPk, blocked, workCap, near, job, agenda, loaded, plan, ghost>>

\* A student cancels while the bookings of the session are being cancelled:
\* the transaction raises, and with it the request.
CancelRaises(w) ==
  LET s == First(batch[w]) IN
  /\ pc[w] = "cancel" /\ batch[w] # {}
  /\ s \in booked
  /\ booked' = booked \ {s}
  /\ Fail(w)
  /\ UNCHANGED <<entry, lastPk, session, blocked, workCap, near>>

Respond(w) ==
  /\ pc[w] = "busy" /\ agenda[w] = <<>>
  /\ pc' = [pc EXCEPT ![w] = "idle"]
  /\ job' = [job EXCEPT ![w] = NoJob]
  /\ UNCHANGED <<tables, work, ghost>>

-----------------------------------------------------------------------------
\* create_booking, by the student or, without the whitelist of
\* session_availability.py, by a member of staff
Book(s) ==
  /\ s \in Live \ booked
  /\ booked' = booked \union {s}
  /\ UNCHANGED <<entry, lastPk, session, blocked, workCap, near, pc, job, work, ghost>>

CancelBooking(s) ==
  /\ s \in booked
  /\ booked' = booked \ {s}
  /\ UNCHANGED <<entry, lastPk, session, blocked, workCap, near, pc, job, work, ghost>>

\* Days pass and the horizon moves on.
Approach(s) ==
  /\ s \notin near
  /\ near' = near \union {s}
  /\ UNCHANGED <<entry, lastPk, session, booked, blocked, workCap, pc, job, work, ghost>>

Die(w) ==
  /\ pc[w] # "idle"
  /\ Fail(w)
  /\ UNCHANGED tables

Request(w) ==
  \/ CreateEntry(w) \/ LoadEntry(w) \/ ReadDays(w) \/ CountConflicts(w)
  \/ SetBlocked(w) \/ SetWorkCapacity(w) \/ RunCommand(w)

Step(w) ==
  \/ SaveEntry(w) \/ ClearSelections(w) \/ AddSelection(w) \/ PickWorks(w) \/ RereadEntry(w)
  \/ ReadSelections(w) \/ CopyEntry(w) \/ CopyDone(w)
  \/ DeleteEntry(w)
  \/ ReadEntries(w) \/ InsertSessions(w)
  \/ ListSessions(w) \/ BatchDone(w) \/ Skip(w) \/ FindOrphan(w) \/ FindCapacity(w)
  \/ StoreCapacity(w) \/ CancelSession(w) \/ CancelRaises(w)
  \/ Respond(w)

Next ==
  \/ \E w \in Workers : Request(w) \/ Step(w) \/ Die(w)
  \/ \E s \in Slots : Book(s) \/ CancelBooking(s) \/ Approach(s)

Spec == Init /\ [][Next]_vars

-----------------------------------------------------------------------------
\* Every variable has its type, and a session that exists has a seat or more.
TypeOK ==
  /\ entry \in [Entries -> {NoEntry} \union
       [day : Days, works : SUBSET Works, cap : Capacities, by : Workers \union {NoWorker}]]
  /\ lastPk \in Nat
  /\ session \in [Slots -> [status : {"NONE", "OPEN", "CANCELLED"}, cap : Capacities \union {0}]]
  /\ \A s \in Slots : session[s].status = "NONE" <=> session[s].cap = 0
  /\ booked \subseteq Slots
  /\ blocked \in BOOLEAN
  /\ workCap \in [Works -> Capacities]
  /\ near \subseteq Slots
  /\ pc \in [Workers -> {"idle", "copy", "save", "clear", "select", "pick", "saved", "delete", "busy",
                         "insert", "match", "cancel", "store"}]
  /\ \A w \in Workers : job[w].kind \in
       {"none", "create", "copy", "update", "delete", "room", "work", "command"}
  /\ \A w \in Workers : job[w] = NoJob <=> pc[w] = "idle"
  /\ batch \in [Workers -> SUBSET Slots]
  /\ plan \in [Workers -> [Slots -> Capacities \union {0}]]
  /\ served \in 0..MaxRequests
  /\ calm \in BOOLEAN

\* Requests have been served one after another and none is being served.
Settled == calm /\ \A w \in Workers : pc[w] = "idle"

\* After edits that did not overlap, every live session of the room is covered
\* by an entry: each edit cancels what it orphans, on both weekdays of a move
\* (LabHeadScheduleUpdateView, LabHeadScheduleDeleteView).
NoOrphans == Settled => \A s \in Live : Matching(s) # {}

\* The seats of a live session are then those of an entry that covers it and of
\* its lab work, whichever of them was edited last and whoever generated it.
CapacityFromEntry ==
  Settled => \A s \in Live : \E e \in Matching(s) :
    /\ session[s].cap \in {entry[e].cap, workCap[WorkOf[s]]}
    /\ session[s].cap <= entry[e].cap /\ session[s].cap <= workCap[WorkOf[s]]

\* A blocked room then has no live session, and generation gives it none.
BlockedRoomIsEmpty == Settled /\ blocked => Live = {}

\* A cancelled session is never live again, however generation, synchronisation
\* and capacity updates overlap ("never reopens", slot_generation.py:5).
CancelledStaysCancelled ==
  [][\A s \in Slots : session[s].status = "CANCELLED" => session'[s].status = "CANCELLED"]_vars

-----------------------------------------------------------------------------
(* What a docstring says of the program *)

\* "Deletion with confirmation" (schedule_admin.py:231): a deletion that was not
\* confirmed costs no student a booking.
DeletionIsConfirmed ==
  [][\A w \in Workers :
       /\ job[w].kind = "delete" /\ ~job[w].forced
       /\ pc[w] = "cancel" /\ pc'[w] = "match"
       => First(batch[w]) \notin booked]_vars

=============================================================================
