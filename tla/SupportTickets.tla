--------------------------- MODULE SupportTickets ---------------------------
(***************************************************************************)
(* Support tickets (apps/bookings/services/support.py) as the views        *)
(* (apps/bookings/views/support.py) call it.  A view loads the ticket      *)
(* before the transaction that replies to it or sets its status, and a     *)
(* message gets its time before it becomes visible: replies, status        *)
(* changes and readers overlap at both places.                             *)
(*                                                                         *)
(* Bodies, subjects and the rendering of the feed are left out.            *)
(***************************************************************************)
EXTENDS Integers, Sequences, FiniteSets

CONSTANTS
  Tickets,      \* primary keys
  Students, Staff, Centers,
  Reachable,    \* centres a student may write to: student_support_training_centers_qs
  CenterOf,     \* resolve_staff_training_center of a member of staff, Everywhere for SYS_ADMIN
  Everywhere,
  Requests,     \* server threads
  DayLength,    \* units of time in a day
  Patience,     \* 24 hours in units of time
  Start,        \* when the run begins: day 0 is a Monday
  MaxNow,       \* bound: the last moment
  MaxRequests   \* bound: requests ever served

ASSUME SupportAssumption ==
  /\ DayLength \in Nat \ {0} /\ Patience \in Nat \ {0}
  /\ Start \in Nat /\ MaxNow \in Nat /\ MaxRequests \in Nat
  /\ Reachable \in [Students -> SUBSET Centers]
  /\ CenterOf \in [Staff -> Centers \union {Everywhere}]
  /\ Everywhere \notin Centers
  /\ Students \intersect Staff = {}

VARIABLES
  now,       \* the clock: no two rows are stamped at the same moment
  ticket,    \* SupportTicket rows: [status, student, center, created, read]
  messages,  \* committed SupportMessage rows of a ticket: [author, at, raced]
  request,   \* what a thread is doing
  served,    \* requests that have begun
  seen,      \* ghost: messages shown by the last view that marked the ticket as read
  last       \* ghost: who wrote to the ticket last

vars == <<now, ticket, messages, request, served, seen, last>>

Never == 0                       \* a null staff_read_at

NoTicket == [status |-> "NONE"]

Idle == [step |-> "idle"]

Exists(t) == ticket[t] # NoTicket

-----------------------------------------------------------------------------
(* Working hours *)

DayOf(t) == t \div DayLength

Midnight(d) == d * DayLength

IsWeekend(d) == d % 7 >= 5

\* _skip_to_next_weekday
SkipToNextWeekday(t) ==
  IF ~IsWeekend(DayOf(t)) THEN t
  ELSE Midnight(CHOOSE d \in DayOf(t) + 1 .. DayOf(t) + 2 :
         ~IsWeekend(d) /\ \A e \in DayOf(t) + 1 .. d - 1 : IsWeekend(e))

Lesser(a, b) == IF a <= b THEN a ELSE b

\* Defect: weekends are only skipped at the start.
AddHoursAfterSkip(start, hours) == SkipToNextWeekday(start) + hours

\* add_business_hours: the rest of each working day, until all hours are spent
AddBusinessHours(start, hours) ==
  LET spend[p \in Nat \X (0..hours)] ==   \* <<current, remaining>>
        IF p[2] = 0 THEN p[1]
        ELSE LET day   == SkipToNextWeekday(p[1])
                 chunk == Lesser(p[2], Midnight(DayOf(day) + 1) - day)
             IN  spend[<<day + chunk, p[2] - chunk>>]
  IN  spend[<<start, hours>>]

\* Defect: the time since the student's last message.
DeadlineOfLastMessage(t) ==
  LET own == {i \in DOMAIN messages[t] : messages[t][i].author \in Students}
      at  == {messages[t][i].at : i \in own} \union {ticket[t].created}
  IN  AddBusinessHours(CHOOSE x \in at : \A y \in at : y <= x, Patience)

\* The time counts from the creation of the ticket, also after a reopening.
Deadline(t) == AddBusinessHours(ticket[t].created, Patience)

\* is_support_ticket_overdue
Overdue(t) == Exists(t) /\ ticket[t].status = "OPEN" /\ now > Deadline(t)

\* Defect: the first message of the student counts.
UnreadFirst(t) ==
  LET own == {i \in DOMAIN messages[t] : messages[t][i].author \in Students} IN
  \/ ticket[t].read = Never
  \/ own # {} /\ \A i \in own : messages[t][i].at > ticket[t].read

\* The unread dot of _thread_rows
Unread(t) ==
  \/ ticket[t].read = Never
  \/ \E i \in DOMAIN messages[t] :
       messages[t][i].author \in Students /\ messages[t][i].at > ticket[t].read

-----------------------------------------------------------------------------
(* Requests *)

\* staff_support_tickets_qs
InScope(u, t) == CenterOf[u] = Everywhere \/ ticket[t].center = CenterOf[u]

Init ==
  /\ now = Start
  /\ ticket = [t \in Tickets |-> NoTicket]
  /\ messages = [t \in Tickets |-> <<>>]
  /\ request = [r \in Requests |-> Idle]
  /\ served = 0
  /\ seen = [t \in Tickets |-> 0]
  /\ last = [t \in Tickets |-> "nobody"]

Stamp == now < MaxNow /\ now' = now + 1

\* create_ticket checks the centre and inserts one row.
CreateTicket(t) ==
  \E u \in Students : \E c \in Reachable[u] :
    /\ ~Exists(t)
    /\ Stamp
    /\ ticket' = [ticket EXCEPT ![t] =
         [status |-> "OPEN", student |-> u, center |-> c, created |-> now, read |-> Never]]
    /\ last' = [last EXCEPT ![t] = "student"]
    /\ UNCHANGED <<messages, request, served, seen>>

Goto(r, to) == request' = [request EXCEPT ![r] = to]

\* get_object_or_404 with the student's own tickets, _staff_ticket with those in
\* scope: the status is the one of now.
Load(r) ==
  \E t \in Tickets, u \in Students \union Staff :
    /\ request[r] = Idle /\ Exists(t)
    /\ served < MaxRequests
    /\ served' = served + 1
    /\ IF u \in Students THEN ticket[t].student = u ELSE InScope(u, t)
    /\ Goto(r, [step |-> "loaded", user |-> u, ticket |-> t, status |-> ticket[t].status,
                at |-> Never, crossed |-> FALSE, raced |-> FALSE])
    /\ UNCHANGED <<now, ticket, messages, seen, last>>

\* SupportError: an empty message or a status that is not allowed
Refuse(r) ==
  /\ request[r].step = "loaded"
  /\ Goto(r, Idle)
  /\ UNCHANGED <<now, ticket, messages, served, seen, last>>

\* SupportMessage.objects.create: nobody else sees the row before the commit.
InsertMessage(r) ==
  /\ request[r].step = "loaded"
  /\ Stamp
  /\ Goto(r, [request[r] EXCEPT !.step = "inserted", !.at = now])
  /\ UNCHANGED <<ticket, messages, served, seen, last>>

Committed(r) ==
  LET q == request[r] IN
  messages' = [messages EXCEPT ![q.ticket] =
    Append(@, [author |-> q.user, at |-> q.at, raced |-> q.raced])]

\* Defect: a closed ticket stays closed.
CommitReplyUnlessClosed(r) ==
  LET q == request[r] IN
  /\ q.step = "inserted" /\ q.user \in Students
  /\ Committed(r)
  /\ ticket' = IF q.status = "RESOLVED"
                 THEN [ticket EXCEPT ![q.ticket].status = "OPEN"] ELSE ticket
  /\ last' = [last EXCEPT ![q.ticket] = IF q.crossed THEN "crossed" ELSE "student"]
  /\ Goto(r, Idle)
  /\ UNCHANGED <<now, served, seen>>

\* student_reply opens the ticket again if it was not open when it was loaded.
CommitReply(r) ==
  LET q == request[r] IN
  /\ q.step = "inserted" /\ q.user \in Students
  /\ Committed(r)
  /\ ticket' = IF q.status # "OPEN"
                 THEN [ticket EXCEPT ![q.ticket].status = "OPEN"] ELSE ticket
  /\ last' = [last EXCEPT ![q.ticket] = IF q.crossed THEN "crossed" ELSE "student"]
  /\ Goto(r, Idle)
  /\ UNCHANGED <<now, served, seen>>

\* A member of staff writes a status: replies under way have loaded another one.
StaffWrites(r, status) ==
  LET t == request[r].ticket IN
  /\ ticket' = [ticket EXCEPT ![t].status = status]
  /\ last' = [last EXCEPT ![t] = "staff"]
  /\ request' = [p \in Requests |->
       IF p = r THEN Idle
       ELSE IF request[p] # Idle /\ request[p].ticket = t
              THEN [request[p] EXCEPT !.crossed = TRUE] ELSE request[p]]
  /\ UNCHANGED <<now, served, seen>>

\* staff_reply
CommitAnswer(r) ==
  /\ request[r].step = "inserted" /\ request[r].user \in Staff
  /\ Committed(r)
  /\ StaffWrites(r, "RESOLVED")

\* Defect: whatever status the form sends.
SettableAny == {"OPEN", "IN_PROGRESS", "RESOLVED", "CLOSED", "WAITING"}

Settable == {"IN_PROGRESS", "RESOLVED", "CLOSED"}

\* staff_set_status
SetStatus(r) ==
  \E status \in Settable :
    /\ request[r].step = "loaded" /\ request[r].user \in Staff
    /\ StaffWrites(r, status)
    /\ UNCHANGED messages

\* StaffChatView and StaffSupportView: mark_staff_read is a statement of its own, ...
MarkStaffRead(r) ==
  LET t == request[r].ticket IN
  /\ request[r].step = "loaded" /\ request[r].user \in Staff
  /\ Stamp
  /\ ticket' = [ticket EXCEPT ![t].read = now]
  /\ request' = [p \in Requests |->
       IF p = r THEN [request[r] EXCEPT !.step = "marked"]
       ELSE IF request[p].step = "inserted" /\ request[p].ticket = t
              THEN [request[p] EXCEPT !.raced = TRUE] ELSE request[p]]
  /\ UNCHANGED <<messages, served, seen, last>>

\* ... and the messages are queried after it.
ShowChat(r) ==
  /\ request[r].step = "marked"
  /\ seen' = [seen EXCEPT ![request[r].ticket] = Len(messages[request[r].ticket])]
  /\ Goto(r, Idle)
  /\ UNCHANGED <<now, ticket, messages, served, last>>

\* Nobody writes until the next midnight.
Wait ==
  /\ Midnight(DayOf(now) + 1) <= MaxNow
  /\ now' = Midnight(DayOf(now) + 1)
  /\ UNCHANGED <<ticket, messages, request, served, seen, last>>

Next ==
  \/ \E t \in Tickets : CreateTicket(t)
  \/ \E r \in Requests :
       \/ Load(r) \/ Refuse(r) \/ InsertMessage(r) \/ CommitReply(r) \/ CommitAnswer(r)
       \/ SetStatus(r) \/ MarkStaffRead(r) \/ ShowChat(r)
  \/ Wait

Spec == Init /\ [][Next]_vars

-----------------------------------------------------------------------------
Statuses == {"OPEN", "IN_PROGRESS", "RESOLVED", "CLOSED"}

Steps == [step : {"loaded", "inserted", "marked"}, user : Students \union Staff,
          ticket : Tickets, status : Statuses, at : Nat, crossed : BOOLEAN, raced : BOOLEAN]

\* Every variable has its type.
TypeOK ==
  /\ now \in Nat
  /\ ticket \in [Tickets -> {NoTicket} \union
       [status : Statuses, student : Students, center : Centers, created : Nat, read : Nat]]
  /\ DOMAIN messages = Tickets
  /\ \A t \in Tickets : \A i \in DOMAIN messages[t] :
       messages[t][i] \in [author : Students \union Staff, at : Nat, raced : BOOLEAN]
  /\ request \in [Requests -> {Idle} \union Steps]
  /\ served \in 0..MaxRequests
  /\ seen \in [Tickets -> Nat]
  /\ last \in [Tickets -> {"nobody", "student", "crossed", "staff"}]

BeingShown(t) == \E r \in Requests : request[r].step = "marked" /\ request[r].ticket = t

\* The unread dot (_thread_rows, mark_staff_read) hides no message: what a student
\* wrote and no view that marks the ticket has shown keeps the ticket unread.  Only
\* a message stamped before such a view marked and committed after it showed can
\* be missed.
UnseenIsUnread ==
  \A t \in Tickets : \A i \in seen[t] + 1 .. Len(messages[t]) :
    messages[t][i].author \in Students /\ ~messages[t][i].raced /\ ~BeingShown(t) => Unread(t)

\* "A student's message reopens the ticket" (support.py:4): the ticket that a
\* student wrote to last is open, unless a member of staff wrote a status between
\* the load and the commit of that message, which student_reply does not notice.
UnansweredIsOpen == \A t \in Tickets : last[t] = "student" => ticket[t].status = "OPEN"

\* Units of working time from a to b
WorkingTime(a, b) == Cardinality({t \in a .. b - 1 : ~IsWeekend(DayOf(t))})

Answered(t) == \E i \in DOMAIN messages[t] : messages[t][i].author \in Staff

\* "An open ticket without an answer for more than 24 working hours" (support.py:42) is
\* overdue, whatever weekends lie between, and no open ticket is earlier.  A ticket that was
\* answered and opened again is not asked to be overdue: the code counts from its creation
\* and may show the badge at once, which the docstring does not say.
OverdueAfterADay ==
  \A t \in Tickets : Exists(t) /\ ticket[t].status = "OPEN" =>
    LET worked == WorkingTime(ticket[t].created, now) IN
    /\ Overdue(t) => worked >= Patience
    /\ worked > Patience /\ ~Answered(t) => Overdue(t)

\* Only staff ends an overdue ticket: neither time nor a message of the student
\* takes the badge away (is_support_ticket_overdue counts from the creation).
OverdueEndsByStaff ==
  [][\A t \in Tickets : Overdue(t) /\ ~Overdue(t)' => last'[t] = "staff"]_vars

=============================================================================
