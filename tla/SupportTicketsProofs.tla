------------------------ MODULE SupportTicketsProofs ------------------------
(***************************************************************************)
(* The unread dot, the reopening and the deadline of tickets, for any      *)
(* number of tickets, people, centres and overlapping requests, any length *)
(* of the day and any number of working hours.                             *)
(***************************************************************************)
EXTENDS SupportTickets, FiniteSetTheorems, SequenceTheorems, WellFoundedInduction, TLAPS

Messages == [author : Students \union Staff, at : Nat, raced : BOOLEAN]

Rows == [status : Statuses, student : Students, center : Centers, created : Nat, read : Nat]

\* The types, with the feeds as sequences
Types == TypeOK /\ messages \in [Tickets -> Seq(Messages)]

\* What a student's message shows of itself behind the mark of a ticket
Fresh(t, at) == ticket[t].read = Never \/ at > ticket[t].read

\* A request knows an existing ticket; a message that no reader has raced is stamped
\* behind the mark; a status OPEN that nobody has crossed is still the ticket's.
Sound(r) ==
  request[r] # Idle =>
    LET q == request[r] IN
    /\ Exists(q.ticket)
    /\ q.step = "inserted" /\ ~q.raced => Fresh(q.ticket, q.at)
    /\ ~q.crossed /\ q.status = "OPEN" => ticket[q.ticket].status = "OPEN"

RequestsAreSound == \A r \in Requests : Sound(r)

\* Nothing is marked in the future.
ReadsArePast == \A t \in Tickets : Exists(t) => ticket[t].read = Never \/ ticket[t].read < now

Inductive ==
  Types /\ RequestsAreSound /\ ReadsArePast /\ UnseenIsUnread /\ UnansweredIsOpen

-----------------------------------------------------------------------------
(* Types *)

\* A row is no absent ticket, and a request under way is not idle.
LEMMA Distinct ==
  /\ \A x \in Rows : x # NoTicket /\ x.status # "NONE"
  /\ \A q \in Steps : q # Idle /\ q.step # "idle"
<1>1. ASSUME NEW x \in Rows PROVE x # NoTicket /\ x.status # "NONE"
  BY DEF Rows, Statuses, NoTicket
<1>2. ASSUME NEW q \in Steps PROVE q # Idle /\ q.step # "idle"
  BY DEF Steps, Idle
<1>3. QED  BY <1>1, <1>2

\* What the types say of a request that has come to some step
LEMMA Working ==
  ASSUME Types, NEW r \in Requests, request[r].step \in {"loaded", "inserted", "marked"}
  PROVE  request[r] \in Steps /\ request[r] # Idle /\ request[r].ticket \in Tickets
<1>1. request[r] \in {Idle} \union Steps
  BY DEF Types, TypeOK
<1>2. request[r] # Idle
  BY DEF Idle
<1>3. QED  BY <1>1, <1>2 DEF Steps

\* A row of a ticket that exists
LEMMA Existing ==
  ASSUME Types, NEW t \in Tickets
  PROVE  Exists(t) <=> ticket[t] \in Rows
  BY Distinct DEF Types, TypeOK, Exists, Rows

\* The initial state has its types.
LEMMA TypesInit == Init => Types
<1> SUFFICES ASSUME Init PROVE Types
  OBVIOUS
<1>1. TypeOK
  BY SupportAssumption DEF Init, TypeOK
<1>2. messages \in [Tickets -> Seq(Messages)]
  BY DEF Init
<1>3. QED  BY <1>1, <1>2 DEF Types

-----------------------------------------------------------------------------
(* Steps keep the types *)

Parts ==
  /\ now \in Nat
  /\ ticket \in [Tickets -> {NoTicket} \union Rows]
  /\ messages \in [Tickets -> Seq(Messages)]
  /\ request \in [Requests -> {Idle} \union Steps]
  /\ served \in 0..MaxRequests
  /\ seen \in [Tickets -> Nat]
  /\ last \in [Tickets -> {"nobody", "student", "crossed", "staff"}]

\* The two ways to say the types
LEMMA TypesAreParts == Types => Parts
  BY DEF Types, TypeOK, Parts, Rows

\* ... and back, after a step
LEMMA PartsAreTypes == ASSUME Parts' PROVE Types'
<1>1. \A t \in Tickets : \A i \in DOMAIN messages'[t] :
        messages'[t][i] \in [author : Students \union Staff, at : Nat, raced : BOOLEAN]
  <2>1. ASSUME NEW t \in Tickets, NEW i \in DOMAIN messages'[t]
        PROVE  messages'[t][i] \in Messages
    <3>1. messages'[t] \in Seq(Messages)
      BY DEF Parts
    <3>2. i \in 1..Len(messages'[t])
      BY <3>1
    <3>3. QED  BY <3>1, <3>2, ElementOfSeq
  <2>2. QED  BY <2>1 DEF Messages
<1>2. DOMAIN messages' = Tickets
  BY DEF Parts
<1>3. /\ now' \in Nat
      /\ ticket' \in [Tickets -> {NoTicket} \union Rows]
      /\ request' \in [Requests -> {Idle} \union Steps]
      /\ served' \in 0..MaxRequests
      /\ seen' \in [Tickets -> Nat]
      /\ last' \in [Tickets -> {"nobody", "student", "crossed", "staff"}]
  BY DEF Parts
<1>4. TypeOK'
  BY <1>1, <1>2, <1>3 DEF TypeOK, Rows
<1>5. QED  BY <1>4 DEF Types, Parts

\* A quotient, rounded up, is at least as much.
LEMMA Quotient ==
  ASSUME NEW a \in Nat, NEW b \in Nat \ {0}
  PROVE  (a \div b + 1) * b \in Nat /\ a < (a \div b + 1) * b
  OBVIOUS

\* The next midnight is ahead.
LEMMA MidnightIsAhead ==
  ASSUME NEW t \in Nat
  PROVE  Midnight(DayOf(t) + 1) \in Nat /\ t < Midnight(DayOf(t) + 1)
<1>1. DayLength \in Nat \ {0}
  BY SupportAssumption
<1>2. Midnight(DayOf(t) + 1) = (t \div DayLength + 1) * DayLength
  BY DEF Midnight, DayOf
<1>3. QED  BY <1>1, <1>2, Quotient

\* The message that a commit appends
Message(r) == [author |-> request[r].user, at |-> request[r].at, raced |-> request[r].raced]

\* The feed that a commit leaves
LEMMA CommittedTypes ==
  ASSUME Types, NEW r \in Requests, request[r].step = "inserted", Committed(r)
  PROVE  /\ Message(r) \in Messages
         /\ messages' = [messages EXCEPT ![request[r].ticket] = Append(@, Message(r))]
         /\ messages' \in [Tickets -> Seq(Messages)]
<1>1. request[r] \in Steps /\ request[r].ticket \in Tickets
  BY Working
<1>2. Message(r) \in Messages
  BY <1>1 DEF Message, Messages, Steps
<1>3. messages' = [messages EXCEPT ![request[r].ticket] = Append(@, Message(r))]
  BY DEF Committed, Message
<1>4. messages[request[r].ticket] \in Seq(Messages)
  BY <1>1 DEF Types
<1>5. Append(messages[request[r].ticket], Message(r)) \in Seq(Messages)
  BY <1>2, <1>4
<1>6. QED  BY <1>2, <1>3, <1>5 DEF Types

\* A new status on a row
LEMMA StatusTypes ==
  ASSUME Types, NEW t \in Tickets, Exists(t), NEW status \in Statuses
  PROVE  [ticket EXCEPT ![t].status = status] \in [Tickets -> {NoTicket} \union Rows]
<1>1. ticket[t] \in Rows /\ ticket \in [Tickets -> {NoTicket} \union Rows]
  BY Existing, TypesAreParts DEF Parts
<1>2. [ticket[t] EXCEPT !.status = status] \in Rows
  BY <1>1 DEF Rows
<1>3. [ticket EXCEPT ![t].status = status] = [ticket EXCEPT ![t] = [ticket[t] EXCEPT !.status = status]]
  BY <1>1
<1>4. QED  BY <1>1, <1>2, <1>3

\* What a member of staff writes has its types.
LEMMA StaffWritesTypes ==
  ASSUME Types, RequestsAreSound, NEW r \in Requests, request[r] # Idle,
         NEW status \in Statuses, StaffWrites(r, status),
         messages' \in [Tickets -> Seq(Messages)]
  PROVE  Types'
<1> USE TypesAreParts DEF Parts
<1>1. request[r] \in Steps /\ request[r].ticket \in Tickets /\ Exists(request[r].ticket)
  BY DEF RequestsAreSound, Sound, Steps
<1>2. ticket' \in [Tickets -> {NoTicket} \union Rows]
  BY <1>1, StatusTypes DEF StaffWrites
<1>3. request' \in [Requests -> {Idle} \union Steps]
  <2>1. ASSUME NEW p \in Requests PROVE request'[p] \in {Idle} \union Steps
    <3>1. CASE request'[p] \in {Idle, request[p]}
      BY <3>1
    <3>2. CASE request[p] # Idle /\ request'[p] = [request[p] EXCEPT !.crossed = TRUE]
      BY <3>2 DEF Steps
    <3>3. QED  BY <3>1, <3>2 DEF StaffWrites
  <2>2. DOMAIN request' = Requests /\ request' = [p \in Requests |-> request'[p]]
    BY DEF StaffWrites
  <2>3. QED  BY <2>1, <2>2
<1>4. last' \in [Tickets -> {"nobody", "student", "crossed", "staff"}]
  BY <1>1 DEF StaffWrites
<1>5. QED  BY <1>2, <1>3, <1>4, PartsAreTypes DEF StaffWrites

\* Every step keeps the types.
LEMMA TypesKept ==
  ASSUME Types, RequestsAreSound, [Next]_vars
  PROVE  Types'
<1> USE TypesAreParts, PartsAreTypes DEF Parts
<1>1. ASSUME NEW t \in Tickets, CreateTicket(t) PROVE Types'
  <2>1. PICK u \in Students : \E c \in Reachable[u] :
          ticket' = [ticket EXCEPT ![t] =
            [status |-> "OPEN", student |-> u, center |-> c, created |-> now, read |-> Never]]
    BY <1>1 DEF CreateTicket
  <2>2. PICK c \in Reachable[u] :
          ticket' = [ticket EXCEPT ![t] =
            [status |-> "OPEN", student |-> u, center |-> c, created |-> now, read |-> Never]]
    BY <2>1
  <2>3. c \in Centers
    BY SupportAssumption
  <2>4. [status |-> "OPEN", student |-> u, center |-> c, created |-> now, read |-> Never] \in Rows
    BY <2>3 DEF Rows, Statuses, Never
  <2>5. ticket' \in [Tickets -> {NoTicket} \union Rows]
    BY <2>2, <2>4
  <2>6. now' \in Nat /\ UNCHANGED <<messages, request, served, seen>>
        /\ last' = [last EXCEPT ![t] = "student"]
    BY <1>1 DEF CreateTicket, Stamp
  <2>7. last' \in [Tickets -> {"nobody", "student", "crossed", "staff"}]
    BY <2>6
  <2>8. QED  BY <2>5, <2>6, <2>7
<1>2. ASSUME NEW r \in Requests, Load(r) PROVE Types'
  <2>1. PICK t \in Tickets, u \in Students \union Staff :
          /\ Exists(t)
          /\ request' = [request EXCEPT ![r] =
               [step |-> "loaded", user |-> u, ticket |-> t, status |-> ticket[t].status,
                at |-> Never, crossed |-> FALSE, raced |-> FALSE]]
    BY <1>2 DEF Load, Goto
  <2>2. ticket[t].status \in Statuses
    BY <2>1, Existing DEF Rows
  <2>3. [step |-> "loaded", user |-> u, ticket |-> t, status |-> ticket[t].status,
         at |-> Never, crossed |-> FALSE, raced |-> FALSE] \in Steps
    BY <2>2 DEF Steps, Never
  <2>4. request' \in [Requests -> {Idle} \union Steps]
    BY <2>1, <2>3
  <2>5. served' \in 0..MaxRequests /\ UNCHANGED <<now, ticket, messages, seen, last>>
    BY <1>2, SupportAssumption DEF Load
  <2>6. QED  BY <2>4, <2>5
<1>3. ASSUME NEW r \in Requests, Refuse(r) PROVE Types'
  BY <1>3 DEF Refuse, Goto
<1>4. ASSUME NEW r \in Requests, InsertMessage(r) PROVE Types'
  <2>1. request[r] \in Steps
    BY <1>4, Working DEF InsertMessage
  <2>2. [request[r] EXCEPT !.step = "inserted", !.at = now] \in Steps
    BY <2>1 DEF Steps
  <2>3. request' \in [Requests -> {Idle} \union Steps]
    BY <1>4, <2>2 DEF InsertMessage, Goto
  <2>4. QED  BY <1>4, <2>3 DEF InsertMessage, Stamp
<1>5. ASSUME NEW r \in Requests, CommitReply(r) PROVE Types'
  <2>1. request[r] \in Steps /\ request[r].ticket \in Tickets /\ Exists(request[r].ticket)
    BY <1>5, Working DEF CommitReply, RequestsAreSound, Sound
  <2>2. messages' \in [Tickets -> Seq(Messages)]
    BY <1>5, CommittedTypes DEF CommitReply
  <2>3. "OPEN" \in Statuses
    BY DEF Statuses
  <2>4. ticket' \in [Tickets -> {NoTicket} \union Rows]
    BY <1>5, <2>1, <2>3, StatusTypes DEF CommitReply
  <2>5. last' \in [Tickets -> {"nobody", "student", "crossed", "staff"}]
    BY <1>5, <2>1 DEF CommitReply
  <2>6. request' \in [Requests -> {Idle} \union Steps]
    BY <1>5 DEF CommitReply, Goto
  <2>7. QED  BY <1>5, <2>2, <2>4, <2>5, <2>6 DEF CommitReply
<1>6. ASSUME NEW r \in Requests, CommitAnswer(r) PROVE Types'
  <2>1. request[r] # Idle /\ messages' \in [Tickets -> Seq(Messages)]
    BY <1>6, Working, CommittedTypes DEF CommitAnswer
  <2>2. "RESOLVED" \in Statuses
    BY DEF Statuses
  <2>3. QED  BY <1>6, <2>1, <2>2, StaffWritesTypes DEF CommitAnswer
<1>7. ASSUME NEW r \in Requests, SetStatus(r) PROVE Types'
  <2>1. request[r] # Idle /\ messages' \in [Tickets -> Seq(Messages)]
    BY <1>7, Working DEF SetStatus
  <2>2. PICK status \in Settable : StaffWrites(r, status)
    BY <1>7 DEF SetStatus
  <2>3. status \in Statuses
    BY DEF Statuses, Settable
  <2>4. QED  BY <2>1, <2>2, <2>3, StaffWritesTypes
<1>8. ASSUME NEW r \in Requests, MarkStaffRead(r) PROVE Types'
  <2>1. PICK t \in Tickets : t = request[r].ticket /\ ticket[t] \in Rows /\ request[r] \in Steps
    BY <1>8, Working, Existing DEF MarkStaffRead, RequestsAreSound, Sound
  <2>2. [ticket[t] EXCEPT !.read = now] \in Rows
    BY <2>1 DEF Rows
  <2>3. ticket' = [ticket EXCEPT ![t] = [ticket[t] EXCEPT !.read = now]]
    BY <1>8, <2>1 DEF MarkStaffRead
  <2>4. ticket' \in [Tickets -> {NoTicket} \union Rows]
    BY <2>2, <2>3
  <2>5. ASSUME NEW p \in Requests PROVE request'[p] \in {Idle} \union Steps
    <3>1. CASE request'[p] = [request[r] EXCEPT !.step = "marked"]
      BY <2>1, <3>1 DEF Steps
    <3>2. CASE request'[p] = request[p]
      BY <3>2
    <3>3. CASE request[p].step = "inserted" /\ request'[p] = [request[p] EXCEPT !.raced = TRUE]
      BY <3>3, Working DEF Steps
    <3>4. QED  BY <1>8, <3>1, <3>2, <3>3 DEF MarkStaffRead
  <2>6. request' \in [Requests -> {Idle} \union Steps]
    <3>1. request' = [p \in Requests |-> request'[p]]
      BY <1>8 DEF MarkStaffRead
    <3>2. QED  BY <2>5, <3>1
  <2>7. now' \in Nat /\ UNCHANGED <<messages, served, seen, last>>
    BY <1>8 DEF MarkStaffRead, Stamp
  <2>8. QED  BY <2>4, <2>6, <2>7
<1>9. ASSUME NEW r \in Requests, ShowChat(r) PROVE Types'
  <2>1. request[r].ticket \in Tickets
    BY <1>9, Working DEF ShowChat
  <2>2. Len(messages[request[r].ticket]) \in Nat
    BY <2>1
  <2>3. seen' \in [Tickets -> Nat]
    BY <1>9, <2>2 DEF ShowChat
  <2>4. QED  BY <1>9, <2>3 DEF ShowChat, Goto
<1>10. ASSUME Wait PROVE Types'
  <2>1. now' \in Nat
    BY <1>10, MidnightIsAhead DEF Wait
  <2>2. QED  BY <1>10, <2>1 DEF Wait
<1>11. CASE UNCHANGED vars
  BY <1>11 DEF vars
<1>12. QED
  BY <1>1, <1>2, <1>3, <1>4, <1>5, <1>6, <1>7, <1>8, <1>9, <1>10, <1>11 DEF Next

-----------------------------------------------------------------------------
(* Steps keep requests sound *)

\* A new status leaves the ticket there and its mark where it was.
LEMMA StatusChange ==
  ASSUME Types, NEW t \in Tickets, Exists(t), NEW status \in Statuses,
         ticket' = [ticket EXCEPT ![t].status = status]
  PROVE  /\ \A k \in Tickets \ {t} : ticket'[k] = ticket[k]
         /\ ticket'[t].read = ticket[t].read
         /\ ticket'[t].created = ticket[t].created
         /\ ticket'[t].status = status
         /\ Exists(t)'
<1>1. ticket[t] \in Rows /\ ticket \in [Tickets -> {NoTicket} \union Rows]
  BY Existing, TypesAreParts DEF Parts
<1>2. ticket' = [ticket EXCEPT ![t] = [ticket[t] EXCEPT !.status = status]]
  BY <1>1
<1>3. ticket'[t] = [ticket[t] EXCEPT !.status = status] /\ ticket'[t] \in Rows
  BY <1>1, <1>2 DEF Rows
<1>4. QED  BY <1>1, <1>2, <1>3, Distinct DEF Rows, Exists

\* A mark leaves the ticket there and its status as it was.
LEMMA MarkChange ==
  ASSUME Types, NEW t \in Tickets, Exists(t), ticket' = [ticket EXCEPT ![t].read = now]
  PROVE  /\ \A k \in Tickets \ {t} : ticket'[k] = ticket[k]
         /\ ticket'[t].read = now
         /\ ticket'[t].created = ticket[t].created
         /\ ticket'[t].status = ticket[t].status
         /\ Exists(t)'
<1>1. ticket[t] \in Rows /\ ticket \in [Tickets -> {NoTicket} \union Rows] /\ now \in Nat
  BY Existing, TypesAreParts DEF Parts
<1>2. ticket' = [ticket EXCEPT ![t] = [ticket[t] EXCEPT !.read = now]]
  BY <1>1
<1>3. ticket'[t] = [ticket[t] EXCEPT !.read = now] /\ ticket'[t] \in Rows
  BY <1>1, <1>2 DEF Rows
<1>4. QED  BY <1>1, <1>2, <1>3, Distinct DEF Rows, Exists

\* A request that stands still stays sound while its ticket only becomes OPEN.
LEMMA StandingStill ==
  ASSUME NEW p \in Requests, Sound(p), request'[p] = request[p],
         request[p] # Idle =>
           LET k == request[p].ticket IN
           /\ Exists(k) => Exists(k)'
           /\ ticket'[k].read = ticket[k].read
           /\ ticket'[k].status \in {ticket[k].status, "OPEN"}
  PROVE  Sound(p)'
<1>1. CASE request[p] = Idle
  BY <1>1 DEF Sound
<1>2. CASE request[p] # Idle
  <2>1. PICK q : q = request[p]
    OBVIOUS
  <2>2. PICK k : k = q.ticket
    OBVIOUS
  <2>3. Exists(k) /\ (q.step = "inserted" /\ ~q.raced => Fresh(k, q.at))
        /\ (~q.crossed /\ q.status = "OPEN" => ticket[k].status = "OPEN")
    BY <1>2, <2>1, <2>2 DEF Sound
  <2>4. Exists(k)' /\ ticket'[k].read = ticket[k].read
        /\ ticket'[k].status \in {ticket[k].status, "OPEN"}
    BY <1>2, <2>1, <2>2, <2>3
  <2>5. (q.step = "inserted" /\ ~q.raced => Fresh(k, q.at)')
        /\ (~q.crossed /\ q.status = "OPEN" => ticket'[k].status = "OPEN")
    BY <2>3, <2>4 DEF Fresh
  <2>6. request'[p] = q
    BY <2>1
  <2>7. QED  BY <2>2, <2>4, <2>5, <2>6 DEF Sound, Exists, Fresh
<1>3. QED  BY <1>1, <1>2

\* Staff writes on a ticket: everybody else at it is crossed.
LEMMA StaffWritesSound ==
  ASSUME Types, RequestsAreSound, NEW r \in Requests, request[r] # Idle,
         NEW status \in Statuses, StaffWrites(r, status)
  PROVE  RequestsAreSound'
<1>1. PICK t \in Tickets : t = request[r].ticket /\ Exists(t)
  BY TypesAreParts DEF RequestsAreSound, Sound, Parts, Steps
<1>2. ticket' = [ticket EXCEPT ![t].status = status]
  BY <1>1 DEF StaffWrites
<1>3. /\ \A k \in Tickets \ {t} : ticket'[k] = ticket[k]
      /\ ticket'[t].read = ticket[t].read
      /\ Exists(t)'
  BY <1>1, <1>2, StatusChange
<1>4. ASSUME NEW p \in Requests PROVE Sound(p)'
  <2>1. Sound(p) /\ request[p] \in {Idle} \union Steps
    BY TypesAreParts DEF RequestsAreSound, Parts
  <2>2. CASE request'[p] = Idle
    BY <2>2 DEF Sound
  <2>3. CASE request[p] \in Steps /\ request[p].ticket # t /\ request'[p] = request[p]
    <3>1. request[p].ticket \in Tickets \ {t}
      BY <2>3 DEF Steps
    <3>2. QED  BY <1>3, <2>1, <2>3, <3>1, StandingStill DEF Exists
  <2>4. CASE request[p] \in Steps /\ request[p].ticket = t
             /\ request'[p] = [request[p] EXCEPT !.crossed = TRUE]
    <3>1. /\ request'[p].ticket = t /\ request'[p].crossed
          /\ request'[p].step = request[p].step
          /\ request'[p].raced = request[p].raced
          /\ request'[p].at = request[p].at
      BY <2>4 DEF Steps
    <3>2. request[p].step = "inserted" /\ ~request[p].raced => Fresh(t, request[p].at)
      BY <2>1, <2>4, Distinct DEF Sound
    <3>3. QED  BY <1>3, <3>1, <3>2 DEF Sound, Fresh, Exists
  <2>5. request'[p] = IF p = r THEN Idle
          ELSE IF request[p] # Idle /\ request[p].ticket = t
                 THEN [request[p] EXCEPT !.crossed = TRUE] ELSE request[p]
    BY <1>1 DEF StaffWrites
  <2>6. QED  BY <2>1, <2>2, <2>3, <2>4, <2>5
<1>5. QED  BY <1>4 DEF RequestsAreSound

\* Every step keeps the requests sound.
LEMMA SoundKept ==
  ASSUME Types, RequestsAreSound, ReadsArePast, [Next]_vars
  PROVE  RequestsAreSound'
<1> DEFINE Open(p) == request[p] # Idle => request[p] \in Steps /\ request[p].ticket \in Tickets
<1>1. \A p \in Requests : Sound(p) /\ Open(p)
  BY TypesAreParts DEF RequestsAreSound, Parts, Steps
<1>2. request \in [Requests -> {Idle} \union Steps]
  BY TypesAreParts DEF Parts
<1>3. ASSUME NEW p \in Requests, request'[p] = request[p], ticket' = ticket PROVE Sound(p)'
  BY <1>1, <1>3, StandingStill DEF Exists
<1>4. ASSUME NEW p \in Requests, request'[p] = Idle PROVE Sound(p)'
  BY <1>4 DEF Sound
<1>5. ASSUME NEW t \in Tickets, CreateTicket(t), NEW p \in Requests PROVE Sound(p)'
  <2>1. PICK x : ticket' = [ticket EXCEPT ![t] = x]
    BY <1>5 DEF CreateTicket
  <2>2. request' = request /\ ~Exists(t)
    BY <1>5 DEF CreateTicket
  <2>3. request[p] # Idle => request[p].ticket # t
    BY <1>1, <2>2 DEF Sound
  <2>4. request[p] # Idle => ticket'[request[p].ticket] = ticket[request[p].ticket]
    BY <1>1, <2>1, <2>3, TypesAreParts DEF Parts
  <2>5. QED  BY <1>1, <2>2, <2>4, StandingStill DEF Exists
<1>6. ASSUME NEW r \in Requests, Load(r), NEW p \in Requests PROVE Sound(p)'
  <2>1. PICK t \in Tickets, u \in Students \union Staff :
          /\ Exists(t)
          /\ request' = [request EXCEPT ![r] =
               [step |-> "loaded", user |-> u, ticket |-> t, status |-> ticket[t].status,
                at |-> Never, crossed |-> FALSE, raced |-> FALSE]]
    BY <1>6 DEF Load, Goto
  <2>2. ticket' = ticket
    BY <1>6 DEF Load
  <2>3. CASE p # r
    BY <1>2, <1>3, <2>1, <2>2, <2>3
  <2>4. CASE p = r
    <3>1. /\ request'[p].ticket = t /\ request'[p].step = "loaded"
          /\ request'[p].status = ticket[t].status
      BY <1>2, <2>1, <2>4
    <3>2. QED  BY <2>1, <2>2, <3>1 DEF Sound, Exists
  <2>5. QED  BY <2>3, <2>4
<1>7. ASSUME NEW r \in Requests, Refuse(r) \/ ShowChat(r), NEW p \in Requests PROVE Sound(p)'
  <2>1. request' = [request EXCEPT ![r] = Idle] /\ ticket' = ticket
    BY <1>7 DEF Refuse, ShowChat, Goto
  <2>2. QED  BY <1>2, <1>3, <1>4, <2>1
<1>8. ASSUME NEW r \in Requests, InsertMessage(r), NEW p \in Requests PROVE Sound(p)'
  <2>1. request' = [request EXCEPT ![r] = [request[r] EXCEPT !.step = "inserted", !.at = now]]
        /\ ticket' = ticket /\ request[r] \in Steps
    BY <1>8, Working DEF InsertMessage, Goto
  <2>2. CASE p # r
    BY <1>2, <1>3, <2>1, <2>2
  <2>3. CASE p = r
    <3>1. PICK t \in Tickets : t = request[r].ticket
      BY <2>1 DEF Steps
    <3>2. request'[p] = [request[r] EXCEPT !.step = "inserted", !.at = now]
      BY <1>2, <2>1, <2>3
    <3>3. /\ request'[p].ticket = t /\ request'[p].at = now
          /\ request'[p].status = request[r].status
          /\ request'[p].crossed = request[r].crossed
      <4>1. PICK q \in Steps : q = request[r]
        BY <2>1
      <4>2. request'[p] = [q EXCEPT !.step = "inserted", !.at = now]
        BY <3>2, <4>1
      <4>3. /\ request'[p].ticket = q.ticket /\ request'[p].at = now
            /\ request'[p].status = q.status
            /\ request'[p].crossed = q.crossed
        BY <4>2 DEF Steps
      <4>4. QED  BY <3>1, <4>1, <4>3
    <3>4. Exists(t) /\ (~request[r].crossed /\ request[r].status = "OPEN" => ticket[t].status = "OPEN")
      BY <1>1, <2>1, <3>1, Distinct DEF Sound
    <3>5. Fresh(t, now)
      <4>1. ticket[t] \in Rows /\ now \in Nat
        BY <3>4, Existing, TypesAreParts DEF Parts
      <4>2. QED  BY <3>4, <4>1 DEF Fresh, ReadsArePast, Rows
    <3>6. QED  BY <2>1, <3>3, <3>4, <3>5 DEF Sound, Exists, Fresh
  <2>4. QED  BY <2>2, <2>3
<1>9. ASSUME NEW r \in Requests, CommitReply(r), NEW p \in Requests PROVE Sound(p)'
  <2>1. PICK t \in Tickets : t = request[r].ticket /\ Exists(t)
    BY <1>1, <1>9, Working DEF CommitReply, Sound
  <2>2. request' = [request EXCEPT ![r] = Idle]
        /\ (ticket' = ticket \/ ticket' = [ticket EXCEPT ![t].status = "OPEN"])
    BY <1>9, <2>1 DEF CommitReply, Goto
  <2>3. CASE p = r
    BY <1>2, <1>4, <2>2, <2>3
  <2>4. CASE p # r /\ ticket' = ticket
    BY <1>2, <1>3, <2>2, <2>4
  <2>5. CASE p # r /\ ticket' = [ticket EXCEPT ![t].status = "OPEN"]
    <3>1. /\ \A k \in Tickets \ {t} : ticket'[k] = ticket[k]
          /\ ticket'[t].read = ticket[t].read
          /\ ticket'[t].status = "OPEN"
          /\ Exists(t)'
      <4>1. "OPEN" \in Statuses
        BY DEF Statuses
      <4>2. QED  BY <2>1, <2>5, <4>1, StatusChange
    <3>2. request'[p] = request[p]
      BY <1>2, <2>2, <2>5
    <3>3. \A k \in Tickets : /\ Exists(k) => Exists(k)'
                             /\ ticket'[k].read = ticket[k].read
                             /\ ticket'[k].status \in {ticket[k].status, "OPEN"}
      BY <3>1 DEF Exists
    <3>4. QED  BY <1>1, <3>2, <3>3, StandingStill
  <2>6. QED  BY <2>2, <2>3, <2>4, <2>5
<1>10. ASSUME NEW r \in Requests, CommitAnswer(r) \/ SetStatus(r) PROVE RequestsAreSound'
  <2>1. request[r] # Idle
    BY <1>10, Working DEF CommitAnswer, SetStatus
  <2>2. \E status \in Statuses : StaffWrites(r, status)
    BY <1>10 DEF CommitAnswer, SetStatus, Settable, Statuses
  <2>3. QED  BY <2>1, <2>2, StaffWritesSound
<1>11. ASSUME NEW r \in Requests, MarkStaffRead(r), NEW p \in Requests PROVE Sound(p)'
  <2>1. PICK t \in Tickets : t = request[r].ticket /\ Exists(t) /\ request[r] \in Steps
    BY <1>1, <1>11, Working DEF MarkStaffRead, Sound
  <2>2. /\ \A k \in Tickets \ {t} : ticket'[k] = ticket[k]
        /\ ticket'[t].status = ticket[t].status
        /\ Exists(t)'
    BY <1>11, <2>1, MarkChange DEF MarkStaffRead
  <2>3. request'[p] = IF p = r THEN [request[r] EXCEPT !.step = "marked"]
          ELSE IF request[p].step = "inserted" /\ request[p].ticket = t
                 THEN [request[p] EXCEPT !.raced = TRUE] ELSE request[p]
    BY <1>11, <2>1 DEF MarkStaffRead
  <2>4. CASE request[p] = Idle /\ request'[p] = request[p]
    BY <1>4, <2>4
  <2>5. CASE request[p] \in Steps /\ request[p].ticket # t /\ request'[p] = request[p]
    <3>1. request[p].ticket \in Tickets \ {t}
      BY <2>5 DEF Steps
    <3>2. QED  BY <1>1, <2>2, <2>5, <3>1, StandingStill DEF Exists
  <2>6. CASE request[p] \in Steps /\ request[p].ticket = t
    <3>1. /\ request'[p].ticket = t
          /\ request'[p].status = request[p].status
          /\ request'[p].crossed = request[p].crossed
          /\ request'[p].step = "inserted" => request'[p].raced
      BY <2>1, <2>3, <2>6 DEF Steps
    <3>2. ~request[p].crossed /\ request[p].status = "OPEN" => ticket[t].status = "OPEN"
      BY <1>1, <2>6, Distinct DEF Sound
    <3>3. QED  BY <2>2, <3>1, <3>2 DEF Sound, Exists
  <2>7. CASE p = r
    BY <2>1, <2>6, <2>7
  <2>8. Idle.step # "inserted"
    BY DEF Idle
  <2>9. QED  BY <1>1, <2>3, <2>4, <2>5, <2>6, <2>7, <2>8
<1>12. CASE Wait \/ UNCHANGED vars
  <2>1. request' = request /\ ticket' = ticket
    BY <1>12 DEF Wait, vars
  <2>2. QED  BY <1>3, <2>1 DEF RequestsAreSound
<1>13. QED
  BY <1>5, <1>6, <1>7, <1>8, <1>9, <1>10, <1>11, <1>12 DEF Next, RequestsAreSound

-----------------------------------------------------------------------------
(* What each step does to one ticket *)

SameRow(t) == ticket'[t] = ticket[t]

SameFeed(t) == messages'[t] = messages[t] /\ seen'[t] = seen[t]

\* Staff writes one status and nothing else of the tickets.
LEMMA StaffWritesRow ==
  ASSUME Types, RequestsAreSound, NEW r \in Requests, request[r] # Idle,
         NEW status \in Statuses, StaffWrites(r, status), NEW k \in Tickets
  PROVE  /\ ticket'[k].read = ticket[k].read
         /\ last'[k] = "staff" \/ (last'[k] = last[k] /\ SameRow(k))
         /\ Exists(k)' => Exists(k)
         /\ seen'[k] = seen[k]
<1>1. PICK t \in Tickets : t = request[r].ticket /\ Exists(t)
  BY TypesAreParts DEF RequestsAreSound, Sound, Parts, Steps
<1>2. ticket' = [ticket EXCEPT ![t].status = status]
  BY <1>1 DEF StaffWrites
<1>3. /\ \A i \in Tickets \ {t} : ticket'[i] = ticket[i]
      /\ ticket'[t].read = ticket[t].read
  BY <1>1, <1>2, StatusChange
<1>4. last' = [last EXCEPT ![t] = "staff"] /\ seen' = seen
  BY <1>1 DEF StaffWrites
<1>5. QED  BY <1>1, <1>3, <1>4, TypesAreParts DEF Parts, Exists, SameRow

\* A reply opens its ticket or finds it open.
LEMMA ReplyRow ==
  ASSUME Types, RequestsAreSound, NEW r \in Requests, CommitReply(r), NEW k \in Tickets
  PROVE  /\ ticket'[k].read = ticket[k].read
         /\ \/ last'[k] = "crossed"
            \/ last'[k] = "student" /\ ticket'[k].status = "OPEN"
            \/ last'[k] = last[k] /\ SameRow(k)
         /\ Exists(k)' => Exists(k)
         /\ seen'[k] = seen[k]
<1>1. PICK t \in Tickets : t = request[r].ticket /\ Exists(t) /\ request[r] # Idle
  BY Working DEF CommitReply, RequestsAreSound, Sound
<1>2. /\ last' = [last EXCEPT ![t] = IF request[r].crossed THEN "crossed" ELSE "student"]
      /\ seen' = seen
      /\ ticket' = IF request[r].status # "OPEN"
                     THEN [ticket EXCEPT ![t].status = "OPEN"] ELSE ticket
  BY <1>1 DEF CommitReply
<1>3. last \in [Tickets -> {"nobody", "student", "crossed", "staff"}] /\ "OPEN" \in Statuses
  BY TypesAreParts DEF Parts, Statuses
<1>4. CASE ticket' = [ticket EXCEPT ![t].status = "OPEN"]
  <2>1. /\ \A i \in Tickets \ {t} : ticket'[i] = ticket[i]
        /\ ticket'[t].read = ticket[t].read
        /\ ticket'[t].status = "OPEN"
    <3>1. "OPEN" \in Statuses
      BY <1>3
    <3>2. QED  BY <1>1, <1>4, <3>1, StatusChange
  <2>2. CASE k = t
    <3>1. last'[k] \in {"crossed", "student"}
      BY <1>2, <1>3, <2>2
    <3>2. QED  BY <1>1, <1>2, <2>1, <2>2, <3>1
  <2>3. CASE k # t
    <3>1. last'[k] = last[k] /\ ticket'[k] = ticket[k]
      BY <1>2, <1>3, <2>1, <2>3
    <3>2. QED  BY <1>2, <3>1 DEF Exists, SameRow
  <2>4. QED  BY <2>2, <2>3
<1>5. CASE ticket' = ticket /\ request[r].status = "OPEN"
  <2>1. ~request[r].crossed => ticket[t].status = "OPEN"
    BY <1>1, <1>5 DEF RequestsAreSound, Sound
  <2>2. QED  BY <1>2, <1>3, <1>5, <2>1 DEF Exists, SameRow
<1>6. QED  BY <1>2, <1>4, <1>5

\* A mark touches the read time of one ticket.
LEMMA MarkRow ==
  ASSUME Types, RequestsAreSound, NEW r \in Requests, MarkStaffRead(r), NEW k \in Tickets
  PROVE  /\ ticket'[k].status = ticket[k].status
         /\ Exists(k)' => Exists(k)
         /\ \/ k # request[r].ticket /\ SameRow(k)
            \/ k = request[r].ticket /\ ticket'[k].read = now
<1>1. PICK t \in Tickets : t = request[r].ticket /\ Exists(t)
  BY Working DEF MarkStaffRead, RequestsAreSound, Sound
<1>2. /\ \A i \in Tickets \ {t} : ticket'[i] = ticket[i]
      /\ ticket'[t].read = now
      /\ ticket'[t].status = ticket[t].status
  BY <1>1, MarkChange DEF MarkStaffRead
<1>3. QED  BY <1>1, <1>2 DEF Exists, SameRow

\* A new ticket is open, never read and waits for an answer.
LEMMA CreateRow ==
  ASSUME Types, NEW t \in Tickets, CreateTicket(t), NEW k \in Tickets
  PROVE  /\ SameFeed(k) /\ request' = request /\ now' = now + 1
         /\ \/ k = t /\ ticket'[k].read = Never /\ ticket'[k].status = "OPEN"
            \/ k # t /\ SameRow(k) /\ last'[k] = last[k]
<1>1. PICK u \in Students : \E c \in Reachable[u] :
        ticket' = [ticket EXCEPT ![t] =
          [status |-> "OPEN", student |-> u, center |-> c, created |-> now, read |-> Never]]
  BY DEF CreateTicket
<1>2. PICK c \in Reachable[u] :
        ticket' = [ticket EXCEPT ![t] =
          [status |-> "OPEN", student |-> u, center |-> c, created |-> now, read |-> Never]]
  BY <1>1
<1>3. /\ last' = [last EXCEPT ![t] = "student"]
      /\ UNCHANGED <<messages, request, seen>> /\ now' = now + 1
  BY DEF CreateTicket, Stamp
<1>4. ticket \in [Tickets -> {NoTicket} \union Rows]
      /\ last \in [Tickets -> {"nobody", "student", "crossed", "staff"}]
  BY TypesAreParts DEF Parts
<1>5. QED  BY <1>2, <1>3, <1>4 DEF SameFeed, SameRow

\* The other steps touch no row.
LEMMA QuietSteps ==
  ASSUME NEW r \in Requests, Load(r) \/ Refuse(r) \/ InsertMessage(r)
  PROVE  ticket' = ticket /\ messages' = messages /\ seen' = seen /\ last' = last
  BY DEF Load, Refuse, InsertMessage

\* Time does not go back.
LEMMA TimeGoesOn == ASSUME Types, [Next]_vars PROVE now' \in Nat /\ now <= now'
<1>1. now \in Nat
  BY TypesAreParts DEF Parts
<1>2. CASE now' = now \/ now' = now + 1
  BY <1>1, <1>2
<1>3. CASE Wait
  <2>1. PICK m \in Nat : m = Midnight(DayOf(now) + 1) /\ now < m
    BY <1>1, MidnightIsAhead
  <2>2. now' = m
    BY <1>3, <2>1 DEF Wait
  <2>3. QED  BY <1>1, <2>1, <2>2
<1>4. ASSUME NEW r \in Requests,
             \/ Load(r) \/ Refuse(r) \/ InsertMessage(r) \/ CommitReply(r) \/ CommitAnswer(r)
             \/ SetStatus(r) \/ MarkStaffRead(r) \/ ShowChat(r)
      PROVE  now' = now \/ now' = now + 1
  BY <1>4 DEF Load, Refuse, InsertMessage, CommitReply, CommitAnswer, SetStatus, StaffWrites,
              MarkStaffRead, ShowChat, Stamp
<1>5. ASSUME NEW t \in Tickets, CreateTicket(t) PROVE now' = now + 1
  BY <1>5 DEF CreateTicket, Stamp
<1>6. QED  BY <1>2, <1>3, <1>4, <1>5 DEF Next, vars

\* Nothing is marked in the future.
LEMMA ReadsKept ==
  ASSUME Types, RequestsAreSound, ReadsArePast, [Next]_vars PROVE ReadsArePast'
<1> SUFFICES ASSUME NEW k \in Tickets, Exists(k)'
             PROVE  ticket'[k].read = Never \/ ticket'[k].read < now'
  BY DEF ReadsArePast
<1>1. now \in Nat /\ now' \in Nat /\ now <= now'
  BY TimeGoesOn, TypesAreParts DEF Parts
<1>2. ASSUME Exists(k), ticket'[k].read = ticket[k].read
      PROVE  ticket'[k].read = Never \/ ticket'[k].read < now'
  <2>1. ticket[k].read \in Nat /\ (ticket[k].read = Never \/ ticket[k].read < now)
    BY <1>2, Existing DEF ReadsArePast, Rows
  <2>2. QED  BY <1>1, <1>2, <2>1
<1>3. ASSUME SameRow(k) PROVE ticket'[k].read = Never \/ ticket'[k].read < now'
  BY <1>2, <1>3 DEF SameRow, Exists
<1>4. ASSUME NEW t \in Tickets, CreateTicket(t)
      PROVE  ticket'[k].read = Never \/ ticket'[k].read < now'
  BY <1>3, <1>4, CreateRow
<1>5. ASSUME NEW r \in Requests, CommitReply(r)
      PROVE  ticket'[k].read = Never \/ ticket'[k].read < now'
  BY <1>2, <1>5, ReplyRow
<1>6. ASSUME NEW r \in Requests, CommitAnswer(r) \/ SetStatus(r)
      PROVE  ticket'[k].read = Never \/ ticket'[k].read < now'
  <2>1. request[r] # Idle
    BY <1>6, Working DEF CommitAnswer, SetStatus
  <2>2. \E status \in Statuses : StaffWrites(r, status)
    BY <1>6 DEF CommitAnswer, SetStatus, Settable, Statuses
  <2>3. QED  BY <1>2, <2>1, <2>2, StaffWritesRow
<1>7. ASSUME NEW r \in Requests, MarkStaffRead(r)
      PROVE  ticket'[k].read = Never \/ ticket'[k].read < now'
  <2>1. now' = now + 1
    BY <1>7 DEF MarkStaffRead, Stamp
  <2>2. QED  BY <1>1, <1>3, <1>7, <2>1, MarkRow
<1>8. ASSUME NEW r \in Requests, Load(r) \/ Refuse(r) \/ InsertMessage(r) \/ ShowChat(r)
      PROVE  SameRow(k)
  BY <1>8, QuietSteps DEF ShowChat, SameRow
<1>9. CASE Wait \/ UNCHANGED vars
  BY <1>3, <1>9 DEF Wait, vars, SameRow
<1>10. QED
  BY <1>3, <1>4, <1>5, <1>6, <1>7, <1>8, <1>9 DEF Next

\* A ticket that a student wrote to last stays open, or gets another last writer.
LEMMA AnsweredKept ==
  ASSUME Types, RequestsAreSound, UnansweredIsOpen, [Next]_vars PROVE UnansweredIsOpen'
<1> SUFFICES ASSUME NEW k \in Tickets, last'[k] = "student"
             PROVE  ticket'[k].status = "OPEN"
  BY DEF UnansweredIsOpen
<1>1. ASSUME last'[k] = last[k], ticket'[k].status = ticket[k].status
      PROVE  ticket'[k].status = "OPEN"
  BY <1>1 DEF UnansweredIsOpen
<1>2. ASSUME NEW t \in Tickets, CreateTicket(t) PROVE ticket'[k].status = "OPEN"
  BY <1>1, <1>2, CreateRow DEF SameRow
<1>3. ASSUME NEW r \in Requests, CommitReply(r) PROVE ticket'[k].status = "OPEN"
  BY <1>1, <1>3, ReplyRow DEF SameRow
<1>4. ASSUME NEW r \in Requests, CommitAnswer(r) \/ SetStatus(r) PROVE ticket'[k].status = "OPEN"
  <2>1. request[r] # Idle
    BY <1>4, Working DEF CommitAnswer, SetStatus
  <2>2. \E status \in Statuses : StaffWrites(r, status)
    BY <1>4 DEF CommitAnswer, SetStatus, Settable, Statuses
  <2>3. QED  BY <1>1, <2>1, <2>2, StaffWritesRow DEF SameRow
<1>5. ASSUME NEW r \in Requests, MarkStaffRead(r) PROVE ticket'[k].status = "OPEN"
  <2>1. last'[k] = last[k]
    BY <1>5 DEF MarkStaffRead
  <2>2. QED  BY <1>1, <1>5, <2>1, MarkRow
<1>6. ASSUME NEW r \in Requests, Load(r) \/ Refuse(r) \/ InsertMessage(r) \/ ShowChat(r)
      PROVE  ticket'[k].status = "OPEN"
  BY <1>1, <1>6, QuietSteps DEF ShowChat
<1>7. CASE Wait \/ UNCHANGED vars
  BY <1>1, <1>7 DEF Wait, vars
<1>8. QED
  BY <1>2, <1>3, <1>4, <1>5, <1>6, <1>7 DEF Next

-----------------------------------------------------------------------------
(* The unread dot *)

UnseenAt(t) ==
  \A i \in seen[t] + 1 .. Len(messages[t]) :
    messages[t][i].author \in Students /\ ~messages[t][i].raced /\ ~BeingShown(t) => Unread(t)

\* A view that has marked a ticket goes on to show it.
LEMMA ShowingStays ==
  ASSUME Types, [Next]_vars, NEW p \in Requests, request[p].step = "marked", ~ShowChat(p)
  PROVE  request'[p].step = "marked" /\ request'[p].ticket = request[p].ticket
<1>1. request \in [Requests -> {Idle} \union Steps] /\ request[p] \in Steps
  BY Working, TypesAreParts DEF Parts
<1>2. CASE request'[p] = request[p]
  BY <1>2
<1>3. ASSUME NEW r \in Requests, request[r].step # "marked",
             \E q : Goto(r, q)
      PROVE  request'[p] = request[p]
  BY <1>1, <1>3 DEF Goto
<1>4. ASSUME NEW r \in Requests, Load(r) \/ Refuse(r) \/ InsertMessage(r) \/ CommitReply(r)
      PROVE  request'[p] = request[p]
  <2>1. request[r].step # "marked"
    <3>1. CASE Load(r)
      <4>1. request[r] = Idle
        BY <3>1 DEF Load
      <4>2. QED  BY <4>1 DEF Idle
    <3>2. CASE Refuse(r)
      BY <3>2 DEF Refuse
    <3>3. CASE InsertMessage(r)
      BY <3>3 DEF InsertMessage
    <3>4. CASE CommitReply(r)
      BY <3>4 DEF CommitReply
    <3>5. QED  BY <1>4, <3>1, <3>2, <3>3, <3>4
  <2>2. \E q : Goto(r, q)
    <3>1. CASE Load(r)
      <4>1. PICK t \in Tickets, u \in Students \union Staff :
              Goto(r, [step |-> "loaded", user |-> u, ticket |-> t, status |-> ticket[t].status,
                       at |-> Never, crossed |-> FALSE, raced |-> FALSE])
        BY <3>1 DEF Load
      <4>2. QED  BY <4>1
    <3>2. CASE Refuse(r)
      BY <3>2 DEF Refuse
    <3>3. CASE InsertMessage(r)
      <4>1. Goto(r, [request[r] EXCEPT !.step = "inserted", !.at = now])
        BY <3>3 DEF InsertMessage
      <4>2. QED  BY <4>1
    <3>4. CASE CommitReply(r)
      BY <3>4 DEF CommitReply
    <3>5. QED  BY <1>4, <3>1, <3>2, <3>3, <3>4
  <2>3. QED  BY <1>3, <2>1, <2>2
<1>5. ASSUME NEW r \in Requests, ShowChat(r) PROVE request'[p] = request[p]
  <2>1. p # r
    BY <1>5
  <2>2. QED  BY <1>1, <1>5, <2>1 DEF ShowChat, Goto
<1>6. ASSUME NEW r \in Requests, CommitAnswer(r) \/ SetStatus(r)
      PROVE  request'[p] \in {request[p], [request[p] EXCEPT !.crossed = TRUE]}
  <2>1. p # r
    BY <1>6 DEF CommitAnswer, SetStatus
  <2>2. \E status : StaffWrites(r, status)
    BY <1>6 DEF CommitAnswer, SetStatus
  <2>3. QED  BY <2>1, <2>2 DEF StaffWrites
<1>7. ASSUME NEW r \in Requests, MarkStaffRead(r) PROVE request'[p] = request[p]
  <2>1. p # r
    BY <1>7 DEF MarkStaffRead
  <2>2. QED  BY <1>7, <2>1 DEF MarkStaffRead
<1>8. CASE request'[p] = [request[p] EXCEPT !.crossed = TRUE]
  BY <1>1, <1>8 DEF Steps
<1>9. CASE Wait \/ (\E t \in Tickets : CreateTicket(t)) \/ UNCHANGED vars
  BY <1>9 DEF Wait, CreateTicket, vars
<1>10. QED
  BY <1>2, <1>4, <1>5, <1>6, <1>7, <1>8, <1>9 DEF Next

\* The dot stays on a ticket with the same feed and the same mark.
LEMMA UnseenStays ==
  ASSUME NEW t \in Tickets, UnseenAt(t), SameFeed(t), ticket'[t].read = ticket[t].read,
         BeingShown(t) => BeingShown(t)'
  PROVE  UnseenAt(t)'
<1>1. Unread(t) => Unread(t)'
  BY DEF Unread, SameFeed
<1>2. QED  BY <1>1 DEF UnseenAt, SameFeed

\* A message joins a feed behind the mark, or a reader raced it.
LEMMA UnseenGrows ==
  ASSUME Types, NEW r \in Requests, request[r].step = "inserted", Sound(r), Committed(r),
         NEW t \in Tickets, t = request[r].ticket, UnseenAt(t),
         seen'[t] = seen[t], ticket'[t].read = ticket[t].read,
         BeingShown(t) => BeingShown(t)'
  PROVE  UnseenAt(t)'
<1>1. PICK m \in Messages : m = Message(r) /\ messages'[t] = Append(messages[t], m)
  BY CommittedTypes, TypesAreParts DEF Parts
<1>2. PICK feed \in Seq(Messages) : feed = messages[t]
  BY TypesAreParts DEF Parts
<1>3. PICK n \in Nat : n = seen[t] /\ seen'[t] = n
  BY TypesAreParts DEF Parts
<1>4. /\ messages'[t] = Append(feed, m)
      /\ Len(messages'[t]) = Len(feed) + 1
      /\ DOMAIN messages'[t] = 1..Len(feed) + 1
      /\ \A i \in 1..Len(feed) : messages'[t][i] = feed[i]
      /\ messages'[t][Len(feed) + 1] = m
  <2>1. /\ Append(feed, m) \in Seq(Messages)
        /\ Len(Append(feed, m)) = Len(feed) + 1
        /\ \A i \in 1..Len(feed) : Append(feed, m)[i] = feed[i]
        /\ Append(feed, m)[Len(feed) + 1] = m
    BY AppendProperties
  <2>2. messages'[t] = Append(feed, m)
    BY <1>1, <1>2
  <2>3. DOMAIN Append(feed, m) = 1..Len(feed) + 1
    BY <2>1
  <2>4. QED  BY <2>1, <2>2, <2>3
<1>5. Len(feed) \in Nat /\ DOMAIN feed = 1..Len(feed)
  OBVIOUS
<1>6. Unread(t) => Unread(t)'
  <2>1. CASE ticket[t].read = Never
    BY <2>1 DEF Unread
  <2>2. ASSUME NEW i \in DOMAIN feed, feed[i].author \in Students, feed[i].at > ticket[t].read
        PROVE  Unread(t)'
    <3>1. i \in DOMAIN messages'[t] /\ messages'[t][i] = feed[i]
      BY <1>4, <1>5
    <3>2. QED  BY <2>2, <3>1 DEF Unread
  <2>3. QED  BY <1>2, <2>1, <2>2 DEF Unread
<1>7. ASSUME NEW i \in n + 1 .. Len(feed) + 1,
             messages'[t][i].author \in Students, ~messages'[t][i].raced, ~BeingShown(t)'
      PROVE  Unread(t)'
  <2>1. CASE i \in 1..Len(feed)
    <3>1. i \in n + 1 .. Len(feed) /\ messages'[t][i] = feed[i]
      BY <1>4, <1>5, <2>1
    <3>2. QED  BY <1>2, <1>3, <1>6, <1>7, <3>1 DEF UnseenAt
  <2>2. CASE i = Len(feed) + 1
    <3>1. messages'[t][i] = m /\ i \in DOMAIN messages'[t]
      BY <1>4, <1>5, <2>2
    <3>2. m.author \in Students /\ ~request[r].raced /\ m.at = request[r].at
      BY <1>1, <1>7, <3>1 DEF Message
    <3>3. Fresh(t, m.at)
      BY <3>2, Working DEF Sound
    <3>4. QED  BY <3>1, <3>2, <3>3 DEF Unread, Fresh
  <2>3. QED  BY <1>5, <2>1, <2>2
<1>8. QED  BY <1>3, <1>4, <1>7 DEF UnseenAt

\* A commit of either kind, and the feeds of all tickets
LEMMA CommitFeeds ==
  ASSUME Types, RequestsAreSound, NEW r \in Requests, request[r].step = "inserted", Committed(r),
         NEW k \in Tickets, UnseenAt(k), seen'[k] = seen[k], ticket'[k].read = ticket[k].read,
         BeingShown(k) => BeingShown(k)'
  PROVE  UnseenAt(k)'
<1>1. CASE k = request[r].ticket
  BY <1>1, UnseenGrows DEF RequestsAreSound
<1>2. CASE k # request[r].ticket
  <2>1. SameFeed(k)
    BY <1>2, CommittedTypes, TypesAreParts DEF Parts, SameFeed
  <2>2. QED  BY <2>1, UnseenStays
<1>3. QED  BY <1>1, <1>2

\* Every step keeps the dot.
LEMMA UnseenKept ==
  ASSUME Types, RequestsAreSound, UnseenIsUnread, [Next]_vars PROVE UnseenIsUnread'
<1> SUFFICES ASSUME NEW k \in Tickets PROVE UnseenAt(k)'
  BY DEF UnseenIsUnread, UnseenAt
<1>1. UnseenAt(k)
  BY DEF UnseenIsUnread, UnseenAt
<1>2. ASSUME \A p \in Requests : ~ShowChat(p) \/ request[p].ticket # k
      PROVE  BeingShown(k) => BeingShown(k)'
  BY <1>2, ShowingStays DEF BeingShown
<1>3. ASSUME \A p \in Requests : ~ShowChat(p) \/ request[p].ticket # k,
             SameFeed(k), SameRow(k) \/ ticket'[k].read = ticket[k].read
      PROVE  UnseenAt(k)'
  BY <1>1, <1>2, <1>3, UnseenStays DEF SameRow
<1>4. ASSUME NEW r \in Requests, ShowChat(r) PROVE UnseenAt(k)'
  <2>1. request[r].step = "marked" /\ request[r] \in Steps
    BY <1>4, Working DEF ShowChat
  <2>2. PICK t \in Tickets : t = request[r].ticket
    BY <2>1 DEF Steps
  <2>3. seen' = [seen EXCEPT ![t] = Len(messages[t])] /\ messages' = messages /\ ticket' = ticket
    BY <1>4, <2>2 DEF ShowChat
  <2>4. CASE k = t
    <3>1. seen'[k] = Len(messages'[k]) /\ Len(messages'[k]) \in Nat
      BY <2>3, <2>4, TypesAreParts DEF Parts
    <3>2. seen'[k] + 1 .. Len(messages'[k]) = {}
      BY <3>1
    <3>3. QED  BY <3>2 DEF UnseenAt
  <2>5. CASE k # t
    <3>1. SameFeed(k) /\ SameRow(k)
      BY <2>3, <2>5, TypesAreParts DEF Parts, SameFeed, SameRow
    <3>2. \A p \in Requests : ShowChat(p) => request[p].ticket # k
      <4>1. ASSUME NEW p \in Requests, ShowChat(p), request[p].ticket = k PROVE FALSE
        <5>1. request[p].step = "marked" /\ request' = [request EXCEPT ![p] = Idle]
              /\ request' = [request EXCEPT ![r] = Idle] /\ p # r
          BY <1>4, <2>2, <2>5, <4>1 DEF ShowChat, Goto
        <5>2. request'[p] = Idle /\ request'[p] = request[p]
          BY <5>1, TypesAreParts DEF Parts
        <5>3. QED  BY <5>1, <5>2 DEF Idle
      <4>2. QED  BY <4>1
    <3>3. QED  BY <1>3, <3>1, <3>2
  <2>6. QED  BY <2>4, <2>5
<1>5. CASE \A p \in Requests : ~ShowChat(p)
  <2>1. ASSUME NEW t \in Tickets, CreateTicket(t) PROVE UnseenAt(k)'
    <3>1. CASE ticket'[k].read = Never
      BY <3>1 DEF UnseenAt, Unread
    <3>2. CASE SameRow(k)
      BY <1>3, <1>5, <2>1, <3>2, CreateRow
    <3>3. QED  BY <2>1, <3>1, <3>2, CreateRow
  <2>2. ASSUME NEW r \in Requests, CommitReply(r) PROVE UnseenAt(k)'
    <3>1. request[r].step = "inserted" /\ Committed(r)
      BY <2>2 DEF CommitReply
    <3>2. ticket'[k].read = ticket[k].read /\ seen'[k] = seen[k]
      BY <2>2, ReplyRow
    <3>3. QED  BY <1>1, <1>2, <1>5, <3>1, <3>2, CommitFeeds
  <2>3. ASSUME NEW r \in Requests, CommitAnswer(r) \/ SetStatus(r)
        PROVE  ticket'[k].read = ticket[k].read /\ seen'[k] = seen[k]
    <3>1. request[r] # Idle
      BY <2>3, Working DEF CommitAnswer, SetStatus
    <3>2. \E status \in Statuses : StaffWrites(r, status)
      BY <2>3 DEF CommitAnswer, SetStatus, Settable, Statuses
    <3>3. QED  BY <3>1, <3>2, StaffWritesRow
  <2>4. ASSUME NEW r \in Requests, CommitAnswer(r) PROVE UnseenAt(k)'
    <3>1. request[r].step = "inserted" /\ Committed(r)
      BY <2>4 DEF CommitAnswer
    <3>2. QED  BY <1>1, <1>2, <1>5, <2>3, <2>4, <3>1, CommitFeeds
  <2>5. ASSUME NEW r \in Requests, SetStatus(r) PROVE UnseenAt(k)'
    <3>1. SameFeed(k)
      BY <2>3, <2>5 DEF SetStatus, SameFeed
    <3>2. QED  BY <1>3, <1>5, <2>3, <2>5, <3>1
  <2>6. ASSUME NEW r \in Requests, MarkStaffRead(r) PROVE UnseenAt(k)'
    <3>1. CASE SameRow(k)
      <4>1. SameFeed(k)
        BY <2>6 DEF MarkStaffRead, SameFeed
      <4>2. QED  BY <1>3, <1>5, <3>1, <4>1
    <3>2. CASE k = request[r].ticket
      <4>1. request'[r] = [request[r] EXCEPT !.step = "marked"] /\ request[r] \in Steps
        BY <2>6, Working DEF MarkStaffRead
      <4>2. request'[r].step = "marked" /\ request'[r].ticket = k
        BY <3>2, <4>1 DEF Steps
      <4>3. BeingShown(k)'
        BY <4>2 DEF BeingShown
      <4>4. QED  BY <4>3 DEF UnseenAt
    <3>3. QED  BY <2>6, <3>1, <3>2, MarkRow
  <2>7. ASSUME NEW r \in Requests, Load(r) \/ Refuse(r) \/ InsertMessage(r) PROVE UnseenAt(k)'
    <3>1. SameFeed(k) /\ SameRow(k)
      BY <2>7, QuietSteps DEF SameFeed, SameRow
    <3>2. QED  BY <1>3, <1>5, <3>1
  <2>8. CASE Wait \/ UNCHANGED vars
    <3>1. SameFeed(k) /\ SameRow(k)
      BY <2>8 DEF Wait, vars, SameFeed, SameRow
    <3>2. QED  BY <1>3, <1>5, <3>1
  <2>9. QED  BY <1>5, <2>1, <2>2, <2>4, <2>5, <2>6, <2>7, <2>8 DEF Next
<1>6. QED  BY <1>4, <1>5

-----------------------------------------------------------------------------
(* Induction on numbers, over sets *)

\* A set of natural numbers that is not empty has a smallest one.
LEMMA Smallest ==
  ASSUME NEW S, S \subseteq Nat, S # {}
  PROVE  \E m \in S : \A n \in S : m <= n
<1>1. PICK k \in S : TRUE
  OBVIOUS
<1> DEFINE T == S \intersect 0..k
           Below(n) == {u \in T : u < n}
           Bottoms == {Below(n) : n \in T}
<1>2. IsFiniteSet(T) /\ k \in T
  <2>1. IsFiniteSet(0..k)
    BY FS_Interval
  <2>2. QED  BY <1>1, <2>1, FS_Subset
<1>3. IsWellFoundedOn(StrictSubsetOrdering(T), SUBSET T)
  <2> HIDE DEF T
  <2>1. QED  BY <1>2, FS_StrictSubsetOrderingWellFounded, FS_FiniteSubsetsOfFinite
<1>4. Bottoms \subseteq SUBSET T /\ Bottoms # {}
  BY <1>2
<1>5. PICK x \in Bottoms : \A y \in Bottoms : <<y, x>> \notin StrictSubsetOrdering(T)
  <2> HIDE DEF Bottoms, T
  <2>1. QED  BY <1>3, <1>4, WFMin
<1>6. PICK m \in T : x = Below(m)
  BY <1>5
<1>7. ASSUME NEW n \in T, ~(m <= n) PROVE FALSE
  <2>1. n \in Nat /\ m \in Nat /\ n < m
    BY <1>7
  <2>2. ASSUME NEW u \in Below(n) PROVE u \in Below(m)
    <3>1. u \in T /\ u \in Nat /\ u < n
      OBVIOUS
    <3>2. u < m
      BY <2>1, <3>1
    <3>3. QED  BY <3>1, <3>2
  <2>3. n \in Below(m) /\ n \notin Below(n)
    BY <2>1
  <2>4. <<Below(n), Below(m)>> \in StrictSubsetOrdering(T)
    BY <2>2, <2>3 DEF StrictSubsetOrdering
  <2>5. QED  BY <1>5, <1>6, <2>4
<1>8. m \in S /\ m \in 0..k
  OBVIOUS
<1>9. ASSUME NEW n \in S PROVE m <= n
  BY <1>7, <1>8
<1>10. QED  BY <1>8, <1>9

\* What follows for a number from all smaller ones holds of every number.
LEMMA Induction ==
  ASSUME NEW G, \A n \in Nat : (\A m \in Nat : m < n => m \in G) => n \in G
  PROVE  Nat \subseteq G
<1> SUFFICES ASSUME Nat \ G # {} PROVE FALSE
  OBVIOUS
<1>1. PICK n \in Nat \ G : \A m \in Nat \ G : n <= m
  BY Smallest
<1>2. \A m \in Nat : m < n => m \in G
  BY <1>1
<1>3. QED  BY <1>1, <1>2

-----------------------------------------------------------------------------
(* One turn of add_business_hours *)

\* Its two local variables
Resumed(t) == SkipToNextWeekday(t)
Chunk(t, left) == Lesser(left, Midnight(DayOf(Resumed(t)) + 1) - Resumed(t))

\* The days of two moments
LEMMA Days ==
  ASSUME NEW t \in Nat, NEW d \in Nat
  PROVE  /\ DayOf(t) \in Nat /\ Midnight(d) \in Nat
         /\ DayOf(t) = d <=> Midnight(d) <= t /\ t < Midnight(d + 1)
<1>1. PICK b \in Nat \ {0} : b = DayLength
  BY SupportAssumption
<1>2. PICK q \in Nat, r \in 0..(b - 1) : t = b * q + r /\ t \div b = q
  BY Z3
<1>3. QED
  BY <1>1, <1>2 DEF DayOf, Midnight

\* The first working moment
LEMMA Skipping ==
  ASSUME NEW t \in Nat
  PROVE  /\ Resumed(t) \in Nat /\ t <= Resumed(t)
         /\ ~IsWeekend(DayOf(Resumed(t)))
         /\ \A u \in t .. Resumed(t) - 1 : IsWeekend(DayOf(u))
<1>1. PICK d \in Nat : d = DayOf(t)
  BY Days
<1>2. CASE ~IsWeekend(d)
  BY <1>1, <1>2 DEF Resumed, SkipToNextWeekday
<1>3. CASE IsWeekend(d)
  <2> DEFINE Ok(e) == ~IsWeekend(e) /\ \A x \in d + 1 .. e - 1 : IsWeekend(x)
  <2>1. \E e \in d + 1 .. d + 2 : Ok(e)
    <3>1. CASE d % 7 = 6
      <4>1. ~IsWeekend(d + 1)
        BY <3>1, Z3 DEF IsWeekend
      <4>2. QED  BY <4>1
    <3>2. CASE d % 7 = 5
      <4>1. ~IsWeekend(d + 2) /\ IsWeekend(d + 1)
        BY <3>2, Z3 DEF IsWeekend
      <4>2. \A x \in d + 1 .. (d + 2) - 1 : x = d + 1
        OBVIOUS
      <4>3. Ok(d + 2)
        BY <4>1, <4>2
      <4>4. QED  BY <4>3
    <3>3. QED  BY <1>3, <3>1, <3>2, Z3 DEF IsWeekend
  <2>2. PICK e : e = CHOOSE x \in d + 1 .. d + 2 : Ok(x)
    OBVIOUS
  <2>3. e \in d + 1 .. d + 2 /\ Ok(e)
    <3> HIDE DEF Ok
    <3>1. QED  BY <2>1, <2>2
  <2>4. Resumed(t) = Midnight(e)
    BY <1>1, <1>3, <2>2, Zenon DEF Resumed, SkipToNextWeekday
  <2>5. e \in Nat /\ d < e
    BY <2>3
  <2>6. Midnight(e) \in Nat /\ Midnight(e + 1) \in Nat /\ Midnight(e) < Midnight(e + 1)
    BY <2>5, SupportAssumption, Days, Z3 DEF Midnight
  <2>7. DayOf(Midnight(e)) = e
    BY <2>5, <2>6, Days
  <2>8. t < Midnight(e)
    <3>1. CASE t >= Midnight(e)
      <4>1. Midnight(d + 1) <= Midnight(e)
        <5>1. PICK b \in Nat \ {0} : b = DayLength
          BY SupportAssumption
        <5>2. (d + 1) * b <= e * b
          BY <2>5, Z3
        <5>3. QED  BY <5>1, <5>2 DEF Midnight
      <4>2. t < Midnight(d + 1)
        BY <1>1, Days
      <4>3. Midnight(d + 1) \in Nat
        BY Days
      <4>4. QED  BY <2>6, <3>1, <4>1, <4>2, <4>3
    <3>2. QED  BY <2>6, <3>1
  <2>9. ASSUME NEW u \in t .. Midnight(e) - 1 PROVE IsWeekend(DayOf(u))
    <3>1. u \in Nat /\ t <= u /\ u < Midnight(e)
      BY <2>6
    <3>2. DayOf(u) \in Nat /\ DayOf(u) <= e - 1 /\ d <= DayOf(u)
      <4>1. PICK b \in Nat \ {0} : b = DayLength
        BY SupportAssumption
      <4>2. PICK x \in Nat : x = DayOf(u)
        BY <3>1, Days
      <4>3. x * b <= u /\ u < (x + 1) * b /\ d * b <= t /\ t < (d + 1) * b
        BY <1>1, <3>1, <4>1, <4>2, Days DEF Midnight
      <4>4. u < e * b
        BY <3>1, <4>1 DEF Midnight
      <4>5. x < e
        <5>1. CASE e <= x
          <6>1. e * b <= x * b
            BY <2>5, <5>1, Z3
          <6>2. QED  BY <2>5, <3>1, <4>3, <4>4, <6>1
        <5>2. QED  BY <2>5, <5>1
      <4>6. d <= x
        <5>1. CASE x + 1 <= d
          <6>1. (x + 1) * b <= d * b
            BY <5>1, Z3
          <6>2. QED  BY <3>1, <4>3, <6>1
        <5>2. QED  BY <5>1
      <4>7. QED  BY <2>5, <4>2, <4>5, <4>6
    <3>3. CASE DayOf(u) = d
      BY <1>3, <3>3
    <3>4. CASE DayOf(u) # d
      BY <2>3, <2>5, <3>2, <3>4
    <3>5. QED  BY <3>3, <3>4
  <2>10. QED
    BY <2>3, <2>4, <2>6, <2>7, <2>8, <2>9
<1>4. QED  BY <1>2, <1>3

\* One turn spends some of the hours in one working day.
LEMMA Turn ==
  ASSUME NEW t \in Nat, NEW left \in Nat \ {0}
  PROVE  /\ Chunk(t, left) \in 1..left
         /\ \A u \in Resumed(t) .. Resumed(t) + Chunk(t, left) - 1 :
              ~IsWeekend(DayOf(u))
<1>1. PICK s \in Nat : s = Resumed(t)
  BY Skipping
<1>2. PICK d \in Nat : d = DayOf(s)
  BY Days
<1>3. PICK m \in Nat : m = Midnight(d + 1)
  BY Days
<1>4. Midnight(d) \in Nat /\ Midnight(d) <= s /\ s < m
  BY <1>2, <1>3, Days
<1>5. PICK c : c = Chunk(t, left)
  OBVIOUS
<1>6. c = IF left <= m - s THEN left ELSE m - s
  BY <1>1, <1>2, <1>3, <1>5 DEF Chunk, Lesser
<1>7. c \in 1..left /\ s + c <= m
  BY <1>4, <1>6
<1>8. ASSUME NEW u \in s .. s + c - 1 PROVE DayOf(u) = d
  <2>1. u \in Nat /\ Midnight(d) <= u /\ u < m
    BY <1>4, <1>7
  <2>2. QED  BY <1>3, <2>1, Days
<1>9. ~IsWeekend(d)
  BY <1>1, <1>2, Skipping
<1>10. QED  BY <1>1, <1>5, <1>7, <1>8, <1>9

-----------------------------------------------------------------------------
(* The recursion of add_business_hours ends *)

\* The value of its recursive function at p
Turned(f, p) ==
  IF p[2] = 0 THEN p[1]
  ELSE LET day   == SkipToNextWeekday(p[1])
           chunk == Lesser(p[2], Midnight(DayOf(day) + 1) - day)
       IN  f[<<day + chunk, p[2] - chunk>>]

Body(f, hours) == [p \in Nat \X (0..hours) |-> Turned(f, p)]

\* ... which is one turn
LEMMA TurnedIs ==
  ASSUME NEW f, NEW t \in Nat, NEW left \in Nat
  PROVE  Turned(f, <<t, left>>) =
           IF left = 0 THEN t
           ELSE f[<<Resumed(t) + Chunk(t, left), left - Chunk(t, left)>>]
  BY DEF Turned, Resumed, Chunk

\* The function that all turns agree with
Spends(f, n) ==
  /\ f \in [Nat \X (0..n) -> Nat]
  /\ f = Body(f, n)

\* One more hour
LEMMA SpendsMore ==
  ASSUME NEW n \in Nat, NEW f, Spends(f, n)
  PROVE  \E g : Spends(g, n + 1)
<1> DEFINE New(t) == f[<<Resumed(t) + Chunk(t, n + 1), (n + 1) - Chunk(t, n + 1)>>]
           g == [p \in Nat \X (0..(n + 1)) |-> IF p[2] \in 0..n THEN f[p] ELSE New(p[1])]
<1>1. f \in [Nat \X (0..n) -> Nat]
  BY DEF Spends
<1>2. ASSUME NEW t \in Nat, NEW left \in 1..(n + 1)
      PROVE  /\ Resumed(t) + Chunk(t, left) \in Nat
             /\ left - Chunk(t, left) \in 0..n
             /\ left \in 0..n => left - Chunk(t, left) \in 0..n
  <2>1. left \in Nat \ {0}
    OBVIOUS
  <2>2. Resumed(t) \in Nat /\ Chunk(t, left) \in 1..left
    BY <2>1, Skipping, Turn
  <2>3. QED  BY <2>2
<1>3. ASSUME NEW t \in Nat PROVE New(t) \in Nat
  <2>1. PICK x \in Nat, y \in 0..n : x = Resumed(t) + Chunk(t, n + 1) /\ y = (n + 1) - Chunk(t, n + 1)
    BY <1>2
  <2>2. <<x, y>> \in Nat \X (0..n)
    OBVIOUS
  <2>3. QED  BY <1>1, <2>1, <2>2
<1>4. ASSUME NEW t \in Nat, NEW left \in 0..n
      PROVE  g[<<t, left>>] = f[<<t, left>>] /\ f[<<t, left>>] \in Nat
  <2>1. <<t, left>> \in Nat \X (0..(n + 1)) /\ <<t, left>> \in Nat \X (0..n)
    OBVIOUS
  <2>2. PICK p : p = <<t, left>>
    OBVIOUS
  <2>3. p[1] = t /\ p[2] = left
    BY <2>2
  <2>4. g[p] = IF p[2] \in 0..n THEN f[p] ELSE New(p[1])
    <3> HIDE DEF New
    <3>1. QED  BY <2>1, <2>2
  <2>5. QED  BY <1>1, <2>1, <2>2, <2>3, <2>4
<1>5. ASSUME NEW t \in Nat PROVE g[<<t, n + 1>>] = New(t)
  <2>1. <<t, n + 1>> \in Nat \X (0..(n + 1))
    OBVIOUS
  <2>2. PICK p : p = <<t, n + 1>>
    OBVIOUS
  <2>3. p[1] = t /\ p[2] = n + 1
    BY <2>2
  <2>4. g[p] = IF p[2] \in 0..n THEN f[p] ELSE New(p[1])
    <3> HIDE DEF New
    <3>1. QED  BY <2>1, <2>2
  <2>5. QED  BY <2>2, <2>3, <2>4
<1>6. ASSUME NEW t \in Nat, NEW left \in 0..(n + 1)
      PROVE  g[<<t, left>>] \in Nat /\ g[<<t, left>>] = Turned(g, <<t, left>>)
  <2> HIDE DEF g
  <2>1. CASE left = n + 1
    <3>1. PICK x \in Nat, y \in 0..n : x = Resumed(t) + Chunk(t, left) /\ y = left - Chunk(t, left)
      BY <1>2, <2>1
    <3>2. Turned(g, <<t, left>>) = g[<<x, y>>]
      BY <2>1, <3>1, TurnedIs
    <3>3. New(t) = f[<<x, y>>]
      BY <2>1, <3>1
    <3>4. QED  BY <1>3, <1>4, <1>5, <2>1, <3>1, <3>2, <3>3
  <2>2. CASE left = 0
    <3>1. Turned(g, <<t, left>>) = t /\ Turned(f, <<t, left>>) = t
      BY <2>2, TurnedIs
    <3>2. <<t, left>> \in Nat \X (0..n)
      BY <2>2
    <3>3. f[<<t, left>>] = Turned(f, <<t, left>>)
      BY <3>2, Zenon DEF Spends, Body
    <3>4. QED  BY <1>4, <2>2, <3>1, <3>3
  <2>3. CASE left \in 1..n
    <3>1. PICK x \in Nat, y \in 0..n : x = Resumed(t) + Chunk(t, left) /\ y = left - Chunk(t, left)
      BY <1>2, <2>3
    <3>2. Turned(g, <<t, left>>) = g[<<x, y>>] /\ Turned(f, <<t, left>>) = f[<<x, y>>]
      BY <2>3, <3>1, TurnedIs
    <3>3. <<t, left>> \in Nat \X (0..n)
      BY <2>3
    <3>4. f[<<t, left>>] = Turned(f, <<t, left>>)
      BY <3>3, Zenon DEF Spends, Body
    <3>5. QED  BY <1>4, <2>3, <3>1, <3>2, <3>4
  <2>4. QED  BY <2>1, <2>2, <2>3
<1>7. ASSUME NEW p \in Nat \X (0..(n + 1)) PROVE g[p] \in Nat /\ g[p] = Turned(g, p)
  <2> HIDE DEF g
  <2>1. PICK t \in Nat, left \in 0..(n + 1) : p = <<t, left>>
    OBVIOUS
  <2>2. QED  BY <1>6, <2>1
<1>8. DOMAIN g = Nat \X (0..(n + 1)) /\ g = [p \in Nat \X (0..(n + 1)) |-> g[p]]
  BY Zenon
<1>9. Spends(g, n + 1)
  <2> HIDE DEF g
  <2>1. g \in [Nat \X (0..(n + 1)) -> Nat]
    BY <1>7, <1>8
  <2>2. g = [p \in Nat \X (0..(n + 1)) |-> Turned(g, p)]
    BY <1>7, <1>8
  <2>3. QED  BY <2>1, <2>2 DEF Spends, Body
<1>10. QED  BY <1>9

\* Any number of hours
LEMMA SpendsAll ==
  ASSUME NEW n \in Nat
  PROVE  \E f : Spends(f, n)
<1> DEFINE G == {k \in Nat : \E f : Spends(f, k)}
           zero == [p \in Nat \X (0..0) |-> p[1]]
<1>1. Spends(zero, 0)
  <2>1. ASSUME NEW p \in Nat \X (0..0) PROVE zero[p] = p[1] /\ p[1] \in Nat /\ p[2] = 0
    OBVIOUS
  <2>2. ASSUME NEW p \in Nat \X (0..0) PROVE Turned(zero, p) = p[1]
    BY <2>1 DEF Turned
  <2>3. zero \in [Nat \X (0..0) -> Nat]
    BY <2>1
  <2>4. zero = [p \in Nat \X (0..0) |-> Turned(zero, p)]
    BY <2>2
  <2>5. QED  BY <2>3, <2>4, Zenon DEF Spends, Body
<1>2. ASSUME NEW k \in Nat, \A m \in Nat : m < k => m \in G PROVE k \in G
  <2>1. CASE k = 0
    BY <1>1, <2>1
  <2>2. CASE k # 0
    <3>1. PICK m \in Nat : k = m + 1
      BY <2>2, k - 1 \in Nat
    <3>2. PICK f : Spends(f, m)
      BY <1>2, <3>1
    <3>3. QED  BY <3>1, <3>2, SpendsMore
  <2>3. QED  BY <2>1, <2>2
<1>3. Nat \subseteq G
  <2> HIDE DEF G
  <2>1. QED  BY <1>2, Induction
<1>4. QED  BY <1>3

\* What add_business_hours returns is what its turns agree on.
LEMMA ReturnsSpent ==
  ASSUME NEW start \in Nat, NEW hours \in Nat
  PROVE  \E f : /\ AddBusinessHours(start, hours) = f[<<start, hours>>]
                /\ \A t \in Nat : f[<<t, 0>>] = t
                /\ \A t \in Nat, left \in 1..hours :
                     f[<<t, left>>] = f[<<Resumed(t) + Chunk(t, left), left - Chunk(t, left)>>]
<1>1. PICK f : f = CHOOSE g : g = Body(g, hours)
  OBVIOUS
<1>2. AddBusinessHours(start, hours) = f[<<start, hours>>]
  BY <1>1, Zenon DEF AddBusinessHours, Body, Turned
<1>3. \E g : g = Body(g, hours)
  BY SpendsAll DEF Spends
<1>4. f = Body(f, hours)
  BY <1>1, <1>3, Zenon
<1>5. ASSUME NEW t \in Nat, NEW left \in 0..hours PROVE f[<<t, left>>] = Turned(f, <<t, left>>)
  <2>1. <<t, left>> \in Nat \X (0..hours)
    OBVIOUS
  <2>2. QED  BY <1>4, <2>1, Zenon DEF Body
<1>6. ASSUME NEW t \in Nat PROVE f[<<t, 0>>] = t
  <2>1. 0 \in 0..hours /\ 0 \in Nat
    OBVIOUS
  <2>2. Turned(f, <<t, 0>>) = t
    BY <2>1, TurnedIs
  <2>3. QED  BY <1>5, <2>1, <2>2, Zenon
<1>7. ASSUME NEW t \in Nat, NEW left \in 1..hours
      PROVE  f[<<t, left>>] = f[<<Resumed(t) + Chunk(t, left), left - Chunk(t, left)>>]
  BY <1>5, TurnedIs
<1>8. QED  BY <1>2, <1>6, <1>7

-----------------------------------------------------------------------------
(* Working time *)

Worked(a, b) == {t \in a .. b - 1 : ~IsWeekend(DayOf(t))}

\* It is a number, ...
LEMMA WorkingTimeIsNumber ==
  ASSUME NEW a \in Nat, NEW b \in Nat
  PROVE  IsFiniteSet(Worked(a, b)) /\ WorkingTime(a, b) = Cardinality(Worked(a, b))
         /\ WorkingTime(a, b) \in Nat
<1>1. IsFiniteSet(a .. b - 1) /\ Worked(a, b) \subseteq a .. b - 1
  BY FS_Interval DEF Worked
<1>2. IsFiniteSet(Worked(a, b))
  BY <1>1, FS_Subset
<1>3. WorkingTime(a, b) = Cardinality(Worked(a, b))
  BY DEF WorkingTime, Worked
<1>4. QED  BY <1>2, <1>3, FS_CardinalityType

\* ... adds up, ...
LEMMA WorkingTimeAdds ==
  ASSUME NEW a \in Nat, NEW b \in Nat, NEW c \in Nat, a <= b, b <= c
  PROVE  WorkingTime(a, c) = WorkingTime(a, b) + WorkingTime(b, c)
<1>1. Worked(a, c) = Worked(a, b) \union Worked(b, c)
  <2>1. a .. c - 1 = (a .. b - 1) \union (b .. c - 1)
    OBVIOUS
  <2>2. QED  BY <2>1 DEF Worked
<1>2. Worked(a, b) \intersect Worked(b, c) = {}
  <2>1. (a .. b - 1) \intersect (b .. c - 1) = {}
    OBVIOUS
  <2>2. QED  BY <2>1 DEF Worked
<1>3. Cardinality(Worked(a, b) \union Worked(b, c)) =
        Cardinality(Worked(a, b)) + Cardinality(Worked(b, c))
          - Cardinality(Worked(a, b) \intersect Worked(b, c))
  BY WorkingTimeIsNumber, FS_Union
<1>4. Cardinality({}) = 0
  BY FS_EmptySet
<1>5. PICK x \in Nat, y \in Nat : x = WorkingTime(a, b) /\ y = WorkingTime(b, c)
  BY WorkingTimeIsNumber
<1>6. Cardinality(Worked(a, c)) = x + y - 0
  BY <1>1, <1>2, <1>3, <1>4, <1>5, WorkingTimeIsNumber
<1>7. QED  BY <1>5, <1>6, WorkingTimeIsNumber

\* ... does not pass at weekends ...
LEMMA WeekendsDoNotCount ==
  ASSUME NEW a \in Nat, NEW b \in Nat, \A t \in a .. b - 1 : IsWeekend(DayOf(t))
  PROVE  WorkingTime(a, b) = 0
<1>1. Worked(a, b) = {}
  BY DEF Worked
<1>2. QED  BY <1>1, WorkingTimeIsNumber, FS_EmptySet

\* ... and is all of the time on working days.
LEMMA WorkingDaysCount ==
  ASSUME NEW a \in Nat, NEW b \in Nat, a <= b, \A t \in a .. b - 1 : ~IsWeekend(DayOf(t))
  PROVE  WorkingTime(a, b) = b - a
<1>1. Worked(a, b) = a .. b - 1
  BY DEF Worked
<1>2. Cardinality(a .. b - 1) = IF a > b - 1 THEN 0 ELSE (b - 1) - a + 1
  BY FS_Interval, b - 1 \in Int
<1>3. Cardinality(a .. b - 1) = b - a
  BY <1>2
<1>4. QED  BY <1>1, <1>3, WorkingTimeIsNumber

\* add_business_hours returns the first moment at which that much working time has passed.
LEMMA HoursAreWorked ==
  ASSUME NEW start \in Nat, NEW hours \in Nat
  PROVE  LET end == AddBusinessHours(start, hours) IN
         /\ end \in Nat /\ start <= end
         /\ WorkingTime(start, end) = hours
         /\ hours # 0 => end # start /\ ~IsWeekend(DayOf(end - 1))
<1>1. PICK f : /\ AddBusinessHours(start, hours) = f[<<start, hours>>]
               /\ \A t \in Nat : f[<<t, 0>>] = t
               /\ \A t \in Nat, left \in 1..hours :
                    f[<<t, left>>] = f[<<Resumed(t) + Chunk(t, left), left - Chunk(t, left)>>]
  BY ReturnsSpent
<1> DEFINE Good(t, left) ==
             /\ f[<<t, left>>] \in Nat /\ t <= f[<<t, left>>]
             /\ WorkingTime(t, f[<<t, left>>]) = left
             /\ left # 0 => f[<<t, left>>] # t /\ ~IsWeekend(DayOf(f[<<t, left>>] - 1))
           G == {left \in Nat : left \in 0..hours => \A t \in Nat : Good(t, left)}
<1>2. ASSUME NEW left \in Nat, \A m \in Nat : m < left => m \in G, left \in 0..hours, NEW t \in Nat
      PROVE  Good(t, left)
  <2>1. CASE left = 0
    <3>1. f[<<t, left>>] = t
      BY <1>1, <2>1, Zenon
    <3>2. t .. t - 1 = {}
      OBVIOUS
    <3>3. WorkingTime(t, t) = 0
      BY <3>2, WeekendsDoNotCount
    <3>4. QED  BY <2>1, <3>1, <3>3
  <2>2. CASE left # 0
    <3>1. PICK s \in Nat : s = Resumed(t) /\ t <= s
      BY Skipping
    <3>2. PICK c \in 1..left : c = Chunk(t, left)
      BY <2>2, Turn
    <3>3. \A u \in t .. s - 1 : IsWeekend(DayOf(u))
      BY <3>1, Skipping
    <3>4. \A u \in s .. s + c - 1 : ~IsWeekend(DayOf(u))
      BY <2>2, <3>1, <3>2, Turn
    <3>5. PICK e \in Nat, m \in Nat : e = s + c /\ m = left - c /\ m < left /\ s < e
      BY <3>2, s + c \in Nat, left - c \in Nat
    <3>6. WorkingTime(t, s) = 0
      BY <3>1, <3>3, WeekendsDoNotCount
    <3>7. WorkingTime(s, e) = c
      BY <3>4, <3>5, WorkingDaysCount
    <3>8. WorkingTime(t, e) = c
      BY <3>1, <3>5, <3>6, <3>7, WorkingTimeAdds
    <3>9. f[<<t, left>>] = f[<<e, m>>]
      BY <1>1, <1>2, <2>2, <3>1, <3>2, <3>5
    <3>10. Good(e, m)
      <4>1. m \in G /\ m \in 0..hours
        BY <1>2, <3>5
      <4>2. QED  BY <4>1
    <3>11. PICK d \in Nat : d = f[<<e, m>>] /\ e <= d
      BY <3>10
    <3>12. WorkingTime(e, d) = m /\ (m # 0 => ~IsWeekend(DayOf(d - 1)))
      BY <3>10, <3>11
    <3>13. WorkingTime(t, d) = left
      <4>1. t <= e
        BY <3>1, <3>5
      <4>2. WorkingTime(t, d) = WorkingTime(t, e) + WorkingTime(e, d)
        BY <3>11, <4>1, WorkingTimeAdds
      <4>3. QED  BY <3>2, <3>5, <3>8, <3>12, <4>2
    <3>14. ~IsWeekend(DayOf(d - 1))
      <4>1. CASE m = 0
        <5>1. d = e
          BY <1>1, <3>11, <4>1
        <5>2. d - 1 \in s .. s + c - 1
          BY <3>2, <3>5, <5>1
        <5>3. QED  BY <3>4, <5>2
      <4>2. QED  BY <3>12, <4>1
    <3>15. t <= d /\ d # t
      BY <3>1, <3>5, <3>11
    <3>16. QED  BY <3>9, <3>11, <3>13, <3>14, <3>15
  <2>3. QED  BY <2>1, <2>2
<1>3. Nat \subseteq G
  <2>1. \A left \in Nat : (\A m \in Nat : m < left => m \in G) => left \in G
    BY <1>2
  <2> HIDE DEF G
  <2>2. QED  BY <2>1, Induction
<1>4. Good(start, hours)
  BY <1>3
<1>5. QED  BY <1>1, <1>4


-----------------------------------------------------------------------------
(* The deadline of a ticket *)

\* A step keeps a ticket's creation, and only staff ends its being open.
LEMMA RowKept ==
  ASSUME Types, RequestsAreSound, [Next]_vars, NEW k \in Tickets, Exists(k)
  PROVE  /\ Exists(k)'
         /\ ticket'[k].created = ticket[k].created
         /\ ticket'[k].status \in {ticket[k].status, "OPEN"} \/ last'[k] = "staff"
<1> DEFINE Kept == /\ Exists(k)'
                   /\ ticket'[k].created = ticket[k].created
                   /\ ticket'[k].status \in {ticket[k].status, "OPEN"} \/ last'[k] = "staff"
<1>1. ASSUME ticket'[k] = ticket[k] PROVE Kept
  BY <1>1 DEF Exists
<1>2. ASSUME NEW t \in Tickets, CreateTicket(t) PROVE Kept
  <2>1. k # t
    BY <1>2 DEF CreateTicket
  <2>2. QED  BY <1>1, <1>2, <2>1, CreateRow DEF SameRow
<1>3. ASSUME NEW r \in Requests, CommitReply(r) PROVE Kept
  <2>1. PICK t \in Tickets : t = request[r].ticket /\ Exists(t) /\ request[r] # Idle
    BY <1>3, Working DEF CommitReply, RequestsAreSound, Sound
  <2>2. CASE ticket' = ticket
    BY <1>1, <2>2
  <2>3. CASE ticket' = [ticket EXCEPT ![t].status = "OPEN"]
    <3>1. "OPEN" \in Statuses
      BY DEF Statuses
    <3>2. CASE k = t
      BY <2>1, <2>3, <3>1, <3>2, StatusChange
    <3>3. CASE k # t
      BY <1>1, <2>1, <2>3, <3>1, <3>3, StatusChange
    <3>4. QED  BY <3>2, <3>3
  <2>4. QED  BY <1>3, <2>1, <2>2, <2>3 DEF CommitReply
<1>4. ASSUME NEW r \in Requests, CommitAnswer(r) \/ SetStatus(r) PROVE Kept
  <2>1. request[r] # Idle
    BY <1>4, Working DEF CommitAnswer, SetStatus
  <2>2. PICK status \in Statuses : StaffWrites(r, status)
    BY <1>4 DEF CommitAnswer, SetStatus, Settable, Statuses
  <2>3. PICK t \in Tickets : t = request[r].ticket /\ Exists(t)
    BY <2>1, TypesAreParts DEF RequestsAreSound, Sound, Parts, Steps
  <2>4. ticket' = [ticket EXCEPT ![t].status = status] /\ last' = [last EXCEPT ![t] = "staff"]
    BY <2>2, <2>3 DEF StaffWrites
  <2>5. CASE k = t
    <3>1. last'[k] = "staff"
      BY <2>4, <2>5, TypesAreParts DEF Parts
    <3>2. QED  BY <2>3, <2>4, <2>5, <3>1, StatusChange
  <2>6. CASE k # t
    BY <1>1, <2>3, <2>4, <2>6, StatusChange
  <2>7. QED  BY <2>5, <2>6
<1>5. ASSUME NEW r \in Requests, MarkStaffRead(r) PROVE Kept
  <2>1. PICK t \in Tickets : t = request[r].ticket /\ Exists(t)
    BY <1>5, Working DEF MarkStaffRead, RequestsAreSound, Sound
  <2>2. ticket' = [ticket EXCEPT ![t].read = now]
    BY <1>5, <2>1 DEF MarkStaffRead
  <2>3. CASE k = t
    BY <2>1, <2>2, <2>3, MarkChange
  <2>4. CASE k # t
    BY <1>1, <2>1, <2>2, <2>4, MarkChange
  <2>5. QED  BY <2>3, <2>4
<1>6. ASSUME NEW r \in Requests, Load(r) \/ Refuse(r) \/ InsertMessage(r) \/ ShowChat(r)
      PROVE  Kept
  BY <1>1, <1>6, QuietSteps DEF ShowChat
<1>7. CASE Wait \/ UNCHANGED vars
  BY <1>1, <1>7 DEF Wait, vars
<1>8. QED
  BY <1>2, <1>3, <1>4, <1>5, <1>6, <1>7 DEF Next

\* The deadline of a ticket is a moment after its creation.
LEMMA DeadlineIsMoment ==
  ASSUME Types, NEW k \in Tickets, Exists(k)
  PROVE  /\ ticket[k].created \in Nat /\ Deadline(k) \in Nat
         /\ ticket[k].created <= Deadline(k)
         /\ WorkingTime(ticket[k].created, Deadline(k)) = Patience
<1>1. PICK c \in Nat : c = ticket[k].created
  BY Existing DEF Rows
<1>2. Deadline(k) = AddBusinessHours(c, Patience) /\ Patience \in Nat
  BY <1>1, SupportAssumption DEF Deadline
<1>3. PICK d \in Nat : d = AddBusinessHours(c, Patience) /\ c <= d /\ WorkingTime(c, d) = Patience
  BY <1>2, HoursAreWorked
<1>4. QED  BY <1>1, <1>2, <1>3, Zenon

\* The types say when a ticket is overdue: answered or not, it is its creation that counts.
LEMMA DeadlineIsTrue ==
  ASSUME Types, NEW k \in Tickets, Exists(k), ticket[k].status = "OPEN"
  PROVE  LET worked == WorkingTime(ticket[k].created, now) IN
         /\ Overdue(k) => worked >= Patience
         /\ worked > Patience => Overdue(k)
<1>1. PICK c \in Nat, d \in Nat, n \in Nat, w \in Nat :
        /\ c = ticket[k].created /\ d = Deadline(k) /\ n = now
        /\ w = WorkingTime(c, n)
        /\ c <= d /\ WorkingTime(c, d) = Patience
  <2>1. now \in Nat
    BY TypesAreParts DEF Parts
  <2>2. QED  BY <2>1, DeadlineIsMoment, WorkingTimeIsNumber
<1>2. Patience \in Nat
  BY SupportAssumption
<1>3. Overdue(k) <=> n > d
  BY <1>1 DEF Overdue
<1>4. CASE n > d
  <2>1. w = Patience + WorkingTime(d, n)
    BY <1>1, <1>4, WorkingTimeAdds
  <2>2. WorkingTime(d, n) \in Nat
    BY WorkingTimeIsNumber
  <2>3. w >= Patience
    BY <1>2, <2>1, <2>2
  <2>4. QED  BY <1>1, <1>3, <1>4, <2>3
<1>5. CASE n <= d
  <2>1. w <= Patience
    <3>1. CASE c <= n
      <4>1. Patience = w + WorkingTime(n, d)
        BY <1>1, <1>5, <3>1, WorkingTimeAdds
      <4>2. WorkingTime(n, d) \in Nat
        BY WorkingTimeIsNumber
      <4>3. QED  BY <1>1, <4>1, <4>2
    <3>2. CASE n < c
      <4>1. c .. n - 1 = {}
        BY <3>2
      <4>2. w = 0
        BY <1>1, <4>1, WeekendsDoNotCount
      <4>3. QED  BY <1>2, <4>2
    <3>3. QED  BY <3>1, <3>2
  <2>2. ~(n > d) /\ ~(w > Patience)
    BY <1>2, <1>5, <2>1
  <2>3. QED  BY <1>1, <1>3, <2>2
<1>6. QED  BY <1>4, <1>5

\* Time passes and staff writes: nothing else ends an overdue ticket.
LEMMA OverdueStays ==
  ASSUME Types, RequestsAreSound, [Next]_vars, NEW k \in Tickets, Overdue(k), last'[k] # "staff"
  PROVE  Overdue(k)'
<1>1. Exists(k) /\ ticket[k].status = "OPEN" /\ now > Deadline(k)
  BY DEF Overdue
<1>2. Exists(k)' /\ ticket'[k].created = ticket[k].created /\ ticket'[k].status = "OPEN"
  BY <1>1, RowKept
<1>3. PICK d \in Nat : d = Deadline(k) /\ d = AddBusinessHours(ticket[k].created, Patience)
  BY <1>1, DeadlineIsMoment DEF Deadline
<1>4. Deadline(k)' = d
  BY <1>2, <1>3, Zenon DEF Deadline
<1>5. now' > d
  <2>1. now \in Nat /\ now' \in Nat /\ now <= now'
    BY TimeGoesOn, TypesAreParts DEF Parts
  <2>2. QED  BY <1>1, <1>3, <2>1
<1>6. QED  BY <1>2, <1>4, <1>5 DEF Overdue

-----------------------------------------------------------------------------
(* Theorems *)

\* In the beginning there is no ticket.
LEMMA InductiveInit == Init => Inductive
<1> SUFFICES ASSUME Init PROVE Inductive
  OBVIOUS
<1>1. RequestsAreSound
  BY DEF Init, RequestsAreSound, Sound
<1>2. ReadsArePast
  BY DEF Init, ReadsArePast, Exists
<1>3. UnseenIsUnread
  <2>1. \A t \in Tickets : seen[t] + 1 .. Len(messages[t]) = {}
    BY DEF Init
  <2>2. QED  BY <2>1 DEF UnseenIsUnread
<1>4. UnansweredIsOpen
  BY DEF Init, UnansweredIsOpen
<1>5. QED  BY <1>1, <1>2, <1>3, <1>4, TypesInit DEF Inductive

\* Every step keeps the invariant.
LEMMA InductiveNext == Inductive /\ [Next]_vars => Inductive'
<1> SUFFICES ASSUME Inductive, [Next]_vars PROVE Inductive'
  OBVIOUS
<1>1. Types' /\ RequestsAreSound'
  BY TypesKept, SoundKept DEF Inductive
<1>2. ReadsArePast' /\ UnseenIsUnread' /\ UnansweredIsOpen'
  BY ReadsKept, UnseenKept, AnsweredKept DEF Inductive
<1>3. QED  BY <1>1, <1>2 DEF Inductive

\* Requests overlap as they like: what they hold of a ticket that nobody crossed is true.
THEOREM RequestsStaySound == Spec => []Inductive
<1>1. QED  BY InductiveInit, InductiveNext, PTL DEF Spec

\* The variables keep their types.
THEOREM TicketTypes == Spec => []TypeOK
<1>1. Inductive => TypeOK
  BY DEF Inductive, Types
<1>2. QED  BY <1>1, RequestsStaySound, PTL

\* No message of a student that no reader raced is hidden by the read mark.
THEOREM DotHidesNothing == Spec => []UnseenIsUnread
<1>1. Inductive => UnseenIsUnread
  BY DEF Inductive
<1>2. QED  BY <1>1, RequestsStaySound, PTL

\* A ticket whose last writer is a student that no staff status crossed is open.
THEOREM MessagesReopen == Spec => []UnansweredIsOpen
<1>1. Inductive => UnansweredIsOpen
  BY DEF Inductive
<1>2. QED  BY <1>1, RequestsStaySound, PTL

\* add_business_hours gives the end of that many working hours: the first moment at which
\* as many have passed since the start, whatever the hour and the weekends in between.
THEOREM BusinessHoursAreWorkingTime ==
  \A start \in Nat, hours \in Nat \ {0} :
    LET end == AddBusinessHours(start, hours) IN
    /\ end \in Nat
    /\ WorkingTime(start, end) = hours
    /\ \A t \in start .. end - 1 : WorkingTime(start, t) < hours
<1> SUFFICES ASSUME NEW start \in Nat, NEW hours \in Nat \ {0}
             PROVE  LET end == AddBusinessHours(start, hours) IN
                    /\ end \in Nat
                    /\ WorkingTime(start, end) = hours
                    /\ \A t \in start .. end - 1 : WorkingTime(start, t) < hours
  BY Zenon
<1>1. PICK end \in Nat : /\ end = AddBusinessHours(start, hours) /\ start <= end
                        /\ WorkingTime(start, end) = hours
                        /\ end # start /\ ~IsWeekend(DayOf(end - 1))
  BY HoursAreWorked
<1>2. ASSUME NEW t \in start .. end - 1 PROVE WorkingTime(start, t) < hours
  <2>1. PICK e \in Nat : e = end - 1 /\ t \in Nat /\ start <= t /\ t <= e /\ e < end
    BY <1>1, end - 1 \in Nat
  <2>2. \A u \in e .. end - 1 : ~IsWeekend(DayOf(u))
    <3>1. \A u \in e .. end - 1 : u = end - 1
      BY <2>1
    <3>2. QED  BY <1>1, <3>1
  <2>3. WorkingTime(e, end) = 1
    BY <2>1, <2>2, WorkingDaysCount
  <2>4. WorkingTime(start, end) = WorkingTime(start, t) + WorkingTime(t, end)
    BY <1>1, <2>1, WorkingTimeAdds
  <2>5. WorkingTime(t, end) = WorkingTime(t, e) + WorkingTime(e, end)
    BY <2>1, WorkingTimeAdds
  <2>6. WorkingTime(start, t) \in Nat /\ WorkingTime(t, e) \in Nat
    BY <2>1, WorkingTimeIsNumber
  <2>7. QED  BY <1>1, <2>3, <2>4, <2>5, <2>6
<1>3. QED  BY <1>1, <1>2

\* An open ticket without an answer is overdue when more than 24 working hours have passed
\* since its creation, and no open ticket is before they have.
THEOREM BadgeIsInTime == Spec => []OverdueAfterADay
<1>1. Inductive => OverdueAfterADay
  <2> SUFFICES ASSUME Inductive, NEW k \in Tickets, Exists(k), ticket[k].status = "OPEN"
               PROVE  LET worked == WorkingTime(ticket[k].created, now) IN
                      /\ Overdue(k) => worked >= Patience
                      /\ worked > Patience /\ ~Answered(k) => Overdue(k)
    BY Zenon DEF OverdueAfterADay
  <2>1. QED  BY DeadlineIsTrue, Zenon DEF Inductive
<1>2. QED  BY <1>1, RequestsStaySound, PTL

\* Neither time nor a student takes the badge of an overdue ticket away.
THEOREM BadgeStaysUntilStaff == Spec => OverdueEndsByStaff
<1>1. ASSUME Inductive, [Next]_vars
      PROVE  [\A t \in Tickets : Overdue(t) /\ ~Overdue(t)' => last'[t] = "staff"]_vars
  BY <1>1, OverdueStays DEF Inductive
<1>2. QED  BY <1>1, RequestsStaySound, PTL DEF Spec, OverdueEndsByStaff

=============================================================================
