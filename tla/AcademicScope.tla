---------------------------- MODULE AcademicScope ----------------------------
(***************************************************************************)
(* Who sees what: the disciplines and lab works of a student's group and   *)
(* the catalog, bookings and students of a member of staff                 *)
(* (academics/scope.py, bookings/scope.py, users/roles.py), and the edits  *)
(* of the rows they are computed from, in the laboratory portal and in the *)
(* Django admin.                                                           *)
(***************************************************************************)
EXTENDS Integers, FiniteSetsExt

CONSTANTS
  Students, Staff,
  Groups, NoGroup,
  Disciplines,       \* naturals in order of title
  Works, Rooms,
  Labs, NoLab,       \* laboratories, naturals in order of name
  Centers, NoCenter,
  GroupOf,           \* resolve_student_group
  Plan,              \* the disciplines of a group, for groups without a load
  PlanWorks,         \* the lab works of a group, which only staff_students_qs reads
  ActiveDisciplines, \* those of the active semester
  LabsOfWork,        \* the laboratories of a lab work
  CenterOfLab, CenterOfRoom,
  Role, LabOf, CenterOf, \* role, laboratory and centre in the profile of a member of staff
  SameFaculty,       \* faculty_matches: pairs of a laboratory and a discipline
  LoadAtFirst, DisciplinesAtFirst, BoundAtFirst, RoomLabAtFirst

ASSUME ScopeAssumption ==
  /\ Disciplines \subseteq Nat /\ IsFiniteSet(Disciplines)
  /\ Labs \subseteq Nat /\ IsFiniteSet(Labs)
  /\ NoGroup \notin Groups /\ NoLab \notin Labs /\ NoCenter \notin Centers
  /\ GroupOf \in [Students -> Groups \union {NoGroup}]
  /\ Plan \in [Groups -> SUBSET Disciplines]
  /\ PlanWorks \in [Groups -> SUBSET Works]
  /\ ActiveDisciplines \subseteq Disciplines
  /\ LabsOfWork \in [Works -> SUBSET Labs]
  /\ CenterOfLab \in [Labs -> Centers] /\ CenterOfRoom \in [Rooms -> Centers]
  /\ Role \in [Staff -> {"LAB_ADMIN", "LAB_HEAD", "TEACHER", "SYS_ADMIN"}]
  /\ LabOf \in [Staff -> Labs \union {NoLab}]
  /\ CenterOf \in [Staff -> Centers \union {NoCenter}]
  /\ SameFaculty \subseteq Labs \X Disciplines
  /\ LoadAtFirst \in [Groups -> SUBSET Disciplines]
  /\ DisciplinesAtFirst \in [Works -> (SUBSET Disciplines) \ {{}}]
  /\ BoundAtFirst \subseteq Labs \X Disciplines
  /\ RoomLabAtFirst \in [Rooms -> Labs \union {NoLab}]

VARIABLES
  load,      \* active GroupDisciplineLoad rows of the semester, by group
  override,  \* active GroupLabWorkOverride rows of the semester: "OPEN", "HIDDEN" or "NONE"
  published, \* disciplines with is_published
  work,      \* LabWork rows: [published, disciplines]
  bound,     \* LabDisciplineBinding rows
  roomLab    \* the laboratory of a room, or NoLab

ScopeInit ==
  /\ load = LoadAtFirst
  /\ override = [g \in Groups |-> [w \in Works |-> "NONE"]]
  /\ published = Disciplines
  /\ work = [w \in Works |-> [published |-> TRUE, disciplines |-> DisciplinesAtFirst[w]]]
  /\ bound = BoundAtFirst
  /\ roomLab = RoomLabAtFirst

scope == <<load, override, published, work, bound, roomLab>>

-----------------------------------------------------------------------------
(* Students *)

\* _active_group_discipline_ids
ActiveGroupDisciplines(g) == IF load[g] # {} THEN load[g] ELSE Plan[g]

PublishedDisciplines == published \intersect ActiveDisciplines

\* student_disciplines_qs
StudentDisciplines(u) ==
  IF GroupOf[u] = NoGroup THEN {}
  ELSE PublishedDisciplines \intersect ActiveGroupDisciplines(GroupOf[u])

\* A published lab work with a discipline of the active semester
Current(w) == work[w].published /\ work[w].disciplines \intersect ActiveDisciplines # {}

\* student_lab_works_qs: the plan without what is hidden, and what is opened.  The
\* disciplines of the plan need not be published; an empty plan opens nothing.
StudentLabWorks(u) ==
  LET g    == GroupOf[u]
      plan == ActiveGroupDisciplines(g)
  IN  IF g = NoGroup \/ plan = {} THEN {}
      ELSE {w \in Works : Current(w) /\
             \/ override[g][w] = "OPEN"
             \/ /\ override[g][w] # "HIDDEN"
                /\ work[w].disciplines \intersect plan \intersect ActiveDisciplines # {}}

-----------------------------------------------------------------------------
(* Staff *)

CanModifyBookings(u) == Role[u] \in {"LAB_ADMIN", "LAB_HEAD", "SYS_ADMIN"}

CanManageCatalog(u) == Role[u] \in {"LAB_HEAD", "SYS_ADMIN"}

\* resolve_staff_laboratory: that of the profile, or the first of its centre
StaffLaboratory(u) ==
  LET here == {l \in Labs : CenterOfLab[l] = CenterOf[u]} IN
  IF LabOf[u] # NoLab THEN LabOf[u] ELSE IF here = {} THEN NoLab ELSE Min(here)

\* resolve_staff_training_center
StaffCenter(u) == IF LabOf[u] # NoLab THEN CenterOfLab[LabOf[u]] ELSE CenterOf[u]

\* _staff_catalog_qs: rows that belong to these laboratories
InCatalog(u, labs) ==
  \/ Role[u] = "SYS_ADMIN"
  \/ StaffLaboratory(u) \in labs
  \/ StaffLaboratory(u) = NoLab /\ \E l \in labs : CenterOfLab[l] = StaffCenter(u)

BoundTo(d) == {l \in Labs : <<l, d>> \in bound}

\* lab_head_disciplines_qs
LabHeadDisciplines(u) == {d \in Disciplines : InCatalog(u, BoundTo(d))}

\* staff_lab_works_qs
StaffLabWorks(u) == {w \in Works : Current(w) /\ InCatalog(u, LabsOfWork[w])}

\* Defect: the lab works of the laboratory are forgotten.
StaffBookingsByRoom(u, bookings) ==
  LET lab == StaffLaboratory(u) IN
  {b \in bookings :
     \/ Role[u] = "SYS_ADMIN"
     \/ lab # NoLab /\ roomLab[b.session.room] = lab
     \/ lab # NoLab /\ <<lab, b.discipline>> \in bound}

\* staff_bookings_qs: by the room, by the centre of a room without a laboratory, by
\* the lab work or by the discipline
StaffBookings(u, bookings) ==
  LET lab == StaffLaboratory(u) IN
  {b \in bookings :
     \/ Role[u] = "SYS_ADMIN"
     \/ /\ lab # NoLab
        /\ \/ roomLab[b.session.room] = lab
           \/ /\ roomLab[b.session.room] = NoLab
              /\ CenterOfRoom[b.session.room] = CenterOfLab[lab]
           \/ lab \in LabsOfWork[b.session.work]
           \/ <<lab, b.discipline>> \in bound}

\* All disciplines that the rows of a group lead to
DisciplinesNear(g) ==
  load[g] \union Plan[g] \union UNION {work[w].disciplines : w \in PlanWorks[g]}

\* staff_students_qs: those whose group has a discipline of the laboratory, by its
\* load, by its plan even if a load replaces it, or by its lab works, and those with
\* a booking in scope
StaffStudents(u, bookings) ==
  {st \in Students :
     \/ Role[u] = "SYS_ADMIN"
     \/ \E b \in StaffBookings(u, bookings) : b.student = st
     \/ /\ GroupOf[st] # NoGroup
        /\ DisciplinesNear(GroupOf[st]) \intersect LabHeadDisciplines(u) # {}}

\* staff_manual_lab_work_items
ManualLabWorkItems(u, st) == StudentLabWorks(st) \intersect StaffLabWorks(u)

\* resolve_portal_laboratory: a system administrator selects any laboratory.
PortalLaboratories(u) ==
  IF ~CanManageCatalog(u) THEN {}
  ELSE IF Role[u] = "SYS_ADMIN" THEN Labs ELSE {StaffLaboratory(u)} \ {NoLab}

-----------------------------------------------------------------------------
(* Edits *)

\* GroupLabWorkOverrideAdmin
SetOverride ==
  \E g \in Groups, w \in Works, mode \in {"NONE", "OPEN", "HIDDEN"} :
    /\ mode # override[g][w]
    /\ override' = [override EXCEPT ![g][w] = mode]
    /\ UNCHANGED <<load, published, work, bound, roomLab>>

\* GroupDisciplineLoadAdmin: a row is added or removed
ChangeLoad ==
  \E g \in Groups, d \in Disciplines :
    /\ load' = [load EXCEPT ![g] = IF d \in @ THEN @ \ {d} ELSE @ \union {d}]
    /\ UNCHANGED <<override, published, work, bound, roomLab>>

\* DisciplineAdmin
PublishDiscipline ==
  \E d \in Disciplines :
    /\ published' = IF d \in published THEN published \ {d} ELSE published \union {d}
    /\ UNCHANGED <<load, override, work, bound, roomLab>>

\* RoomAdmin
MoveRoom ==
  \E r \in Rooms, l \in Labs \union {NoLab} :
    /\ l # roomLab[r]
    /\ roomLab' = [roomLab EXCEPT ![r] = l]
    /\ UNCHANGED <<load, override, published, work, bound>>

\* bind: only a system administrator binds a discipline of another faculty, with a
\* reason; a second binding violates the constraint.
Bind(u) ==
  \E l \in PortalLaboratories(u), d \in Disciplines :
    /\ Role[u] = "SYS_ADMIN" \/ <<l, d>> \in SameFaculty
    /\ <<l, d>> \notin bound
    /\ bound' = bound \union {<<l, d>>}
    /\ UNCHANGED <<load, override, published, work, roomLab>>

\* unbind
Unbind(u) ==
  \E l \in PortalLaboratories(u), d \in Disciplines :
    /\ <<l, d>> \in bound
    /\ bound' = bound \ {<<l, d>>}
    /\ UNCHANGED <<load, override, published, work, roomLab>>

\* Defect: the form may leave a lab work without a discipline.
DisciplineChoicesOrNone(l) == SUBSET {d \in Disciplines : <<l, d>> \in bound}

\* _clean_lab_work_payload: one or more disciplines bound to the laboratory
DisciplineChoices(l) == (SUBSET {d \in Disciplines : <<l, d>> \in bound}) \ {{}}

\* update_lab_work replaces all disciplines, those that another laboratory gave the
\* work included.
UpdateLabWork(u) ==
  \E l \in PortalLaboratories(u), w \in Works, p \in BOOLEAN : \E ds \in DisciplineChoices(l) :
    /\ l \in LabsOfWork[w]
    /\ work' = [work EXCEPT ![w] = [published |-> p, disciplines |-> ds]]
    /\ work' # work
    /\ UNCHANGED <<load, override, published, bound, roomLab>>

EditScope ==
  \/ SetOverride \/ ChangeLoad \/ PublishDiscipline \/ MoveRoom
  \/ \E u \in Staff : Bind(u) \/ Unbind(u) \/ UpdateLabWork(u)

ScopeTypeOK ==
  /\ load \in [Groups -> SUBSET Disciplines]
  /\ override \in [Groups -> [Works -> {"NONE", "OPEN", "HIDDEN"}]]
  /\ published \subseteq Disciplines
  /\ work \in [Works -> [published : BOOLEAN, disciplines : (SUBSET Disciplines) \ {{}}]]
  /\ bound \subseteq Labs \X Disciplines
  /\ roomLab \in [Rooms -> Labs \union {NoLab}]

=============================================================================
