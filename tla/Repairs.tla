-------------------------------- MODULE Repairs --------------------------------
(***************************************************************************)
(* backend/src/repairs: the life of repair cases.  changeStatus reads the  *)
(* case, checks the new status against the flow, stores the photo, and     *)
(* then writes status, log and SLA in one transaction that looks at        *)
(* nothing but the id.  Requests are cut where they await.                 *)
(***************************************************************************)
EXTENDS Integers, Sequences, FiniteSets

CONSTANTS
  Staff,        \* users, one request of each at a time
  SelfScoped,   \* those who may only touch the cases assigned to them
  Technicians,  \* those whom cases are assigned to
  Images,       \* photos; each is uploaded at most once, under a random name
  SlaHours,     \* the SLA policies, and 0 for none or an inactive one
  NumCases,     \* bound: cases that are registered
  MaxChanges,   \* bound: status changes of a case
  MaxInFlight,  \* bound: requests served at once
  MaxClock,     \* bound
  MaxFaults     \* bound: requests that die and transactions that fail

VARIABLES
  cases,      \* the RepairCase rows with their RepairSla, by case number
  log,        \* the RepairStatusLog rows of each case, oldest first
  files,      \* photos in uploads/repairs
  abandoned,  \* photos whose request died, or could not delete them
  told,       \* notifications, as <<type, case, technician>>
  desk,       \* where the request of each user is
  clock,
  faults

vars == <<cases, log, files, abandoned, told, desk, clock, faults>>

Numbers == 1 .. NumCases
Never == -1                  \* a date that is null
NoOne == "no one"
NoImage == "no image"

ASSUME RepairsAssumption ==
  /\ SelfScoped \subseteq Staff /\ Technicians \subseteq Staff /\ NoOne \notin Staff /\ NoImage \notin Images
  /\ SlaHours \subseteq Nat /\ NumCases \in Nat /\ MaxChanges \in Nat
  /\ MaxClock \in Nat /\ MaxFaults \in Nat /\ MaxInFlight \in Nat

Status == {"REGISTERED", "WAITING_REVIEW", "WAITING_COST_APPROVAL", "APPROVED", "REJECTED",
           "IN_REPAIR", "QC", "READY_FOR_DELIVERY", "DELIVERED", "CLOSED", "CANCELED",
           "NO_REPAIR_REQUIRED"}
Time == Nat \cup {Never}

\* REPAIR_STATUS_FLOW; a status it does not list has no successor.
Flow(status) ==
  CASE status = "REGISTERED" -> {"WAITING_REVIEW", "CANCELED"}
    [] status = "WAITING_REVIEW" -> {"WAITING_COST_APPROVAL", "IN_REPAIR", "NO_REPAIR_REQUIRED"}
    [] status = "WAITING_COST_APPROVAL" -> {"APPROVED", "REJECTED"}
    [] status = "APPROVED" -> {"IN_REPAIR"}
    [] status = "IN_REPAIR" -> {"QC"}
    [] status = "QC" -> {"READY_FOR_DELIVERY", "IN_REPAIR"}
    [] status = "READY_FOR_DELIVERY" -> {"DELIVERED"}
    [] status = "DELIVERED" -> {"CLOSED"}
    [] OTHER -> {}

Completed == {"CLOSED", "DELIVERED", "NO_REPAIR_REQUIRED"}

Sla == [due : Time, completed : Time, breached : BOOLEAN]     \* due = Never: no SLA row
Case == [status : Status, technician : Staff \cup {NoOne},
         started : Time, completed : Time, sla : Sla]
Entry == [old : Status, new : Status, image : Images \cup {NoImage}]

NoteType == {"REPAIR_ASSIGNED", "REPAIR_STATUS_CHANGED"}

Idle == [pc |-> "idle"]
Request ==
  {Idle} \cup [pc : {"create"}, number : Nat, due : Time]
         \cup [pc : {"tell"}, type : NoteType, case : Numbers, technician : Staff]
         \cup [pc : {"write", "commit"}, case : Numbers, new : Status,
               image : Images \cup {NoImage}, read : Case]

Init ==
  /\ cases = << >> /\ log = << >>
  /\ files = {} /\ abandoned = {} /\ told = {}
  /\ desk = [u \in Staff |-> Idle]
  /\ clock = 0 /\ faults = 0

InFlight == {u \in Staff : desk[u] # Idle}
Leave(u) == desk' = [desk EXCEPT ![u] = Idle]
Telling(type, c, technician) ==
  [pc |-> "tell", type |-> type, case |-> c, technician |-> technician]
MayStart(u) == desk[u] = Idle /\ Cardinality(InFlight) < MaxInFlight

-----------------------------------------------------------------------------
(* create *)

\* RepairCaseNumberService.generate counts the cases; the SLA is computed from
\* the policy of the case's type.
Register(u, hours) ==
  /\ MayStart(u) /\ Len(cases) < NumCases
  /\ desk' = [desk EXCEPT ![u] = [pc |-> "create", number |-> Len(cases) + 1,
                                  due |-> IF hours = 0 THEN Never ELSE clock + hours]]
  /\ UNCHANGED <<cases, log, files, abandoned, told, clock, faults>>

\* MUTANT of CreateCase: nothing makes the case number unique.
CreateAnyway(u) ==
  /\ desk[u].pc = "create"
  /\ cases' = Append(cases, [status |-> "REGISTERED", technician |-> NoOne,
       started |-> Never, completed |-> Never,
       sla |-> [due |-> desk[u].due, completed |-> Never, breached |-> FALSE]])
  /\ log' = Append(log, << >>)
  /\ Leave(u)
  /\ UNCHANGED <<files, abandoned, told, clock, faults>>

\* The case number is unique: of two requests that counted alike one fails.
CreateCase(u) ==
  /\ desk[u].pc = "create"
  /\ \/ /\ desk[u].number \notin DOMAIN cases
        /\ cases' = Append(cases, [status |-> "REGISTERED", technician |-> NoOne,
             started |-> Never, completed |-> Never,
             sla |-> [due |-> desk[u].due, completed |-> Never, breached |-> FALSE]])
        /\ log' = Append(log, << >>)
     \/ desk[u].number \in DOMAIN cases /\ UNCHANGED <<cases, log>>
  /\ Leave(u)
  /\ UNCHANGED <<files, abandoned, told, clock, faults>>

-----------------------------------------------------------------------------
(* assignTechnician *)

\* MUTANT of AssignTechnician: whoever takes a case for himself is not told.
AssignQuietly(u, c, technician) ==
  /\ MayStart(u)
  /\ cases' = [cases EXCEPT ![c].technician = technician]
  /\ desk' = IF technician = u THEN desk
             ELSE [desk EXCEPT ![u] = Telling("REPAIR_ASSIGNED", c, technician)]
  /\ UNCHANGED <<log, files, abandoned, told, clock, faults>>

AssignTechnician(u, c, technician) ==
  /\ MayStart(u)
  /\ cases' = [cases EXCEPT ![c].technician = technician]
  /\ desk' = [desk EXCEPT ![u] = Telling("REPAIR_ASSIGNED", c, technician)]
  /\ UNCHANGED <<log, files, abandoned, told, clock, faults>>

TellTechnician(u) ==
  /\ desk[u].pc = "tell"
  /\ told' = told \cup {<<desk[u].type, desk[u].case, desk[u].technician>>}
  /\ Leave(u)
  /\ UNCHANGED <<cases, log, files, abandoned, clock, faults>>

-----------------------------------------------------------------------------
(* changeStatus *)

\* assertCanAccessRepair
MayAccess(u, c) == u \in SelfScoped => cases[c].technician = u

\* MUTANT of Validate: no check.
ValidateNothing(status, new) == new \in Status

\* RepairStatusService.validateTransition
Validate(status, new) == new \in Flow(status)

Used == files \cup abandoned \cup {desk[u].image : u \in {v \in Staff : desk[v].pc = "write"}}

\* The case is read and the new status compared with the status it has now.
ReadCase(u, c, new, image) ==
  /\ MayStart(u) /\ Len(log[c]) < MaxChanges
  /\ MayAccess(u, c) /\ Validate(cases[c].status, new)
  /\ image \notin Used
  /\ desk' = [desk EXCEPT ![u] = [pc |-> IF image = NoImage THEN "commit" ELSE "write",
       case |-> c, new |-> new, image |-> image, read |-> cases[c]]]
  /\ UNCHANGED <<cases, log, files, abandoned, told, clock, faults>>

WriteImage(u) ==
  /\ desk[u].pc = "write"
  /\ files' = files \cup {desk[u].image}
  /\ desk' = [desk EXCEPT ![u].pc = "commit"]
  /\ UNCHANGED <<cases, log, abandoned, told, clock, faults>>

\* MUTANT of Closing: an SLA once closed is left alone.
ClosingOnce(sla, new, completed) ==
  IF new \notin Completed \/ sla.due = Never \/ sla.completed # Never THEN sla
  ELSE [sla EXCEPT !.completed = completed, !.breached = completed > sla.due]

\* The SLA takes over the case's completion date whenever a completing status is set.
Closing(sla, new, completed) ==
  IF new \notin Completed \/ sla.due = Never THEN sla
  ELSE [sla EXCEPT !.completed = completed, !.breached = completed > sla.due]

\* The dates are set when they were null in what the request read.
Changed(c, new, read) ==
  LET old == cases[c]
      started == IF new = "IN_REPAIR" /\ read.started = Never THEN clock ELSE old.started
      completed == IF new \in Completed /\ read.completed = Never THEN clock ELSE old.completed
  IN  [old EXCEPT !.status = new, !.started = started, !.completed = completed,
                  !.sla = Closing(old.sla, new, completed)]

\* The transaction; the technician it has read is told of it afterwards.
Commit(u) ==
  LET r == desk[u] IN
  /\ r.pc = "commit"
  /\ cases' = [cases EXCEPT ![r.case] = Changed(r.case, r.new, r.read)]
  /\ log' = [log EXCEPT ![r.case] =
       Append(@, [old |-> r.read.status, new |-> r.new, image |-> r.image])]
  /\ IF r.read.technician \in {NoOne, u} THEN Leave(u)
     ELSE desk' = [desk EXCEPT ![u] =
                     Telling("REPAIR_STATUS_CHANGED", r.case, r.read.technician)]
  /\ UNCHANGED <<files, abandoned, told, clock, faults>>

-----------------------------------------------------------------------------
(* Failures and time *)

Fault == faults < MaxFaults /\ faults' = faults + 1

\* MUTANT of TransactionFails: the photo is left behind.
FailsAndForgets(u) ==
  /\ desk[u].pc = "commit" /\ Fault
  /\ Leave(u)
  /\ UNCHANGED <<cases, log, files, abandoned, told, clock>>

\* The photo is deleted again, or its deletion fails too and is only logged.
TransactionFails(u) ==
  /\ desk[u].pc = "commit" /\ Fault
  /\ \/ files' = files \ {desk[u].image} /\ UNCHANGED abandoned
     \/ /\ desk[u].image # NoImage
        /\ abandoned' = abandoned \cup {desk[u].image} /\ UNCHANGED files
  /\ Leave(u)
  /\ UNCHANGED <<cases, log, told, clock>>

\* The process dies between two steps of a request.
Die(u) ==
  /\ desk[u] # Idle /\ Fault
  /\ abandoned' = IF desk[u].pc = "commit" THEN abandoned \cup ({desk[u].image} \ {NoImage})
                  ELSE abandoned
  /\ Leave(u)
  /\ UNCHANGED <<cases, log, files, told, clock>>

Tick ==
  /\ clock < MaxClock /\ clock' = clock + 1
  /\ UNCHANGED <<cases, log, files, abandoned, told, desk, faults>>

Next ==
  \/ \E u \in Staff :
       \/ \E hours \in SlaHours : Register(u, hours)
       \/ CreateCase(u) \/ TellTechnician(u) \/ WriteImage(u) \/ Commit(u)
       \/ TransactionFails(u) \/ Die(u)
       \/ \E c \in DOMAIN cases :
            \/ \E technician \in Technicians : AssignTechnician(u, c, technician)
            \/ \E new \in Status, image \in Images \cup {NoImage} : ReadCase(u, c, new, image)
  \/ Tick

Spec == Init /\ [][Next]_vars

-----------------------------------------------------------------------------
(* Properties *)

TypeOK ==
  /\ cases \in Seq(Case) /\ log \in Seq(Seq(Entry))
  /\ Len(cases) <= NumCases /\ Len(log) = Len(cases)
  /\ files \subseteq Images /\ abandoned \subseteq Images
  /\ told \subseteq NoteType \X Numbers \X Staff
  /\ desk \in [Staff -> Request]
  /\ clock \in Nat /\ faults \in Nat

\* The current status is the newest one in the log, and every change in the log
\* starts from a status that an earlier change had set: racing requests may undo
\* each other, but no case gets ready for delivery that was never in repair and in QC.
HistoryIsSupported ==
  \A c \in DOMAIN cases :
    /\ cases[c].status = IF log[c] = << >> THEN "REGISTERED" ELSE log[c][Len(log[c])].new
    /\ \A i \in DOMAIN log[c] :
         /\ log[c][i].new \in Flow(log[c][i].old)
         /\ \/ log[c][i].old = "REGISTERED"
            \/ \E j \in 1 .. i - 1 : log[c][j].new = log[c][i].old

\* The SLA report agrees with the case: once closed, it carries the case's own
\* completion date and is breached exactly when that date is past the due date.
SlaAgreesWithCase ==
  \A c \in DOMAIN cases :
    LET sla == cases[c].sla IN
    sla.due # Never =>
      /\ sla.completed = cases[c].completed
      /\ sla.breached <=> sla.completed > sla.due

\* The photos on disk are those the log refers to, those of requests that are
\* about to commit, and those of requests that could not clean up.
PhotosAreAccounted ==
  files = {e \in Images :
    \/ \E c \in DOMAIN cases : \E i \in DOMAIN log[c] : log[c][i].image = e
    \/ \E u \in Staff : desk[u].pc = "commit" /\ desk[u].image = e
    \/ e \in abandoned}

\* With no request about to tell and none dead, the technician of a case was told.
TechnicianIsTold ==
  \A c \in DOMAIN cases :
    (cases[c].technician # NoOne /\ faults = 0
       /\ \A u \in Staff : desk[u].pc # "tell") =>
    <<"REPAIR_ASSIGNED", c, cases[c].technician>> \in told
=============================================================================
