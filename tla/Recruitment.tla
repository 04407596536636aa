------------------------------ MODULE Recruitment ------------------------------
(***************************************************************************)
(* backend/src/recruitment/recruitment.service.ts: applications for a job  *)
(* opening.  Every operation reads the application, checks its stage, and  *)
(* then commits one transaction that updates the row where the version is  *)
(* still the one that was read.  Meanwhile users.service.ts opens, changes *)
(* and deletes the accounts of the users, among them those of the hired.   *)
(***************************************************************************)
EXTENDS Integers, Sequences, FiniteSets

CONSTANTS
  Applications,  \* requests of the public to apply
  Phones,        \* phone numbers as applicants type them
  Mobiles,       \* those among them that the accounts of users may be given
  Normal,        \* normalizePhone on those numbers
  Staff,         \* users, one request of each at a time
  MaxVersion,    \* bound: changes of an application
  MaxChanges,    \* bound: accounts opened, changed or deleted by other requests
  MaxInFlight    \* bound: requests served at once

VARIABLES
  apps,         \* the RecruitmentApplication rows with applicant, forms and assignment
  transitions,  \* the RecruitmentTransition rows of each, oldest first
  holder,       \* the account that has a phone number: the key is unique
  made,         \* how many accounts the approvals of each application have made
  changes,      \* accounts opened, changed or deleted so far
  applying,     \* where the request to apply is
  desk          \* where the request of each member of the staff is

userVars == <<holder, made, changes>>
vars == <<apps, transitions, userVars, applying, desk>>

NoOne == "no one"
NoPhone == "no phone"

ASSUME RecruitmentAssumption ==
  /\ NoOne \notin Staff /\ NoOne \notin Applications /\ NoPhone \notin Phones
  /\ Normal \in [Phones -> Phones] /\ Mobiles \subseteq Phones
  /\ MaxVersion \in Nat /\ MaxChanges \in Nat /\ MaxInFlight \in Nat

Stage == {"PRE_INTERVIEW_FORM", "INITIAL_REVIEW", "INITIAL_INTERVIEW",
          "TECHNICAL_INTERVIEW_ASSIGNMENT", "TECHNICAL_INTERVIEW", "SUPERADMIN_APPROVAL",
          "PROFILE_COMPLETION"}

Operation == {"approveInitial", "reject", "submitInitial", "assignInterviewer",
              "submitTechnical", "finalApprove"}

\* An account is known by the application it was made for and its number among the
\* accounts made for that one.
Account == [of : Applications \cup {NoOne}, number : Nat]
Nobody == [of |-> NoOne, number |-> 0]
Colleague == [of |-> NoOne, number |-> 1]

\* The stage an operation expects.
Expected == [op \in Operation |->
  CASE op \in {"approveInitial", "reject"} -> "INITIAL_REVIEW"
    [] op = "submitInitial" -> "INITIAL_INTERVIEW"
    [] op = "assignInterviewer" -> "TECHNICAL_INTERVIEW_ASSIGNMENT"
    [] op = "submitTechnical" -> "TECHNICAL_INTERVIEW"
    [] op = "finalApprove" -> "SUPERADMIN_APPROVAL"]

Application == [status : {"NONE", "IN_PROGRESS", "REJECTED", "HIRED"}, stage : Stage,
  version : 0 .. MaxVersion, phone : Phones \cup {NoPhone}, forms : SUBSET Stage,
  assignee : Staff \cup {NoOne}, evaluator : Staff \cup {NoOne}, finalUser : Nat]
Transition == [from : Stage, to : Stage, action : Operation \cup {"apply"}]

Idle == [pc |-> "idle"]
Request == {Idle} \cup
  [pc : Operation, app : Applications, version : Nat, interviewer : Staff]

Absent == [status |-> "NONE", stage |-> "PRE_INTERVIEW_FORM", version |-> 0, phone |-> NoPhone,
           forms |-> {}, assignee |-> NoOne, evaluator |-> NoOne, finalUser |-> 0]

Init ==
  /\ apps = [a \in Applications |-> Absent]
  /\ transitions = [a \in Applications |-> << >>]
  /\ holder \in [Phones -> {Nobody, Colleague}]
  /\ made = [a \in Applications |-> 0] /\ changes = 0
  /\ applying = [a \in Applications |-> [pc |-> "new", phone |-> NoPhone]]
  /\ desk = [u \in Staff |-> Idle]

InFlight == Cardinality({u \in Staff : desk[u] # Idle})
          + Cardinality({a \in Applications : applying[a].pc = "create"})

-----------------------------------------------------------------------------
(* createPublicApplication *)

Active(phone) ==
  {a \in Applications : apps[a].status = "IN_PROGRESS" /\ Normal[apps[a].phone] = Normal[phone]}

CheckDuplicate(a, phone) ==
  /\ applying[a].pc = "new" /\ InFlight < MaxInFlight
  /\ Active(phone) = {}
  /\ applying' = [applying EXCEPT ![a] = [pc |-> "create", phone |-> phone]]
  /\ UNCHANGED <<apps, transitions, userVars, desk>>

\* Applicant, application, submission of the first form and transition, at once.
CreateApplication(a) ==
  /\ applying[a].pc = "create"
  /\ apps' = [apps EXCEPT ![a] = [status |-> "IN_PROGRESS", stage |-> "INITIAL_REVIEW",
       version |-> 0, phone |-> applying[a].phone, forms |-> {"PRE_INTERVIEW_FORM"},
       assignee |-> NoOne, evaluator |-> NoOne, finalUser |-> 0]]
  /\ transitions' = [transitions EXCEPT ![a] =
       <<[from |-> "PRE_INTERVIEW_FORM", to |-> "INITIAL_REVIEW", action |-> "apply"]>>]
  /\ applying' = [applying EXCEPT ![a].pc = "done"]
  /\ UNCHANGED <<userVars, desk>>

-----------------------------------------------------------------------------
(* The operations of the staff: what they read ... *)

Leave(u) == desk' = [desk EXCEPT ![u] = Idle]

\* MUTANT of MayStart: anyone may hand in the technical interview.
MayStartAny(u, a, op) == apps[a].status # "NONE" /\ apps[a].stage = Expected[op]

\* ensureStage; a technical interview is handed in by its assignee, and who is hired
\* must have a number that no account has.  The status of the application plays no part.
MayStart(u, a, op) ==
  /\ apps[a].status # "NONE" /\ apps[a].stage = Expected[op]
  /\ op = "submitTechnical" => apps[a].assignee = u
  /\ op = "finalApprove" => apps[a].finalUser = 0 /\ holder[apps[a].phone] = Nobody

\* Row, assignments and account come from several queries, but a version that is
\* still current when the transaction commits vouches for the first two.
ReadApplication(u, a, op, interviewer) ==
  /\ desk[u] = Idle /\ InFlight < MaxInFlight /\ apps[a].version < MaxVersion
  /\ MayStart(u, a, op)
  /\ desk' = [desk EXCEPT ![u] = [pc |-> op, app |-> a, version |-> apps[a].version,
                                  interviewer |-> interviewer]]
  /\ UNCHANGED <<apps, transitions, userVars, applying>>

-----------------------------------------------------------------------------
(* ... and what they commit. *)

\* MUTANT of IsCurrent: the update is by id only.
IsAny(u) == desk[u].version \in Nat

IsCurrent(u) == apps[desk[u].app].version = desk[u].version

\* The optimistic update, with the transition it records.
Commit(u, row, to) ==
  LET a == desk[u].app  op == desk[u].pc IN
  /\ apps' = [apps EXCEPT ![a] = [row EXCEPT !.stage = to, !.version = @ + 1]]
  /\ transitions' = [transitions EXCEPT ![a] =
       Append(@, [from |-> Expected[op], to |-> to, action |-> op])]

Refuse == UNCHANGED <<apps, transitions>>

Row(u) == apps[desk[u].app]

ApproveInitial(u) ==
  /\ desk[u].pc = "approveInitial" /\ Leave(u) /\ UNCHANGED <<userVars, applying>>
  /\ \/ IsCurrent(u) /\ Commit(u, Row(u), "INITIAL_INTERVIEW")
     \/ ~IsCurrent(u) /\ Refuse

\* A rejection leaves the stage as it is.
Reject(u) ==
  /\ desk[u].pc = "reject" /\ Leave(u) /\ UNCHANGED <<userVars, applying>>
  /\ \/ IsCurrent(u) /\ Commit(u, [Row(u) EXCEPT !.status = "REJECTED"], "INITIAL_REVIEW")
     \/ ~IsCurrent(u) /\ Refuse

SubmitInitial(u) ==
  /\ desk[u].pc = "submitInitial" /\ Leave(u) /\ UNCHANGED <<userVars, applying>>
  /\ \/ IsCurrent(u) /\ Commit(u, [Row(u) EXCEPT !.forms = @ \cup {"INITIAL_INTERVIEW"}],
                               "TECHNICAL_INTERVIEW_ASSIGNMENT")
     \/ ~IsCurrent(u) /\ Refuse

\* Assignments that are open are revoked, so there is at most one.
AssignInterviewer(u) ==
  /\ desk[u].pc = "assignInterviewer" /\ Leave(u) /\ UNCHANGED <<userVars, applying>>
  /\ \/ IsCurrent(u) /\ Commit(u, [Row(u) EXCEPT !.assignee = desk[u].interviewer],
                               "TECHNICAL_INTERVIEW")
     \/ ~IsCurrent(u) /\ Refuse

SubmitTechnical(u) ==
  /\ desk[u].pc = "submitTechnical" /\ Leave(u) /\ UNCHANGED <<userVars, applying>>
  /\ \/ IsCurrent(u) /\ Commit(u, [Row(u) EXCEPT !.forms = @ \cup {"TECHNICAL_INTERVIEW"},
                                                 !.evaluator = u], "SUPERADMIN_APPROVAL")
     \/ ~IsCurrent(u) /\ Refuse

Hire(u) ==
  LET a == desk[u].app  account == made[a] + 1 IN
  /\ Commit(u, [Row(u) EXCEPT !.status = "HIRED", !.finalUser = account], "PROFILE_COMPLETION")
  /\ holder' = [holder EXCEPT ![Row(u).phone] = [of |-> a, number |-> account]]
  /\ made' = [made EXCEPT ![a] = account]

\* MUTANT of FinalApprove: the account is created before the transaction.
FinalApproveBefore(u) ==
  LET free == holder[Row(u).phone] = Nobody IN
  /\ desk[u].pc = "finalApprove" /\ Leave(u) /\ UNCHANGED <<changes, applying>>
  /\ \/ IsCurrent(u) /\ free /\ Hire(u)
     \/ /\ ~IsCurrent(u) /\ free /\ Refuse
        /\ made' = [made EXCEPT ![desk[u].app] = @ + 1]
        /\ holder' = [holder EXCEPT ![Row(u).phone] =
             [of |-> desk[u].app, number |-> made'[desk[u].app]]]
     \/ ~free /\ Refuse /\ UNCHANGED userVars

\* The account is created in the same transaction; its phone number is unique.
FinalApprove(u) ==
  LET free == holder[Row(u).phone] = Nobody IN
  /\ desk[u].pc = "finalApprove" /\ Leave(u) /\ UNCHANGED <<changes, applying>>
  /\ \/ IsCurrent(u) /\ free /\ Hire(u)
     \/ ~(IsCurrent(u) /\ free) /\ Refuse /\ UNCHANGED userVars

-----------------------------------------------------------------------------
(* users.service.ts: what becomes of the accounts. *)

ChangeOfUsers ==
  changes < MaxChanges /\ changes' = changes + 1 /\ UNCHANGED <<transitions, made, applying, desk>>

CreateUser(phone) ==
  /\ holder[phone] = Nobody
  /\ holder' = [holder EXCEPT ![phone] = Colleague]
  /\ ChangeOfUsers /\ UNCHANGED apps

\* update with another number: the old one is free again.
ChangePhone(old, new) ==
  /\ holder[old] # Nobody /\ holder[new] = Nobody
  /\ holder' = [holder EXCEPT ![old] = Nobody, ![new] = holder[old]]
  /\ ChangeOfUsers /\ UNCHANGED apps

\* The foreign key sets finalUserId to null; the version of the application stays.
RemoveUser(phone) ==
  LET account == holder[phone] IN
  /\ account # Nobody
  /\ holder' = [holder EXCEPT ![phone] = Nobody]
  /\ apps' = [a \in Applications |->
       IF account = [of |-> a, number |-> apps[a].finalUser]
         THEN [apps[a] EXCEPT !.finalUser = 0] ELSE apps[a]]
  /\ ChangeOfUsers

Next ==
  \/ \E a \in Applications :
       (\E phone \in Phones : CheckDuplicate(a, phone)) \/ CreateApplication(a)
  \/ \E u \in Staff :
       \/ \E a \in Applications, op \in Operation, interviewer \in Staff :
            ReadApplication(u, a, op, interviewer)
       \/ ApproveInitial(u) \/ Reject(u) \/ SubmitInitial(u) \/ AssignInterviewer(u)
       \/ SubmitTechnical(u) \/ FinalApprove(u)
  \/ \E phone \in Mobiles :
       CreateUser(phone) \/ \E old \in Phones : ChangePhone(old, phone)
  \/ \E phone \in Phones : RemoveUser(phone)

Spec == Init /\ [][Next]_vars

-----------------------------------------------------------------------------
(* Properties *)

TypeOK ==
  /\ apps \in [Applications -> Application]
  /\ transitions \in [Applications -> Seq(Transition)]
  /\ holder \in [Phones -> Account] /\ made \in [Applications -> Nat] /\ changes \in Nat
  /\ applying \in [Applications -> [pc : {"new", "create", "done"}, phone : Phones \cup {NoPhone}]]
  /\ desk \in [Staff -> Request]

\* Although every operation acts on what it has read before, the history of an
\* application is one unbroken path through the stages up to the stage it is in,
\* with one step for each version.
HistoryIsPath ==
  \A a \in Applications : apps[a].status # "NONE" =>
    LET history == transitions[a] IN
    /\ Len(history) = apps[a].version + 1
    /\ history[1].from = "PRE_INTERVIEW_FORM"
    /\ history[Len(history)].to = apps[a].stage
    /\ \A i \in 1 .. Len(history) - 1 : history[i].to = history[i + 1].from

\* Whoever is hired has been interviewed, by the interviewer assigned last.
HiredIsEvaluated ==
  \A a \in Applications : apps[a].status = "HIRED" =>
    /\ {"PRE_INTERVIEW_FORM", "INITIAL_INTERVIEW", "TECHNICAL_INTERVIEW"} \subseteq apps[a].forms
    /\ apps[a].evaluator # NoOne /\ apps[a].evaluator = apps[a].assignee

\* However many approvals race, and even if the account is renumbered or deleted
\* between them so that the number is free for another one: an application makes one
\* account, when it is hired, and finalUserId names that account as long as it exists.
OneAccountPerHire ==
  \A a \in Applications :
    /\ made[a] = IF apps[a].status = "HIRED" THEN 1 ELSE 0
    /\ \A phone \in Phones : holder[phone].of = a => holder[phone].number = apps[a].finalUser
    /\ apps[a].finalUser # 0 =>
         \E phone \in Phones : holder[phone] = [of |-> a, number |-> apps[a].finalUser]
=============================================================================
