------------------------------ MODULE Approvals ------------------------------
(***************************************************************************)
(* The approval workflow of the submissions of one form:                   *)
(* backend/src/approvals/approvals.service.ts, and the part of             *)
(* FormSubmissionsService.create that starts it.  Requests are cut where   *)
(* they await the database.  The steps of a policy are rows that actions   *)
(* refer to; replacing the policy deletes them, so every replacement gives *)
(* its steps a new version.                                                *)
(***************************************************************************)
EXTENDS Integers, FiniteSets, FiniteSetsExt

CONSTANTS
  Submissions,   \* submissions of the form
  Approvers,     \* users who answer, one request of each at a time
  Roles,
  RolesOf,       \* the roles of each approver
  MaxOrder,      \* bound: the largest stepOrder
  Policies,      \* the policies the form's owner saves, as functions from stepOrder to role
  Verdicts,      \* the values of dto.action the requests carry
  Reasons,       \* whether a rejection comes with a comment: a subset of BOOLEAN
  MaxVersions,   \* bound: how many policies are saved
  MaxInFlight,   \* bound: approveStep requests served at once
  MaxFaults      \* bound: requests that die half way

VARIABLES
  policy,      \* the form's policy: its version and the role of each stepOrder
  instances,   \* the ApprovalInstance of each submission
  actions,     \* the ApprovalAction rows
  notes,       \* notifications, as <<type, submission, role>>
  creating,    \* where FormSubmissionsService.create is for each submission
  desk,        \* where the approveStep request of each approver is
  faults       \* requests that have died so far

vars == <<policy, instances, actions, notes, creating, desk, faults>>

Orders == 1 .. MaxOrder
None == 0                     \* currentStepOrder = null
Policy == UNION {[O -> Roles] : O \in SUBSET Orders}
NoRole == "nobody"

ASSUME ApprovalsAssumption ==
  /\ MaxOrder \in Nat /\ RolesOf \in [Approvers -> SUBSET Roles]
  /\ Policies \subseteq Policy /\ NoRole \notin Roles
  /\ Verdicts \subseteq {"PENDING", "APPROVED", "REJECTED"} /\ Reasons \subseteq BOOLEAN

\* The policy editor numbers the steps 1..n; the endpoint itself would accept gaps.
ASSUME PoliciesAreNumbered == \A p \in Policies : \E n \in 0 .. MaxOrder : DOMAIN p = 1 .. n

Instance == [status : {"NONE", "PENDING", "APPROVED", "REJECTED"}, current : Orders \cup {None}]
Action == [submission : Submissions, version : Nat, order : Orders,
           approver : Approvers, action : Verdicts, reason : BOOLEAN]
Creating == [pc : {"new", "readPolicy", "create", "notify", "done"},
             order : Orders \cup {None}, role : Roles \cup {NoRole}]

Idle == [pc |-> "idle"]
Request ==
  {Idle} \cup [pc : {"readStep", "check", "record", "decide", "notify"}, submission : Submissions,
               order : Orders, version : Nat, action : Verdicts, reason : BOOLEAN]

Init ==
  /\ policy \in [version : {1}, roles : Policies]
  /\ instances = [s \in Submissions |-> [status |-> "NONE", current |-> None]]
  /\ actions = {} /\ notes = {}
  /\ creating = [s \in Submissions |-> [pc |-> "new", order |-> None, role |-> NoRole]]
  /\ desk = [a \in Approvers |-> Idle]
  /\ faults = 0

-----------------------------------------------------------------------------
(* createOrUpdatePolicy: one transaction.  Deleting the old policy deletes its *)
(* steps, which the database refuses as soon as an action refers to one.       *)

ReplacePolicy(roles) ==
  /\ policy.version < MaxVersions
  /\ \A row \in actions : row.version # policy.version
  /\ policy' = [version |-> policy.version + 1, roles |-> roles]
  /\ UNCHANGED <<instances, actions, notes, creating, desk, faults>>

-----------------------------------------------------------------------------
(* FormSubmissionsService.create and createApprovalInstance. *)

Submit(s) ==
  /\ creating[s].pc = "new"
  /\ creating' = [creating EXCEPT ![s].pc = "readPolicy"]
  /\ UNCHANGED <<policy, instances, actions, notes, desk, faults>>

\* No policy, no instance: the submission needs no approval.
ReadPolicy(s) ==
  /\ creating[s].pc = "readPolicy"
  /\ \/ /\ DOMAIN policy.roles = {}
        /\ creating' = [creating EXCEPT ![s].pc = "done"]
     \/ /\ DOMAIN policy.roles # {}
        /\ LET first == Min(DOMAIN policy.roles) IN
             creating' = [creating EXCEPT ![s] =
               [pc |-> "create", order |-> first, role |-> policy.roles[first]]]
  /\ UNCHANGED <<policy, instances, actions, notes, desk, faults>>

CreateInstance(s) ==
  /\ creating[s].pc = "create"
  /\ instances' = [instances EXCEPT ![s] = [status |-> "PENDING", current |-> creating[s].order]]
  /\ creating' = [creating EXCEPT ![s].pc = "notify"]
  /\ UNCHANGED <<policy, actions, notes, desk, faults>>

NotifyFirst(s) ==
  /\ creating[s].pc = "notify"
  /\ notes' = notes \cup {<<"FORM_WAITING_APPROVAL", s, creating[s].role>>}
  /\ creating' = [creating EXCEPT ![s].pc = "done"]
  /\ UNCHANGED <<policy, instances, actions, desk, faults>>

-----------------------------------------------------------------------------
(* approveStep *)

InFlight == {a \in Approvers : desk[a] # Idle}
Leave(a) == desk' = [desk EXCEPT ![a] = Idle]
Goto(a, pc) == desk' = [desk EXCEPT ![a].pc = pc]

\* MUTANT of ReadInstance: the step in the request is not compared with the instance's.
ReadAnyStep(a, s, order, action, reason) ==
  /\ desk[a] = Idle /\ Cardinality(InFlight) < MaxInFlight
  /\ instances[s].status = "PENDING"
  /\ desk' = [desk EXCEPT ![a] =
       [pc |-> "readStep", submission |-> s, order |-> order, version |-> 0,
        action |-> action, reason |-> reason]]
  /\ UNCHANGED <<policy, instances, actions, notes, creating, faults>>

\* The instance must be PENDING and at the step the request names.
ReadInstance(a, s, order, action, reason) ==
  /\ desk[a] = Idle /\ Cardinality(InFlight) < MaxInFlight
  /\ instances[s].status = "PENDING" /\ instances[s].current = order
  /\ desk' = [desk EXCEPT ![a] =
       [pc |-> "readStep", submission |-> s, order |-> order, version |-> 0,
        action |-> action, reason |-> reason]]
  /\ UNCHANGED <<policy, instances, actions, notes, creating, faults>>

\* The step is looked up in the policy the form has now, which need not be the
\* one the instance was created for; the approver must hold its role.
MayAct(a) ==
  LET order == desk[a].order IN
  order \in DOMAIN policy.roles /\ policy.roles[order] \in RolesOf[a]

ReadStep(a) ==
  /\ desk[a].pc = "readStep"
  /\ \/ MayAct(a) /\ desk' = [desk EXCEPT ![a].pc = "check", ![a].version = policy.version]
     \/ ~MayAct(a) /\ Leave(a)
  /\ UNCHANGED <<policy, instances, actions, notes, creating, faults>>

\* existingAction: has this very step row been processed for this submission?
Processed(a) ==
  \E row \in actions : /\ row.submission = desk[a].submission
                       /\ row.version = desk[a].version /\ row.order = desk[a].order

Check(a) ==
  /\ desk[a].pc = "check"
  /\ \/ ~Processed(a) /\ Goto(a, "record")
     \/ Processed(a) /\ Leave(a)
  /\ UNCHANGED <<policy, instances, actions, notes, creating, faults>>

Row(a) ==
  [submission |-> desk[a].submission, version |-> desk[a].version, order |-> desk[a].order,
   approver |-> a, action |-> desk[a].action, reason |-> desk[a].reason]

\* approvalAction.create: its foreign key fails when the step is gone.  The
\* reason of a rejection is only asked for after the row is in.
Record(a) ==
  /\ desk[a].pc = "record"
  /\ \/ /\ desk[a].version = policy.version
        /\ actions' = actions \cup {Row(a)}
        /\ \/ desk[a].action = "REJECTED" /\ ~desk[a].reason /\ Leave(a)
           \/ (desk[a].action # "REJECTED" \/ desk[a].reason) /\ Goto(a, "decide")
     \/ desk[a].version # policy.version /\ Leave(a) /\ UNCHANGED actions
  /\ UNCHANGED <<policy, instances, notes, creating, faults>>

\* MUTANT of Decided: the next step is skipped.
DecidedSkipping(a) ==
  LET r == desk[a]  old == instances[r.submission] IN
  IF r.action = "REJECTED" THEN [status |-> "REJECTED", current |-> None]
  ELSE IF r.order + 1 \notin DOMAIN policy.roles THEN [status |-> "APPROVED", current |-> None]
  ELSE [old EXCEPT !.current = Max(DOMAIN policy.roles)]

\* MUTANT of Decided: the instance stays at the step that was answered.
DecidedStaying(a) ==
  LET r == desk[a]  old == instances[r.submission] IN
  IF r.action = "REJECTED" THEN [status |-> "REJECTED", current |-> None]
  ELSE IF r.order + 1 \notin DOMAIN policy.roles THEN [status |-> "APPROVED", current |-> None]
  ELSE [old EXCEPT !.current = r.order]

\* The update of the instance by id.  The policy cannot have changed since the
\* action was recorded, so the lookup of the next step is one step with it.
Decided(a) ==
  LET r == desk[a]  old == instances[r.submission] IN
  IF r.action = "REJECTED" THEN [status |-> "REJECTED", current |-> None]
  ELSE IF r.order + 1 \notin DOMAIN policy.roles THEN [status |-> "APPROVED", current |-> None]
  ELSE [old EXCEPT !.current = r.order + 1]

\* MUTANT of Decide: nobody is told of the outcome.
DecideSilently(a) ==
  /\ desk[a].pc = "decide"
  /\ instances' = [instances EXCEPT ![desk[a].submission] = Decided(a)]
  /\ Leave(a)
  /\ UNCHANGED <<policy, actions, notes, creating, faults>>

Decide(a) ==
  /\ desk[a].pc = "decide"
  /\ instances' = [instances EXCEPT ![desk[a].submission] = Decided(a)]
  /\ Goto(a, "notify")
  /\ UNCHANGED <<policy, actions, notes, creating, faults>>

\* The submitter hears of the decision, the holders of the next role of their turn.
Note(a) ==
  LET r == desk[a] IN
  IF r.action = "REJECTED" THEN <<"FORM_REJECTED", r.submission, NoRole>>
  ELSE IF r.order + 1 \notin DOMAIN policy.roles THEN <<"FORM_APPROVED", r.submission, NoRole>>
  ELSE <<"FORM_WAITING_APPROVAL", r.submission, policy.roles[r.order + 1]>>

Notify(a) ==
  /\ desk[a].pc = "notify"
  /\ notes' = notes \cup {Note(a)}
  /\ Leave(a)
  /\ UNCHANGED <<policy, instances, actions, creating, faults>>

-----------------------------------------------------------------------------
(* A query fails or the process dies; the request is gone, its writes are not. *)

Die(a) ==
  /\ desk[a] # Idle /\ faults < MaxFaults
  /\ faults' = faults + 1
  /\ Leave(a)
  /\ UNCHANGED <<policy, instances, actions, notes, creating>>

DieCreating(s) ==
  /\ creating[s].pc \notin {"new", "done"} /\ faults < MaxFaults
  /\ faults' = faults + 1
  /\ creating' = [creating EXCEPT ![s].pc = "done"]
  /\ UNCHANGED <<policy, instances, actions, notes, desk>>

Next ==
  \/ \E roles \in Policies : ReplacePolicy(roles)
  \/ \E s \in Submissions :
       Submit(s) \/ ReadPolicy(s) \/ CreateInstance(s) \/ NotifyFirst(s) \/ DieCreating(s)
  \/ \E a \in Approvers :
       \/ \E s \in Submissions, order \in Orders, action \in Verdicts, reason \in Reasons :
            ReadInstance(a, s, order, action, reason)
       \/ ReadStep(a) \/ Check(a) \/ Record(a) \/ Decide(a) \/ Notify(a) \/ Die(a)

Spec == Init /\ [][Next]_vars

-----------------------------------------------------------------------------
(* Properties *)

TypeOK ==
  /\ policy \in [version : Nat, roles : Policy]
  /\ instances \in [Submissions -> Instance]
  /\ actions \subseteq Action
  /\ notes \subseteq {"FORM_WAITING_APPROVAL", "FORM_APPROVED", "FORM_REJECTED"}
                       \X Submissions \X (Roles \cup {NoRole})
  /\ creating \in [Submissions -> Creating]
  /\ desk \in [Approvers -> Request]
  /\ faults \in Nat

\* Someone who held the step's role answered it with something else than a rejection.
Endorsed(s, order) ==
  \E row \in actions :
    /\ row.submission = s /\ row.version = policy.version /\ row.order = order
    /\ row.action # "REJECTED" /\ policy.roles[order] \in RolesOf[row.approver]

\* A submission reaches a step only after every step before it was endorsed,
\* although two approvers may act on one step and write the instance late.
ReachedInOrder ==
  \A s \in Submissions : \A order \in DOMAIN policy.roles :
    order < instances[s].current => Endorsed(s, order)

\* An APPROVED submission has been endorsed at every step of the form's policy.
ApprovedIsEarned ==
  \A s \in Submissions : instances[s].status = "APPROVED" =>
    \A order \in DOMAIN policy.roles : Endorsed(s, order)

\* When no request is half way and none has died, the holders of the role a
\* pending submission waits for have been told; saving another policy voids this.
DueRoleIsNotified ==
  \A s \in Submissions :
    (/\ instances[s].status = "PENDING" /\ faults = 0 /\ policy.version = 1
     /\ creating[s].pc = "done" /\ \A a \in InFlight : desk[a].submission # s)
    => /\ instances[s].current \in DOMAIN policy.roles
       /\ <<"FORM_WAITING_APPROVAL", s, policy.roles[instances[s].current]>> \in notes

\* The answers that stand in the way of the step s waits for: approveStep replies
\* "already processed" to every further one.
Blocking(s) ==
  {row \in actions : /\ row.submission = s /\ row.version = policy.version
                     /\ row.order = instances[s].current}

AnsweredTwice(s) ==
  \E row, other \in actions :
    /\ row.submission = s /\ other.submission = s
    /\ row.version = other.version /\ row.order = other.order /\ row.approver # other.approver

\* A pending submission on which no request is under way gets stuck in no more than four
\* ways: the policy was replaced by one without its step, which approveStep then finds to be
\* missing, and that before anybody had answered it; a rejection was recorded and then
\* refused for want of a reason; two people answered one step and the late one moved the
\* instance back; a request died half way.  Else whoever holds the role can answer it.
StuckIsExplained ==
  \A s \in Submissions :
    (/\ instances[s].status = "PENDING" /\ faults = 0
     /\ \A a \in InFlight : desk[a].submission # s) =>
    /\ \/ instances[s].current \in DOMAIN policy.roles
       \/ policy.version > 1 /\ \A row \in actions : row.submission # s
    /\ \A row \in Blocking(s) : (row.action = "REJECTED" /\ ~row.reason) \/ AnsweredTwice(s)
=============================================================================
