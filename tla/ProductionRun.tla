---------------------------- MODULE ProductionRun ----------------------------
(***************************************************************************)
(* A production run served by concurrent request handlers.  Every handler  *)
(* of production.service.ts is cut where it awaits the database: it reads  *)
(* its step, then the run, then writes by id without re-checking what it   *)
(* read.  Any other handler may run at each cut, and a handler may die at  *)
(* each cut (a failed query or a process crash): Node keeps no record of   *)
(* it, and no transaction spans the cuts.                                  *)
(***************************************************************************)
EXTENDS ProductionRules, FiniteSets

CONSTANTS
  Handlers,      \* requests that may be in flight at once
  MaxAttempts,   \* bound: form submissions made for one step
  MaxFaults      \* bound: handlers that die half way

ASSUME HandlersAssumption == IsFiniteSet(Handlers)

VARIABLES
  flow, run, steps, reviews, submissions, notes,   \* as in ProductionWorkflow
  handlers,      \* where each request is, and what it has read
  faults         \* handlers that have died so far

db == <<flow, run, steps, reviews, submissions, notes>>
vars == <<flow, run, steps, reviews, submissions, notes, handlers, faults>>

Ops == {"none", "begin", "checklist", "submit", "SUPERVISOR", "APPROVER", "qc", "start"}
Pc == {"idle", "checkRun", "write", "notify", "advance"}
Actions == ReviewAction \cup {"PASSED", "FAILED", "none"}

\* note is the notification still to be sent at "notify".
Handler == [pc : Pc, op : Ops, step : Steps \cup {NoStep}, action : Actions,
            items : SUBSET Items, note : NoteKind \cup {"none"}]

Request(op, s, action, items) ==
  [pc |-> "checkRun", op |-> op, step |-> s, action |-> action, items |-> items, note |-> "none"]

Idle == [pc |-> "idle", op |-> "none", step |-> NoStep, action |-> "none",
         items |-> {}, note |-> "none"]
Starting == [pc |-> "notify", op |-> "start", step |-> 1, action |-> "none",
             items |-> {}, note |-> "STEP_ASSIGNED"]
QcRequest(result) == [pc |-> "write", op |-> "qc", step |-> NoStep, action |-> result,
                      items |-> {}, note |-> "none"]

\* The run is created with its steps in one nested create; the request that
\* started it still has to notify the assignee of the first step.
Init ==
  /\ flow \in Flows
  /\ run = NewRun(flow)
  /\ steps = NewSteps
  /\ reviews = [s \in Steps |-> {}]
  /\ submissions = [s \in Steps |-> 0]
  /\ notes = {}
  /\ \E starter \in Handlers :
       handlers = [h \in Handlers |-> IF h = starter THEN Starting ELSE Idle]
  /\ faults = 0

-----------------------------------------------------------------------------
(* A request arrives and reads its step: getRunStep's first query, and the *)
(* guards that look only at that snapshot.  A request that fails them      *)
(* throws and changes nothing.                                             *)

Arrive(h, request) ==
  /\ handlers[h] = Idle
  /\ handlers' = [handlers EXCEPT ![h] = request]
  /\ UNCHANGED <<db, faults>>

BeginStep(h, s) ==
  /\ steps[s].status \in Startable
  /\ Arrive(h, Request("begin", s, "none", {}))

\* The whole array of answers is read here and written back at the end.
UpdateChecklist(h, s, i) ==
  /\ steps[s].status \in Editable
  /\ \E checked \in {steps[s].checked \cup {i}, steps[s].checked \ {i}} :
       Arrive(h, Request("checklist", s, "none", checked))

\* Bound: submissions created for a step, or about to be.
MaySubmit(s) ==
  submissions[s] + Cardinality({h \in Handlers :
    handlers[h].pc = "checkRun" /\ handlers[h].op = "submit" /\ handlers[h].step = s}) < MaxAttempts

\* MUTANT of SubmitStep: a step that is still LOCKED may be submitted.
SubmitLockedStep(h, s) ==
  /\ steps[s].status \in Editable \cup {"LOCKED"} /\ steps[s].checked = Items
  /\ MaySubmit(s)
  /\ Arrive(h, Request("submit", s, "none", {}))

SubmitStep(h, s) ==
  /\ steps[s].status \in Editable /\ steps[s].checked = Items
  /\ MaySubmit(s)
  /\ Arrive(h, Request("submit", s, "none", {}))

\* MUTANT of ReviewStep: the approver need not wait for the step to reach him.
ReviewStepUnguarded(h, s, type, action) ==
  /\ steps[s].status \in {"WAITING_SUPERVISOR", "WAITING_APPROVAL"}
  /\ Arrive(h, Request(type, s, action, {}))

ReviewStep(h, s, type, action) ==
  /\ steps[s].status = AwaitedStatus[type]
  /\ Arrive(h, Request(type, s, action, {}))

\* reviewQc reads the run and its last step in one query.
ReviewQc(h, result) ==
  /\ QcDue(run)
  /\ Arrive(h, QcRequest(result))

\* setRunStatus only asks that the run exist, so its read and write are one step.
SetRunStatus(h, action) ==
  /\ handlers[h] = Idle
  /\ run' = [run EXCEPT !.status = StatusOf[action]]
  /\ UNCHANGED <<flow, steps, reviews, submissions, notes, handlers, faults>>

-----------------------------------------------------------------------------
(* The rest of a request in flight. *)

Goto(h, pc, note) == handlers' = [handlers EXCEPT ![h].pc = pc, ![h].note = note]
Finish(h) == handlers' = [handlers EXCEPT ![h] = Idle]

\* getRunStep's second query: the run must be IN_PROGRESS.  The row that the
\* request inserts before it touches the step is inserted here too; nothing reads it.
CheckRun(h) ==
  /\ handlers[h].pc = "checkRun"
  /\ run.status = "IN_PROGRESS"
  /\ LET s == handlers[h].step  op == handlers[h].op IN
       /\ \/ /\ op = "submit"
             /\ submissions' = [submissions EXCEPT ![s] = @ + 1]
             /\ UNCHANGED reviews
          \/ /\ op \in ReviewType
             /\ reviews' = [reviews EXCEPT ![s] = @ \cup
                  {[type |-> op, action |-> handlers[h].action, attempt |-> steps[s].attempt]}]
             /\ UNCHANGED submissions
          \/ /\ op \in {"begin", "checklist"}
             /\ UNCHANGED <<reviews, submissions>>
  /\ Goto(h, "write", "none")
  /\ UNCHANGED <<flow, run, steps, notes, faults>>

\* The run is not active: the handler throws.
RejectInactive(h) ==
  /\ handlers[h].pc = "checkRun"
  /\ run.status # "IN_PROGRESS"
  /\ Finish(h)
  /\ UNCHANGED <<db, faults>>

\* The row of the handler's step after its update by id.
Written(hd) ==
  LET row == steps[hd.step] IN
  CASE hd.op = "begin" -> Begun(row)
    [] hd.op = "checklist" -> [row EXCEPT !.checked = hd.items]
    [] hd.op = "submit" -> Submitted(row, flow, hd.step)
    [] OTHER -> Reviewed(row, flow, hd.step, hd.op, hd.action)

\* A submission that completes its step advances the run at once; every other
\* outcome first notifies somebody.
AfterWrite(h, row) ==
  LET op == handlers[h].op  completed == row.status = "COMPLETED" IN
  \/ op \in {"begin", "checklist"} /\ Finish(h)
  \/ op = "submit" /\ completed /\ Goto(h, "advance", "none")
  \/ op \in ReviewType /\ completed /\ Goto(h, "notify", "STEP_APPROVED")
  \/ op \in ReviewType \cup {"submit"} /\ ~completed /\ Goto(h, "notify", row.status)

WriteStep(h) ==
  /\ handlers[h].pc = "write" /\ handlers[h].op # "qc"
  /\ LET row == Written(handlers[h]) IN
       /\ steps' = [steps EXCEPT ![handlers[h].step] = row]
       /\ AfterWrite(h, row)
  /\ UNCHANGED <<flow, run, reviews, submissions, notes, faults>>

WriteQc(h) ==
  /\ handlers[h].pc = "write" /\ handlers[h].op = "qc"
  /\ run' = RunAfterQc(run, handlers[h].action)
  /\ steps' = StepsAfterQc(steps, handlers[h].action)
  /\ Goto(h, "notify", IF handlers[h].action = "PASSED" THEN "QC_PASSED" ELSE "QC_FAILED")
  /\ UNCHANGED <<flow, reviews, submissions, notes, faults>>

\* MUTANT of Notify: the handler forgets to call advanceRun after the notification.
NotifyOnly(h) ==
  /\ handlers[h].pc = "notify"
  /\ notes' = notes \cup {<<handlers[h].note, handlers[h].step>>}
  /\ Finish(h)
  /\ UNCHANGED <<flow, run, steps, reviews, submissions, faults>>

\* notifications.create; only the approval that completed a step goes on to advanceRun.
Notify(h) ==
  /\ handlers[h].pc = "notify"
  /\ notes' = notes \cup {<<handlers[h].note, handlers[h].step>>}
  /\ IF handlers[h].note = "STEP_APPROVED" THEN Goto(h, "advance", "none") ELSE Finish(h)
  /\ UNCHANGED <<flow, run, steps, reviews, submissions, faults>>

\* advanceRun: the lookup of the next step and of qcStatus # NOT_REQUIRED read
\* what no handler ever changes, so they are one step with the transaction.
AdvanceRun(h) ==
  /\ handlers[h].pc = "advance"
  /\ LET s == handlers[h].step IN
       /\ steps' = StepsAdvanced(steps, s)
       /\ run' = RunAdvanced(run, s)
       /\ \/ AdvanceNotes(run, s) = {} /\ Finish(h)
          \/ \E note \in AdvanceNotes(run, s) :
               handlers' = [handlers EXCEPT ![h].pc = "notify", ![h].note = note[1], ![h].step = note[2]]
  /\ UNCHANGED <<flow, reviews, submissions, notes, faults>>

\* A query fails or the process dies: what the handler has written stays written.
Die(h) ==
  /\ handlers[h] # Idle /\ faults < MaxFaults
  /\ faults' = faults + 1
  /\ Finish(h)
  /\ UNCHANGED db

Progress(h) ==
  CheckRun(h) \/ RejectInactive(h) \/ WriteStep(h) \/ WriteQc(h) \/ Notify(h) \/ AdvanceRun(h)

Next ==
  \E h \in Handlers :
    \/ \E s \in Steps :
         \/ BeginStep(h, s)
         \/ \E i \in Items : UpdateChecklist(h, s, i)
         \/ SubmitStep(h, s)
         \/ \E type \in ReviewType, action \in ReviewAction : ReviewStep(h, s, type, action)
    \/ \E result \in {"PASSED", "FAILED"} : ReviewQc(h, result)
    \/ \E action \in DOMAIN StatusOf : SetRunStatus(h, action)
    \/ Progress(h)
    \/ Die(h)

Spec == Init /\ [][Next]_vars

\* The event loop resumes every handler whose query has returned.
FairSpec == Spec /\ \A h \in Handlers : WF_vars(Progress(h))

-----------------------------------------------------------------------------
(* Properties *)

TypeOK ==
  /\ flow \in Flows
  /\ run \in RunRow
  /\ steps \in [Steps -> StepRow]
  /\ reviews \in [Steps -> SUBSET ReviewRow]
  /\ submissions \in [Steps -> Nat]
  /\ notes \subseteq NoteKind \X (Steps \cup {NoStep})
  /\ handlers \in [Handlers -> Handler]
  /\ faults \in Nat

Signed(s, type) == \E r \in reviews[s] : r.type = type /\ r.action = "APPROVED"

\* The trail a step leaves behind: it was submitted at least once, and every
\* reviewer the flow names for it has recorded an approval at least once.
Cleared(s) ==
  /\ steps[s].attempt > 0
  /\ s \in flow.supervised => Signed(s, "SUPERVISOR")
  /\ s \in flow.approved => Signed(s, "APPROVER")

\* However requests interleave and wherever they die, no step is opened unless
\* every step before it has been submitted and cleared by all its reviewers, and
\* no run leaves the pipeline (currentStepOrder null) with a step not cleared.
NoBypass ==
  /\ \A s, t \in Steps : t < s /\ steps[s].status # "LOCKED" => Cleared(t)
  /\ run.current = NoStep => \A t \in Steps : Cleared(t)

\* A COMPLETED run of a flow that asks for QC carries a PASSED verdict, and
\* every step of a COMPLETED run was cleared, under every interleaving.
QcGate ==
  run.status = "COMPLETED" =>
    /\ flow.requiresQc => run.qc = "PASSED"
    /\ \A t \in Steps : Cleared(t)

\* Form submissions are never lost from the count: each one is an attempt of
\* its step, or its handler has not written the step yet, or has died.
SubmissionAccounting ==
  \A s \in Steps :
    LET unwritten == {h \in Handlers : handlers[h].pc = "write" /\ handlers[h].op = "submit"
                                         /\ handlers[h].step = s} IN
    /\ submissions[s] >= steps[s].attempt + Cardinality(unwritten)
    /\ submissions[s] <= steps[s].attempt + Cardinality(unwritten) + faults

\* What reviewQc's guard announces ("all production steps must be completed
\* first"): a verdict is only given over steps that are all COMPLETED.
QcAfterAllSteps ==
  [][run.qc = "PENDING" /\ run'.qc \in {"PASSED", "FAILED"} =>
       \A s \in Steps : steps[s].status = "COMPLETED"]_vars

\* When no handler dies, completing a step eventually opens the one after it.
CompletionOpensNext ==
  \A s \in Steps : s < NumSteps =>
    (steps[s].status = "COMPLETED" /\ faults = 0 ~> faults > 0 \/ steps[s + 1].status # "LOCKED")
=============================================================================
