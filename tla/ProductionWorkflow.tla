------------------------- MODULE ProductionWorkflow -------------------------
(***************************************************************************)
(* What a production run promises: every request is one atomic step.  This *)
(* is the sequential reading of production.service.ts; ProductionRun cuts  *)
(* the same requests at their awaits and is shown to implement this module *)
(* when one request is served at a time and none is interrupted.           *)
(***************************************************************************)
EXTENDS ProductionRules

CONSTANT MaxAttempts   \* bound: form submissions made for one step

VARIABLES
  flow,         \* the flow definition the run was started from
  run,          \* the ProductionRun row
  steps,        \* the ProductionRunStep rows by stepOrder
  reviews,      \* the ProductionStepReview rows of each step
  submissions,  \* how many FormSubmission rows were created for each step
  notes         \* the notifications sent, as <<kind, step>>

vars == <<flow, run, steps, reviews, submissions, notes>>

Active == run.status = "IN_PROGRESS"

Init ==
  /\ flow \in Flows
  /\ run = NewRun(flow)
  /\ steps = NewSteps
  /\ reviews = [s \in Steps |-> {}]
  /\ submissions = [s \in Steps |-> 0]
  /\ notes = {<<"STEP_ASSIGNED", 1>>}

Begin(s) ==
  /\ Active /\ steps[s].status \in Startable
  /\ steps' = [steps EXCEPT ![s] = Begun(@)]
  /\ UNCHANGED <<flow, run, reviews, submissions, notes>>

\* The assignee answers the checklist anew: one item is checked or unchecked.
Check(s, i) ==
  /\ Active /\ steps[s].status \in Editable
  /\ \E checked \in {steps[s].checked \cup {i}, steps[s].checked \ {i}} :
       steps' = [steps EXCEPT ![s].checked = checked]
  /\ UNCHANGED <<flow, run, reviews, submissions, notes>>

\* The step row becomes row, and a COMPLETED row moves the run on.
Settle(s, row, note) ==
  IF row.status = "COMPLETED"
  THEN /\ steps' = StepsAdvanced([steps EXCEPT ![s] = row], s)
       /\ run' = RunAdvanced(run, s)
       /\ notes' = notes \cup note \cup AdvanceNotes(run, s)
  ELSE /\ steps' = [steps EXCEPT ![s] = row]
       /\ notes' = notes \cup note
       /\ UNCHANGED run

SubmitNote(f, s) ==
  IF AfterSubmit(f, s) = "COMPLETED" THEN {} ELSE {<<AfterSubmit(f, s), s>>}

Submit(s) ==
  /\ Active /\ steps[s].status \in Editable /\ steps[s].checked = Items
  /\ submissions[s] < MaxAttempts
  /\ Settle(s, Submitted(steps[s], flow, s), SubmitNote(flow, s))
  /\ submissions' = [submissions EXCEPT ![s] = @ + 1]
  /\ UNCHANGED <<flow, reviews>>

ReviewNote(f, s, type, action) ==
  IF action = "REJECTED" THEN {<<"NEEDS_REVISION", s>>}
  ELSE IF AfterApproval(f, s, type) = "COMPLETED"
  THEN {<<"STEP_APPROVED", s>>} ELSE {<<"WAITING_APPROVAL", s>>}

Review(s, type, action) ==
  /\ Active /\ steps[s].status = AwaitedStatus[type]
  /\ reviews' = [reviews EXCEPT ![s] = @ \cup
       {[type |-> type, action |-> action, attempt |-> steps[s].attempt]}]
  /\ Settle(s, Reviewed(steps[s], flow, s, type, action), ReviewNote(flow, s, type, action))
  /\ UNCHANGED <<flow, submissions>>

Qc(result) ==
  /\ QcDue(run)
  /\ run' = RunAfterQc(run, result)
  /\ steps' = StepsAfterQc(steps, result)
  /\ notes' = notes \cup {<<IF result = "PASSED" THEN "QC_PASSED" ELSE "QC_FAILED", NoStep>>}
  /\ UNCHANGED <<flow, reviews, submissions>>

\* setRunStatus asks nothing of the run but that it exists.
SetRunStatus(action) ==
  /\ run' = [run EXCEPT !.status = StatusOf[action]]
  /\ UNCHANGED <<flow, steps, reviews, submissions, notes>>

Next ==
  \/ \E s \in Steps :
       \/ Begin(s)
       \/ \E i \in Items : Check(s, i)
       \/ Submit(s)
       \/ \E type \in ReviewType, action \in ReviewAction : Review(s, type, action)
  \/ \E result \in {"PASSED", "FAILED"} : Qc(result)
  \/ \E action \in DOMAIN StatusOf : SetRunStatus(action)

Spec == Init /\ [][Next]_vars

-----------------------------------------------------------------------------
(* Properties *)

TypeOK ==
  /\ flow \in Flows
  /\ run \in RunRow
  /\ steps \in [Steps -> StepRow]
  /\ reviews \in [Steps -> SUBSET ReviewRow]
  /\ submissions \in [Steps -> Nat]
  /\ notes \subseteq NoteKind \X (Steps \cup {NoStep})

AllCompleted == \A s \in Steps : steps[s].status = "COMPLETED"

\* A run is a pipeline: before the current step everything is COMPLETED, after
\* it everything is LOCKED, the current step itself is open, and a run without
\* a current step (currentStepOrder null) has nothing left to do.
Pipeline ==
  /\ run.current = NoStep => AllCompleted
  /\ run.current # NoStep => \A s \in Steps :
       /\ s < run.current => steps[s].status = "COMPLETED"
       /\ s = run.current => steps[s].status \notin {"LOCKED", "COMPLETED"}
       /\ s > run.current => steps[s].status = "LOCKED"

HasApproval(s, type) ==
  [type |-> type, action |-> "APPROVED", attempt |-> steps[s].attempt] \in reviews[s]

\* A COMPLETED step carries a submission, and every reviewer the flow names has
\* approved that very attempt; a step that awaits its approver already has its
\* supervisor's approval of the attempt.
CompletedIsApproved ==
  \A s \in Steps :
    /\ steps[s].status \in {"WAITING_SUPERVISOR", "WAITING_APPROVAL", "COMPLETED"} =>
         steps[s].submitted /\ steps[s].attempt > 0
    /\ steps[s].status \in {"WAITING_APPROVAL", "COMPLETED"} /\ s \in flow.supervised =>
         HasApproval(s, "SUPERVISOR")
    /\ steps[s].status = "COMPLETED" /\ s \in flow.approved => HasApproval(s, "APPROVER")

\* A run is COMPLETED only with all its steps completed and, when the flow asks
\* for QC, with a PASSED verdict; a PASSED verdict only stands over finished work.
ClosedRunIsDone ==
  /\ run.status = "COMPLETED" => AllCompleted /\ run.current = NoStep
  /\ run.status = "COMPLETED" /\ flow.requiresQc => run.qc = "PASSED"
  /\ run.qc = "PASSED" => AllCompleted /\ run.current = NoStep
=============================================================================
