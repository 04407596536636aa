-------------------------- MODULE ProductionRules --------------------------
(***************************************************************************)
(* The rows of a production run and what each database write of            *)
(* backend/src/production/production.service.ts does to them.  The module  *)
(* has no variables: ProductionWorkflow applies the writes of a request in *)
(* one step, ProductionRun one write at a time.                            *)
(***************************************************************************)
EXTENDS Integers

CONSTANTS
  NumSteps,   \* a run has the steps 1 .. NumSteps
  Flows,      \* the flow definitions a run may have been started from
  Items       \* the required checklist items of a step

Steps == 1 .. NumSteps

\* ensureUniqueOrders forces 1..n, so 0 is free to stand for currentStepOrder = null.
NoStep == 0

StepStatus == {"LOCKED", "READY", "IN_PROGRESS", "WAITING_SUPERVISOR",
               "WAITING_APPROVAL", "NEEDS_REVISION", "COMPLETED"}
RunStatus == {"IN_PROGRESS", "PAUSED", "COMPLETED", "CANCELLED"}
QcStatus == {"NOT_REQUIRED", "PENDING", "PASSED", "FAILED"}
ReviewType == {"SUPERVISOR", "APPROVER"}
ReviewAction == {"APPROVED", "REJECTED"}
NoteKind == {"STEP_ASSIGNED", "WAITING_SUPERVISOR", "WAITING_APPROVAL",
             "NEEDS_REVISION", "STEP_APPROVED", "QC_PENDING", "QC_PASSED", "QC_FAILED"}

\* Which steps have a supervisor, which an approver, and whether QC is asked for.
FlowType == [supervised : SUBSET Steps, approved : SUBSET Steps, requiresQc : BOOLEAN]

RunRow == [status : RunStatus, current : Steps \cup {NoStep}, qc : QcStatus]
StepRow == [status : StepStatus, attempt : Nat, submitted : BOOLEAN, checked : SUBSET Items]

\* A ProductionStepReview row; attempt is what its createdAt order stands for.
ReviewRow == [type : ReviewType, action : ReviewAction, attempt : Nat]

ASSUME StepsAssumption == NumSteps \in Nat \ {0}
ASSUME FlowsAssumption == Flows \subseteq FlowType

Startable == {"READY", "NEEDS_REVISION"}
Editable == {"READY", "IN_PROGRESS", "NEEDS_REVISION"}
AwaitedStatus == [SUPERVISOR |-> "WAITING_SUPERVISOR", APPROVER |-> "WAITING_APPROVAL"]

-----------------------------------------------------------------------------
(* The rows that startRun creates. *)

NewRun(f) ==
  [status |-> "IN_PROGRESS", current |-> 1,
   qc |-> IF f.requiresQc THEN "PENDING" ELSE "NOT_REQUIRED"]

NewSteps ==
  [s \in Steps |-> [status |-> IF s = 1 THEN "READY" ELSE "LOCKED",
                    attempt |-> 0, submitted |-> FALSE, checked |-> {}]]

-----------------------------------------------------------------------------
(* One write of a handler to the row of its step. *)

Begun(row) == [row EXCEPT !.status = "IN_PROGRESS"]

AfterSubmit(f, s) ==
  IF s \in f.supervised THEN "WAITING_SUPERVISOR"
  ELSE IF s \in f.approved THEN "WAITING_APPROVAL" ELSE "COMPLETED"

\* MUTANT of Submitted: the attempt counter is not incremented.
SubmittedKeepsAttempt(row, f, s) ==
  [status |-> AfterSubmit(f, s), attempt |-> row.attempt,
   submitted |-> TRUE, checked |-> row.checked]

Submitted(row, f, s) ==
  [status |-> AfterSubmit(f, s), attempt |-> row.attempt + 1,
   submitted |-> TRUE, checked |-> row.checked]

AfterApproval(f, s, type) ==
  IF type = "SUPERVISOR" /\ s \in f.approved THEN "WAITING_APPROVAL" ELSE "COMPLETED"

Reviewed(row, f, s, type, action) ==
  IF action = "REJECTED"
  THEN [row EXCEPT !.status = "NEEDS_REVISION", !.submitted = FALSE]
  ELSE [row EXCEPT !.status = AfterApproval(f, s, type)]

-----------------------------------------------------------------------------
(* advanceRun and reviewQc: each is one transaction over a step and the run. *)

StepsAdvanced(steps, s) ==
  [t \in Steps |-> IF t = s + 1 THEN [steps[t] EXCEPT !.status = "READY"] ELSE steps[t]]

\* MUTANT of RunAdvanced: a run that awaits QC is closed with its last step.
RunAdvancedSkipsQc(run, s) ==
  IF s < NumSteps THEN [run EXCEPT !.current = s + 1]
  ELSE [run EXCEPT !.status = "COMPLETED", !.current = NoStep]

RunAdvanced(run, s) ==
  IF s < NumSteps THEN [run EXCEPT !.current = s + 1]
  ELSE IF run.qc # "NOT_REQUIRED"
  THEN [status |-> "IN_PROGRESS", current |-> NoStep, qc |-> "PENDING"]
  ELSE [run EXCEPT !.status = "COMPLETED", !.current = NoStep]

\* The notification advanceRun sends, as <<kind, step>>; none when the run is over.
AdvanceNotes(run, s) ==
  IF s < NumSteps THEN {<<"STEP_ASSIGNED", s + 1>>}
  ELSE IF run.qc # "NOT_REQUIRED" THEN {<<"QC_PENDING", NoStep>>} ELSE {}

StepsAfterQc(steps, result) ==
  IF result = "PASSED" THEN steps ELSE [steps EXCEPT ![NumSteps].status = "NEEDS_REVISION"]

RunAfterQc(run, result) ==
  IF result = "PASSED" THEN [run EXCEPT !.status = "COMPLETED", !.qc = "PASSED"]
  ELSE [status |-> "IN_PROGRESS", current |-> NumSteps, qc |-> "FAILED"]

\* The guards of reviewQc on the run it has read.
QcDue(run) ==
  run.qc = "PENDING" /\ run.current = NoStep /\ run.status # "CANCELLED"

StatusOf == [pause |-> "PAUSED", resume |-> "IN_PROGRESS", cancel |-> "CANCELLED"]
=============================================================================
