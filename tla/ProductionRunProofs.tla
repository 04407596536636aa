------------------------- MODULE ProductionRunProofs -------------------------
(***************************************************************************)
(* What survives every interleaving and every death of a handler, for any  *)
(* number of steps, handlers and faults: no step is bypassed (NoBypass),   *)
(* no run is closed without its QC (QcGate) and no submission is lost from *)
(* the count (SubmissionAccounting).  Then what holds only of requests     *)
(* served one at a time: the run does what ProductionWorkflow allows, and  *)
(* so keeps its invariants.                                                *)
(***************************************************************************)
EXTENDS ProductionRefinement, FiniteSetTheorems, TLAPS

LEMMA StepsFacts ==
  /\ NumSteps \in Nat /\ NumSteps > 0 /\ 1 \in Steps /\ NumSteps \in Steps
  /\ NoStep \notin Steps
  /\ \A s \in Steps : s \in Nat /\ s > 0 /\ s <= NumSteps
  /\ \A s \in Steps : s < NumSteps => s + 1 \in Steps
  BY StepsAssumption DEF Steps, NoStep

StepOps == {"begin", "checklist", "submit"} \cup ReviewType

\* Which fields a handler has filled in at each point of its code.
Shape(hd) ==
  /\ hd.pc = "checkRun" => hd.op \in StepOps
  /\ hd.pc = "write" => \/ hd.op \in StepOps
                        \/ hd.op = "qc" /\ hd.action \in {"PASSED", "FAILED"}
  /\ hd.pc \in {"checkRun", "write"} /\ hd.op \in StepOps => hd.step \in Steps
  /\ hd.pc \in {"checkRun", "write"} /\ hd.op \in ReviewType => hd.action \in ReviewAction
  /\ hd.pc = "notify" => hd.note # "none"
  /\ hd.pc = "notify" /\ hd.note = "STEP_APPROVED" => hd.step \in Steps
  /\ hd.pc = "advance" => hd.step \in Steps

Typed == TypeOK /\ \A h \in Handlers : Shape(handlers[h])

LEMMA HandlerUpdate ==
  ASSUME Typed, NEW h \in Handlers, NEW hd \in Handler, Shape(hd),
         handlers' = [handlers EXCEPT ![h] = hd]
  PROVE  /\ handlers' \in [Handlers -> Handler]
         /\ \A g \in Handlers : Shape(handlers'[g])
  BY DEF Typed, TypeOK

LEMMA IdleShape == Idle \in Handler /\ Shape(Idle)
  BY DEF Idle, Handler, Shape, Pc, Ops, Actions, ReviewAction, NoStep, ReviewType, StepOps

LEMMA FinishTypes ==
  ASSUME Typed, NEW h \in Handlers, Finish(h)
  PROVE  /\ handlers' \in [Handlers -> Handler]
         /\ \A g \in Handlers : Shape(handlers'[g])
  BY HandlerUpdate, IdleShape DEF Finish

\* Moving to "notify" with a notification, or on from a step to "advance".
LEMMA GotoTypes ==
  ASSUME Typed, NEW h \in Handlers, NEW pc \in Pc, NEW note \in NoteKind \cup {"none"},
         Goto(h, pc, note),
         \/ pc = "notify" /\ note # "none" /\ (note = "STEP_APPROVED" => handlers[h].step \in Steps)
         \/ pc = "advance" /\ handlers[h].step \in Steps
         \/ pc = "write" /\ handlers[h].pc = "checkRun"
  PROVE  /\ handlers' \in [Handlers -> Handler]
         /\ \A g \in Handlers : Shape(handlers'[g])
  <1> DEFINE hd == [handlers[h] EXCEPT !.pc = pc, !.note = note]
  <1>1. handlers[h] \in Handler /\ Shape(handlers[h])
    BY DEF Typed, TypeOK
  <1>2. handlers' = [handlers EXCEPT ![h] = hd]
    BY DEF Goto, Typed, TypeOK
  <1>3. /\ hd.pc = pc /\ hd.note = note /\ hd.op = handlers[h].op
        /\ hd.step = handlers[h].step /\ hd.action = handlers[h].action
        /\ hd \in Handler
    BY <1>1 DEF Handler
  <1>4. Shape(hd)
    BY <1>1, <1>3 DEF Shape
  <1>5. QED
    BY <1>2, <1>3, <1>4, HandlerUpdate

LEMMA RequestTypes ==
  ASSUME Typed, NEW h \in Handlers, NEW op \in StepOps, NEW s \in Steps,
         NEW action \in ReviewAction \cup {"none"}, NEW items \in SUBSET Items,
         op \in ReviewType => action \in ReviewAction,
         Arrive(h, Request(op, s, action, items))
  PROVE  Typed'
  <1> DEFINE hd == Request(op, s, action, items)
  <1>1. hd = [pc |-> "checkRun", op |-> op, step |-> s, action |-> action,
              items |-> items, note |-> "none"]
    BY DEF Request
  <1>2. hd \in Handler
    BY <1>1 DEF Handler, Pc, Ops, StepOps, ReviewType, Actions
  <1>3. Shape(hd)
    BY <1>1 DEF Shape
  <1>4. handlers' = [handlers EXCEPT ![h] = hd] /\ UNCHANGED <<db, faults>>
    BY DEF Arrive
  <1>5. /\ handlers' \in [Handlers -> Handler]
        /\ \A g \in Handlers : Shape(handlers'[g])
    BY <1>2, <1>3, <1>4, HandlerUpdate
  <1>6. QED
    BY <1>4, <1>5 DEF Typed, TypeOK, db

\* The row a handler writes, and what it says when the handler goes on with it.
LEMMA WrittenFacts ==
  ASSUME Typed, NEW h \in Handlers, handlers[h].pc = "write", handlers[h].op # "qc"
  PROVE  LET hd == handlers[h]  row == Written(hd) IN
         /\ hd.step \in Steps /\ hd.op \in StepOps /\ row \in StepRow
         /\ hd.op = "submit" => /\ row.status = AfterSubmit(flow, hd.step)
                                /\ row.attempt = steps[hd.step].attempt + 1
         /\ hd.op # "submit" => row.attempt = steps[hd.step].attempt
         /\ hd.op = "begin" => row.status = "IN_PROGRESS"
         /\ hd.op = "checklist" => row.status = steps[hd.step].status
         /\ hd.op \in ReviewType /\ hd.action = "REJECTED" => row.status = "NEEDS_REVISION"
         /\ hd.op \in ReviewType /\ hd.action = "APPROVED" =>
              row.status = AfterApproval(flow, hd.step, hd.op)
         /\ hd.op \in ReviewType => hd.action \in {"APPROVED", "REJECTED"}
  <1> DEFINE hd == handlers[h]
             old == steps[hd.step]
  <1>1. /\ hd \in Handler /\ Shape(hd) /\ hd.op \in StepOps /\ hd.step \in Steps
        /\ hd.op \in ReviewType => hd.action \in {"APPROVED", "REJECTED"}
    BY DEF Typed, TypeOK, Shape, ReviewAction
  <1>2. old \in StepRow /\ hd.items \in SUBSET Items
    BY <1>1 DEF Typed, TypeOK, Handler
  <1>3. AfterSubmit(flow, hd.step) \in StepStatus /\ AfterApproval(flow, hd.step, hd.op) \in StepStatus
    BY DEF AfterSubmit, AfterApproval, StepStatus
  <1>4. CASE hd.op = "begin"
    BY <1>1, <1>2, <1>4 DEF Written, Begun, StepRow, StepStatus, ReviewType
  <1>5. CASE hd.op = "checklist"
    BY <1>1, <1>2, <1>5 DEF Written, StepRow, ReviewType
  <1>6. CASE hd.op = "submit"
    <2>1. Written(hd) = Submitted(old, flow, hd.step)
      BY <1>6 DEF Written
    <2>2. QED
      BY <1>1, <1>2, <1>3, <1>6, <2>1 DEF Submitted, StepRow, ReviewType
  <1>7. CASE hd.op \in ReviewType
    <2>1. Written(hd) = Reviewed(old, flow, hd.step, hd.op, hd.action)
      BY <1>7 DEF Written, ReviewType
    <2>2. hd.op \notin {"begin", "checklist", "submit"}
      BY <1>7 DEF ReviewType
    <2>3. CASE hd.action = "REJECTED"
      BY <1>1, <1>2, <2>1, <2>2, <2>3 DEF Reviewed, StepRow, StepStatus
    <2>4. CASE hd.action = "APPROVED"
      BY <1>1, <1>2, <1>3, <2>1, <2>2, <2>4 DEF Reviewed, StepRow
    <2>5. QED
      BY <1>1, <1>7, <2>3, <2>4
  <1>8. QED
    BY <1>1, <1>4, <1>5, <1>6, <1>7 DEF StepOps

LEMMA RunTypes ==
  ASSUME NEW r \in RunRow, NEW s \in Steps
  PROVE  /\ RunAdvanced(r, s) \in RunRow
         /\ \A result \in {"PASSED", "FAILED"} : RunAfterQc(r, result) \in RunRow
  BY StepsFacts DEF RunRow, RunStatus, QcStatus, RunAdvanced, RunAfterQc

LEMMA StepTypes ==
  ASSUME NEW st \in [Steps -> StepRow], NEW s \in Steps
  PROVE  /\ StepsAdvanced(st, s) \in [Steps -> StepRow]
         /\ \A result \in {"PASSED", "FAILED"} : StepsAfterQc(st, result) \in [Steps -> StepRow]
  BY StepsFacts DEF StepsAdvanced, StepsAfterQc, StepRow, StepStatus

LEMMA WriteStepTypes ==
  ASSUME Typed, NEW h \in Handlers, WriteStep(h)
  PROVE  Typed'
  <1> DEFINE hd == handlers[h]
             row == Written(hd)
  <1>1. /\ hd.pc = "write" /\ hd.op # "qc"
        /\ steps' = [steps EXCEPT ![hd.step] = row] /\ AfterWrite(h, row)
        /\ UNCHANGED <<flow, run, reviews, submissions, notes, faults>>
    BY DEF WriteStep
  <1>2. hd.step \in Steps /\ hd.op \in StepOps /\ row \in StepRow
    BY <1>1, WrittenFacts
  <1>3. steps' \in [Steps -> StepRow]
    BY <1>1, <1>2 DEF Typed, TypeOK
  <1>4. /\ handlers' \in [Handlers -> Handler]
        /\ \A g \in Handlers : Shape(handlers'[g])
    <2>1. CASE hd.op \in {"begin", "checklist"}
      <3>1. Finish(h)
        BY <1>1, <2>1 DEF AfterWrite, ReviewType
      <3>2. QED
        BY <3>1, FinishTypes
    <2>2. CASE hd.op = "submit"
      <3>1. row.status \in {"WAITING_SUPERVISOR", "WAITING_APPROVAL", "COMPLETED"}
        BY <1>1, <2>2, WrittenFacts DEF AfterSubmit
      <3>2. CASE row.status = "COMPLETED"
        <4>1. Goto(h, "advance", "none")
          BY <1>1, <2>2, <3>2 DEF AfterWrite, ReviewType
        <4>2. QED
          BY <1>2, <4>1, GotoTypes DEF Pc
      <3>3. CASE row.status # "COMPLETED"
        <4>1. Goto(h, "notify", row.status)
          BY <1>1, <2>2, <3>3 DEF AfterWrite, ReviewType
        <4>2. QED
          BY <3>1, <3>3, <4>1, GotoTypes DEF Pc, NoteKind
      <3>4. QED
        BY <3>2, <3>3
    <2>3. CASE hd.op \in ReviewType
      <3>1. row.status \in {"NEEDS_REVISION", "WAITING_APPROVAL", "COMPLETED"}
        BY <1>1, <2>3, WrittenFacts DEF AfterApproval
      <3>2. CASE row.status = "COMPLETED"
        <4>1. Goto(h, "notify", "STEP_APPROVED")
          BY <1>1, <2>3, <3>2 DEF AfterWrite, ReviewType
        <4>2. QED
          BY <1>2, <4>1, GotoTypes DEF Pc, NoteKind
      <3>3. CASE row.status # "COMPLETED"
        <4>1. Goto(h, "notify", row.status)
          BY <1>1, <2>3, <3>3 DEF AfterWrite, ReviewType
        <4>2. QED
          BY <3>1, <3>3, <4>1, GotoTypes DEF Pc, NoteKind
      <3>4. QED
        BY <3>2, <3>3
    <2>4. QED
      BY <1>2, <2>1, <2>2, <2>3 DEF StepOps
  <1>5. QED
    BY <1>1, <1>3, <1>4 DEF Typed, TypeOK

LEMMA AdvanceTypes ==
  ASSUME Typed, NEW h \in Handlers, AdvanceRun(h)
  PROVE  Typed'
  <1> DEFINE s == handlers[h].step
  <1>1. s \in Steps /\ handlers[h] \in Handler
    BY DEF AdvanceRun, Typed, TypeOK, Shape
  <1>2. steps' \in [Steps -> StepRow] /\ run' \in RunRow
    BY <1>1, RunTypes, StepTypes DEF AdvanceRun, Typed, TypeOK
  <1>3. /\ handlers' \in [Handlers -> Handler]
        /\ \A g \in Handlers : Shape(handlers'[g])
    <2>1. CASE AdvanceNotes(run, s) = {}
      BY <2>1, FinishTypes DEF AdvanceRun
    <2>2. ASSUME NEW note \in AdvanceNotes(run, s),
                 handlers' = [handlers EXCEPT ![h].pc = "notify", ![h].note = note[1],
                                              ![h].step = note[2]]
          PROVE  /\ handlers' \in [Handlers -> Handler]
                 /\ \A g \in Handlers : Shape(handlers'[g])
      <3> DEFINE hd == [handlers[h] EXCEPT !.pc = "notify", !.note = note[1], !.step = note[2]]
      <3>1. handlers' = [handlers EXCEPT ![h] = hd]
        BY <2>2 DEF Typed, TypeOK
      <3>2. note[1] \in {"STEP_ASSIGNED", "QC_PENDING"} /\ note[2] \in Steps \cup {NoStep}
        <4>1. CASE s < NumSteps
          <5>1. note = <<"STEP_ASSIGNED", s + 1>> /\ s + 1 \in Steps
            BY <1>1, <4>1, StepsFacts DEF AdvanceNotes
          <5>2. QED
            BY <5>1
        <4>2. CASE ~(s < NumSteps)
          <5>1. note = <<"QC_PENDING", NoStep>>
            BY <4>2 DEF AdvanceNotes
          <5>2. QED
            BY <5>1
        <4>3. QED
          BY <4>1, <4>2
      <3>3. hd.pc = "notify" /\ hd.note = note[1] /\ hd.step = note[2] /\ hd \in Handler
        BY <1>1, <3>2 DEF Handler, NoteKind, Pc
      <3>4. Shape(hd)
        BY <3>2, <3>3 DEF Shape
      <3>5. QED
        BY <3>1, <3>3, <3>4, HandlerUpdate
    <2>3. QED
      BY <2>1, <2>2 DEF AdvanceRun
  <1>4. QED
    BY <1>2, <1>3 DEF AdvanceRun, Typed, TypeOK

-----------------------------------------------------------------------------
(* Type correctness. *)

LEMMA InitTypes == Init => Typed
  <1> SUFFICES ASSUME Init PROVE Typed
    OBVIOUS
  <1>1. run \in RunRow /\ flow \in Flows
    BY StepsFacts DEF Init, NewRun, RunRow, RunStatus, QcStatus
  <1>2. steps \in [Steps -> StepRow]
    BY DEF Init, NewSteps, StepRow, StepStatus
  <1>3. Starting \in Handler /\ Shape(Starting)
    BY StepsFacts DEF Starting, Handler, Shape, Pc, Ops, Actions, NoteKind, NoStep, ReviewAction
  <1>4. /\ handlers \in [Handlers -> Handler]
        /\ \A g \in Handlers : Shape(handlers[g])
    BY <1>3, IdleShape DEF Init
  <1>5. reviews \in [Steps -> SUBSET ReviewRow] /\ submissions \in [Steps -> Nat]
    BY DEF Init
  <1>6. QED
    BY <1>1, <1>2, <1>4, <1>5 DEF Init, Typed, TypeOK

LEMMA CheckRunTypes ==
  ASSUME Typed, NEW h \in Handlers, CheckRun(h)
  PROVE  Typed'
  <1> DEFINE s == handlers[h].step
  <1>1. /\ handlers[h] \in Handler /\ handlers[h].pc = "checkRun" /\ s \in Steps
        /\ handlers[h].op \in ReviewType => handlers[h].action \in ReviewAction
    BY DEF CheckRun, Typed, TypeOK, Shape
  <1>2. /\ handlers' \in [Handlers -> Handler]
        /\ \A g \in Handlers : Shape(handlers'[g])
    <2>1. Goto(h, "write", "none")
      BY DEF CheckRun
    <2>2. QED
      BY <1>1, <2>1, GotoTypes DEF Pc
  <1>3. submissions' \in [Steps -> Nat]
    BY <1>1 DEF CheckRun, Typed, TypeOK
  <1>4. reviews' \in [Steps -> SUBSET ReviewRow]
    <2>1. CASE handlers[h].op \in ReviewType
      <3>1. steps[s].attempt \in Nat
        BY <1>1 DEF Typed, TypeOK, StepRow
      <3>2. [type |-> handlers[h].op, action |-> handlers[h].action,
             attempt |-> steps[s].attempt] \in ReviewRow
        BY <1>1, <2>1, <3>1 DEF ReviewRow
      <3>3. \/ reviews' = [reviews EXCEPT ![s] = @ \cup
                 {[type |-> handlers[h].op, action |-> handlers[h].action,
                   attempt |-> steps[s].attempt]}]
            \/ reviews' = reviews
        BY DEF CheckRun
      <3>4. QED
        BY <1>1, <3>2, <3>3 DEF Typed, TypeOK
    <2>2. CASE handlers[h].op \notin ReviewType
      BY <2>2 DEF CheckRun, Typed, TypeOK
    <2>3. QED
      BY <2>1, <2>2
  <1>5. QED
    BY <1>2, <1>3, <1>4 DEF CheckRun, Typed, TypeOK

LEMMA WriteQcTypes ==
  ASSUME Typed, NEW h \in Handlers, WriteQc(h)
  PROVE  Typed'
  <1>1. handlers[h].action \in {"PASSED", "FAILED"}
    BY DEF WriteQc, Typed, Shape, StepOps, ReviewType
  <1>2. steps' \in [Steps -> StepRow] /\ run' \in RunRow
    BY <1>1, StepsFacts, RunTypes, StepTypes DEF WriteQc, Typed, TypeOK
  <1>3. /\ handlers' \in [Handlers -> Handler]
        /\ \A g \in Handlers : Shape(handlers'[g])
    <2>1. \/ Goto(h, "notify", "QC_PASSED")
          \/ Goto(h, "notify", "QC_FAILED")
      BY DEF WriteQc
    <2>2. QED
      BY <2>1, GotoTypes DEF Pc, NoteKind
  <1>4. QED
    BY <1>2, <1>3 DEF WriteQc, Typed, TypeOK

LEMMA NotifyTypes ==
  ASSUME Typed, NEW h \in Handlers, Notify(h)
  PROVE  Typed'
  <1>1. handlers[h] \in Handler /\ Shape(handlers[h]) /\ handlers[h].pc = "notify"
    BY DEF Notify, Typed, TypeOK
  <1>2. handlers[h].note \in NoteKind /\ handlers[h].step \in Steps \cup {NoStep}
    BY <1>1 DEF Handler, Shape
  <1>3. notes' \subseteq NoteKind \X (Steps \cup {NoStep})
    BY <1>2 DEF Notify, Typed, TypeOK
  <1>4. /\ handlers' \in [Handlers -> Handler]
        /\ \A g \in Handlers : Shape(handlers'[g])
    <2>1. CASE handlers[h].note = "STEP_APPROVED"
      <3>1. Goto(h, "advance", "none") /\ handlers[h].step \in Steps
        BY <1>1, <2>1 DEF Notify, Shape
      <3>2. QED
        BY <3>1, GotoTypes DEF Pc
    <2>2. CASE handlers[h].note # "STEP_APPROVED"
      BY <2>2, FinishTypes DEF Notify
    <2>3. QED
      BY <2>1, <2>2
  <1>5. QED
    BY <1>3, <1>4 DEF Notify, Typed, TypeOK

LEMMA ArrivalTypes ==
  ASSUME Typed, NEW h \in Handlers, NEW s \in Steps
  PROVE  /\ BeginStep(h, s) => Typed'
         /\ \A i \in Items : UpdateChecklist(h, s, i) => Typed'
         /\ SubmitStep(h, s) => Typed'
         /\ \A type \in ReviewType, action \in ReviewAction :
              ReviewStep(h, s, type, action) => Typed'
  <1>0. steps[s].checked \subseteq Items
    BY DEF Typed, TypeOK, StepRow
  <1>1. BeginStep(h, s) => Typed'
    BY RequestTypes DEF BeginStep, StepOps, ReviewType
  <1>2. ASSUME NEW i \in Items, UpdateChecklist(h, s, i) PROVE Typed'
    <2>1. PICK checked \in {steps[s].checked \cup {i}, steps[s].checked \ {i}} :
            Arrive(h, Request("checklist", s, "none", checked))
      BY <1>2 DEF UpdateChecklist
    <2>2. checked \in SUBSET Items
      BY <1>0
    <2>3. QED
      BY <2>1, <2>2, RequestTypes DEF StepOps, ReviewType
  <1>3. SubmitStep(h, s) => Typed'
    BY RequestTypes DEF SubmitStep, StepOps, ReviewType
  <1>4. ASSUME NEW type \in ReviewType, NEW action \in ReviewAction,
               ReviewStep(h, s, type, action)
        PROVE  Typed'
    <2>1. Arrive(h, Request(type, s, action, {})) /\ type \in StepOps
      BY <1>4 DEF ReviewStep, StepOps
    <2>2. QED
      BY <2>1, RequestTypes
  <1>5. QED
    BY <1>1, <1>2, <1>3, <1>4

LEMMA ReviewQcTypes ==
  ASSUME Typed, NEW h \in Handlers, NEW result \in {"PASSED", "FAILED"}, ReviewQc(h, result)
  PROVE  Typed'
  <1>1. QcRequest(result) \in Handler /\ Shape(QcRequest(result))
    BY DEF QcRequest, Handler, Shape, Pc, Ops, Actions, StepOps, ReviewType, NoStep
  <1>2. handlers' = [handlers EXCEPT ![h] = QcRequest(result)] /\ UNCHANGED <<db, faults>>
    BY DEF ReviewQc, Arrive
  <1>3. /\ handlers' \in [Handlers -> Handler]
        /\ \A g \in Handlers : Shape(handlers'[g])
    BY <1>1, <1>2, HandlerUpdate
  <1>4. QED
    BY <1>2, <1>3 DEF Typed, TypeOK, db

LEMMA QuietTypes ==
  ASSUME Typed, NEW h \in Handlers
  PROVE  /\ RejectInactive(h) => Typed'
         /\ Die(h) => Typed'
         /\ \A action \in DOMAIN StatusOf : SetRunStatus(h, action) => Typed'
  <1>1. RejectInactive(h) => Typed'
    BY FinishTypes DEF RejectInactive, db, Typed, TypeOK
  <1>2. Die(h) => Typed'
    BY FinishTypes DEF Die, db, Typed, TypeOK
  <1>3. \A action \in DOMAIN StatusOf : SetRunStatus(h, action) => Typed'
    BY DEF SetRunStatus, StatusOf, RunRow, RunStatus, Typed, TypeOK
  <1>4. QED
    BY <1>1, <1>2, <1>3

LEMMA StutterTypes == Typed /\ UNCHANGED vars => Typed'
  BY DEF Typed, TypeOK, vars

LEMMA NextTypes == Typed /\ [Next]_vars => Typed'
  BY ArrivalTypes, ReviewQcTypes, QuietTypes, CheckRunTypes, WriteStepTypes, WriteQcTypes,
     NotifyTypes, AdvanceTypes, StutterTypes DEF Next, Progress

\* The rows and the handlers keep their types, for any number of steps and handlers.
THEOREM RunTypesHold == Spec => []TypeOK
  <1>1. Spec => []Typed
    BY InitTypes, NextTypes, PTL DEF Spec
  <1>2. Typed => TypeOK
    BY DEF Typed
  <1>3. QED
    BY <1>1, <1>2, PTL
-----------------------------------------------------------------------------
(* Safety.  A handler acts on what it read some steps ago, so the invariant *)
(* says of every handler in flight that what it relies on still holds: none *)
(* of it can be undone, because statuses never return to LOCKED, attempts   *)
(* only grow and reviews are only added.                                    *)

QcKnown == run.qc # "NOT_REQUIRED" <=> flow.requiresQc

\* A step that waits for a reviewer has got that far.
Reviewable(s, type) ==
  /\ steps[s].attempt > 0
  /\ type = "APPROVER" /\ s \in flow.supervised => Signed(s, "SUPERVISOR")

WaitingIsReviewable ==
  \A s \in Steps :
    /\ steps[s].status = "WAITING_SUPERVISOR" => Reviewable(s, "SUPERVISOR")
    /\ steps[s].status = "WAITING_APPROVAL" => Reviewable(s, "APPROVER")

ClearedUpTo(s) == \A t \in Steps : t <= s => Cleared(t)

OpensStep(hd) == hd.pc = "advance" \/ (hd.pc = "notify" /\ hd.note = "STEP_APPROVED")

Snapshot(h) ==
  LET hd == handlers[h] IN
  /\ hd.pc \in {"checkRun", "write"} /\ hd.op \in StepOps => steps[hd.step].status # "LOCKED"
  /\ hd.pc \in {"checkRun", "write"} /\ hd.op \in ReviewType => Reviewable(hd.step, hd.op)
  /\ hd.pc = "write" /\ hd.op \in ReviewType /\ hd.action = "APPROVED" => Signed(hd.step, hd.op)
  /\ hd.pc = "write" /\ hd.op = "qc" => flow.requiresQc /\ \A t \in Steps : Cleared(t)
  /\ OpensStep(hd) => ClearedUpTo(hd.step)

RunInv ==
  /\ Typed /\ NoBypass /\ QcGate /\ QcKnown /\ WaitingIsReviewable
  /\ \A h \in Handlers : Snapshot(h)

\* What no step takes back.
Grows ==
  /\ flow' = flow
  /\ \A s \in Steps :
       /\ steps'[s].attempt >= steps[s].attempt
       /\ reviews[s] \subseteq reviews'[s]
       /\ steps[s].status # "LOCKED" => steps'[s].status # "LOCKED"

LEMMA Kept ==
  ASSUME Typed, Typed', Grows, NEW s \in Steps
  PROVE  /\ \A type \in ReviewType : Signed(s, type) => Signed(s, type)'
         /\ \A type \in ReviewType : Reviewable(s, type) => Reviewable(s, type)'
         /\ Cleared(s) => Cleared(s)'
  <1>1. \A type \in ReviewType : Signed(s, type) => Signed(s, type)'
    BY DEF Grows, Signed
  <1>2. steps[s].attempt > 0 => steps'[s].attempt > 0
    <2>1. steps[s].attempt \in Nat /\ steps'[s].attempt \in Nat
      BY DEF Typed, TypeOK, StepRow
    <2>2. steps'[s].attempt >= steps[s].attempt
      BY DEF Grows
    <2>3. QED
      BY <2>1, <2>2
  <1>3. flow' = flow /\ "SUPERVISOR" \in ReviewType /\ "APPROVER" \in ReviewType
    BY DEF Grows, ReviewType
  <1>4. \A type \in ReviewType : Reviewable(s, type) => Reviewable(s, type)'
    BY <1>1, <1>2, <1>3 DEF Reviewable
  <1>5. Cleared(s) => Cleared(s)'
    BY <1>1, <1>2, <1>3 DEF Cleared
  <1>6. QED
    BY <1>1, <1>4, <1>5

LEMMA NoBypassKept ==
  ASSUME Typed, Typed', Grows, NoBypass,
         \A s \in Steps : steps'[s].status # "LOCKED" =>
           steps[s].status # "LOCKED" \/ \A t \in Steps : t < s => Cleared(t),
         run'.current = NoStep => run.current = NoStep \/ \A t \in Steps : Cleared(t)
  PROVE  NoBypass'
  <1>1. ASSUME NEW s \in Steps, NEW t \in Steps, t < s, steps'[s].status # "LOCKED"
        PROVE  Cleared(t)'
    <2>1. Cleared(t)
      BY <1>1 DEF NoBypass
    <2>2. QED
      BY <2>1, Kept
  <1>2. ASSUME NEW t \in Steps, run'.current = NoStep PROVE Cleared(t)'
    <2>1. Cleared(t)
      BY <1>2 DEF NoBypass
    <2>2. QED
      BY <2>1, Kept
  <1>3. QED
    BY <1>1, <1>2 DEF NoBypass

LEMMA QcGateKept ==
  ASSUME Typed, Typed', Grows, QcGate,
         run'.status = "COMPLETED" =>
           \/ run.status = "COMPLETED" /\ run'.qc = run.qc
           \/ (flow.requiresQc => run'.qc = "PASSED") /\ \A t \in Steps : Cleared(t)
  PROVE  QcGate'
  <1> SUFFICES ASSUME run'.status = "COMPLETED"
               PROVE  /\ flow'.requiresQc => run'.qc = "PASSED"
                      /\ \A t \in Steps : Cleared(t)'
    BY DEF QcGate
  <1>1. (flow.requiresQc => run'.qc = "PASSED") /\ \A t \in Steps : Cleared(t)
    BY DEF QcGate
  <1>2. flow' = flow
    BY DEF Grows
  <1>3. QED
    BY <1>1, <1>2, Kept

LEMMA WaitingKept ==
  ASSUME Typed, Typed', Grows, WaitingIsReviewable,
         \A s \in Steps :
           \/ steps'[s].status = steps[s].status
           \/ steps'[s].status \notin {"WAITING_SUPERVISOR", "WAITING_APPROVAL"}
           \/ steps'[s].status = "WAITING_SUPERVISOR" /\ Reviewable(s, "SUPERVISOR")'
           \/ steps'[s].status = "WAITING_APPROVAL" /\ Reviewable(s, "APPROVER")'
  PROVE  WaitingIsReviewable'
  <1> SUFFICES ASSUME NEW s \in Steps
               PROVE  /\ steps'[s].status = "WAITING_SUPERVISOR" => Reviewable(s, "SUPERVISOR")'
                      /\ steps'[s].status = "WAITING_APPROVAL" => Reviewable(s, "APPROVER")'
    BY DEF WaitingIsReviewable
  <1>1. CASE steps'[s].status = steps[s].status
    <2>1. /\ Reviewable(s, "SUPERVISOR") => Reviewable(s, "SUPERVISOR")'
          /\ Reviewable(s, "APPROVER") => Reviewable(s, "APPROVER")'
      BY Kept DEF ReviewType
    <2>2. /\ steps[s].status = "WAITING_SUPERVISOR" => Reviewable(s, "SUPERVISOR")
          /\ steps[s].status = "WAITING_APPROVAL" => Reviewable(s, "APPROVER")
      BY DEF WaitingIsReviewable
    <2>3. QED
      BY <1>1, <2>1, <2>2
  <1>2. CASE steps'[s].status # steps[s].status
    BY <1>2
  <1>3. QED
    BY <1>1, <1>2

LEMMA SnapshotKept ==
  ASSUME Typed, Typed', Grows, NEW h \in Handlers, handlers'[h] = handlers[h], Snapshot(h)
  PROVE  Snapshot(h)'
  <1> DEFINE hd == handlers[h]
  <1>0. Shape(hd) /\ hd \in Handler
    BY DEF Typed, TypeOK
  <1>1. hd.pc \in {"checkRun", "write"} /\ hd.op \in StepOps => steps'[hd.step].status # "LOCKED"
    BY <1>0 DEF Snapshot, Shape, Grows
  <1>2. hd.pc \in {"checkRun", "write"} /\ hd.op \in ReviewType => Reviewable(hd.step, hd.op)'
    <2>1. SUFFICES ASSUME hd.pc \in {"checkRun", "write"}, hd.op \in ReviewType
                   PROVE  Reviewable(hd.step, hd.op)'
      OBVIOUS
    <2>2. hd.step \in Steps /\ Reviewable(hd.step, hd.op)
      BY <1>0, <2>1 DEF Snapshot, Shape, StepOps
    <2>3. PICK s \in Steps, type \in ReviewType : s = hd.step /\ type = hd.op
      BY <2>1, <2>2
    <2>4. Reviewable(s, type)'
      BY <2>2, <2>3, Kept
    <2>5. QED
      BY <2>3, <2>4
  <1>3. hd.pc = "write" /\ hd.op \in ReviewType /\ hd.action = "APPROVED" => Signed(hd.step, hd.op)'
    <2>1. SUFFICES ASSUME hd.pc = "write", hd.op \in ReviewType, hd.action = "APPROVED"
                   PROVE  Signed(hd.step, hd.op)'
      OBVIOUS
    <2>2. hd.step \in Steps /\ Signed(hd.step, hd.op)
      BY <1>0, <2>1 DEF Snapshot, Shape, StepOps
    <2>3. QED
      BY <2>2 DEF Signed, Grows
  <1>4. hd.pc = "write" /\ hd.op = "qc" => flow'.requiresQc /\ \A t \in Steps : Cleared(t)'
    BY Kept DEF Snapshot, Grows
  <1>5. OpensStep(hd) => \A t \in Steps : t <= hd.step => Cleared(t)'
    BY Kept DEF Snapshot, ClearedUpTo
  <1>6. QED
    BY <1>1, <1>2, <1>3, <1>4, <1>5 DEF Snapshot, ClearedUpTo

LEMMA SnapshotsKept ==
  ASSUME RunInv, Typed', Grows, NEW h \in Handlers,
         \A g \in Handlers : g # h => handlers'[g] = handlers[g],
         Snapshot(h)'
  PROVE  \A g \in Handlers : Snapshot(g)'
  BY SnapshotKept DEF RunInv

\* The run and the step rows stay as they are; a review may be added.
LEMMA RowsKept ==
  ASSUME RunInv, Typed', UNCHANGED <<flow, run, steps>>,
         \A s \in Steps : reviews[s] \subseteq reviews'[s]
  PROVE  Grows /\ NoBypass' /\ QcGate' /\ QcKnown' /\ WaitingIsReviewable'
  <1>1. Grows
    <2>1. \A s \in Steps : steps[s].attempt \in Nat
      BY DEF RunInv, Typed, TypeOK, StepRow
    <2>2. QED
      BY <2>1 DEF Grows
  <1>2. NoBypass'
    BY <1>1, NoBypassKept DEF RunInv
  <1>3. QcGate'
    BY <1>1, QcGateKept DEF RunInv
  <1>4. WaitingIsReviewable'
    BY <1>1, WaitingKept DEF RunInv
  <1>5. QcKnown'
    BY DEF RunInv, QcKnown
  <1>6. QED
    BY <1>1, <1>2, <1>3, <1>4, <1>5

LEMMA IdleSnapshot ==
  ASSUME NEW h \in Handlers, handlers'[h] = Idle
  PROVE  Snapshot(h)'
  BY DEF Snapshot, Idle, OpensStep

\* A request that has just arrived relies on what it has just read.
LEMMA ArrivalSafe ==
  ASSUME RunInv, Typed', NEW h \in Handlers, NEW hd \in Handler, Arrive(h, hd),
         hd.pc = "checkRun" \/ (hd.pc = "write" /\ hd.op = "qc"),
         hd.pc = "checkRun" /\ hd.op \in StepOps => steps[hd.step].status # "LOCKED",
         hd.pc = "checkRun" /\ hd.op \in ReviewType => Reviewable(hd.step, hd.op),
         hd.pc = "write" => flow.requiresQc /\ \A t \in Steps : Cleared(t)
  PROVE  RunInv'
  <1>1. /\ UNCHANGED <<flow, run, steps, reviews>>
        /\ handlers' = [handlers EXCEPT ![h] = hd] /\ handlers'[h] = hd
        /\ \A g \in Handlers : g # h => handlers'[g] = handlers[g]
    BY DEF Arrive, db, RunInv, Typed, TypeOK
  <1>2. Grows /\ NoBypass' /\ QcGate' /\ QcKnown' /\ WaitingIsReviewable'
    BY <1>1, RowsKept
  <1>3. Snapshot(h)'
    <2>1. hd.op = "qc" => hd.op \notin StepOps /\ hd.op \notin ReviewType
      BY DEF StepOps, ReviewType
    <2>2. hd.pc = "checkRun" /\ hd.op \in StepOps => steps'[hd.step].status # "LOCKED"
      BY <1>1
    <2>3. hd.pc = "checkRun" /\ hd.op \in ReviewType => Reviewable(hd.step, hd.op)'
      BY <1>1 DEF Reviewable, Signed
    <2>4. hd.pc = "write" => flow'.requiresQc /\ \A t \in Steps : Cleared(t)'
      BY <1>1 DEF Cleared, Signed
    <2>5. QED
      BY <1>1, <2>1, <2>2, <2>3, <2>4 DEF Snapshot, OpensStep
  <1>4. QED
    BY <1>1, <1>2, <1>3, SnapshotsKept DEF RunInv

LEMMA RequestSafe ==
  ASSUME RunInv, NEW h \in Handlers, NEW op \in StepOps, NEW s \in Steps,
         NEW action \in ReviewAction \cup {"none"}, NEW items \in SUBSET Items,
         op \in ReviewType => action \in ReviewAction,
         Arrive(h, Request(op, s, action, items)),
         steps[s].status # "LOCKED", op \in ReviewType => Reviewable(s, op)
  PROVE  RunInv'
  <1> DEFINE hd == Request(op, s, action, items)
  <1>1. hd = [pc |-> "checkRun", op |-> op, step |-> s, action |-> action,
              items |-> items, note |-> "none"]
    BY DEF Request
  <1>2. hd \in Handler
    BY <1>1 DEF Handler, Pc, Ops, StepOps, ReviewType, Actions
  <1>3. Typed'
    BY RequestTypes DEF RunInv
  <1>4. QED
    BY <1>1, <1>2, <1>3, ArrivalSafe

LEMMA BeginSafe ==
  ASSUME RunInv, NEW h \in Handlers, NEW s \in Steps, BeginStep(h, s)
  PROVE  RunInv'
  <1>1. Arrive(h, Request("begin", s, "none", {})) /\ steps[s].status # "LOCKED"
    BY DEF BeginStep, Startable
  <1>2. QED
    BY <1>1, RequestSafe DEF StepOps, ReviewType

LEMMA ChecklistSafe ==
  ASSUME RunInv, NEW h \in Handlers, NEW s \in Steps, NEW i \in Items, UpdateChecklist(h, s, i)
  PROVE  RunInv'
  <1>1. PICK checked \in {steps[s].checked \cup {i}, steps[s].checked \ {i}} :
          Arrive(h, Request("checklist", s, "none", checked))
    BY DEF UpdateChecklist
  <1>2. checked \in SUBSET Items
    BY DEF RunInv, Typed, TypeOK, StepRow
  <1>3. steps[s].status # "LOCKED"
    BY DEF UpdateChecklist, Editable
  <1>4. QED
    BY <1>1, <1>2, <1>3, RequestSafe DEF StepOps, ReviewType

LEMMA SubmitSafe ==
  ASSUME RunInv, NEW h \in Handlers, NEW s \in Steps, SubmitStep(h, s)
  PROVE  RunInv'
  <1>1. Arrive(h, Request("submit", s, "none", {})) /\ steps[s].status # "LOCKED"
    BY DEF SubmitStep, Editable
  <1>2. QED
    BY <1>1, RequestSafe DEF StepOps, ReviewType

LEMMA ReviewSafe ==
  ASSUME RunInv, NEW h \in Handlers, NEW s \in Steps, NEW type \in ReviewType,
         NEW action \in ReviewAction, ReviewStep(h, s, type, action)
  PROVE  RunInv'
  <1>1. Arrive(h, Request(type, s, action, {})) /\ type \in StepOps
    BY DEF ReviewStep, StepOps
  <1>2. /\ type = "SUPERVISOR" => steps[s].status = "WAITING_SUPERVISOR"
        /\ type = "APPROVER" => steps[s].status = "WAITING_APPROVAL"
        /\ type \in {"SUPERVISOR", "APPROVER"}
    BY DEF ReviewStep, AwaitedStatus, ReviewType
  <1>3. Reviewable(s, type)
    BY <1>2 DEF RunInv, WaitingIsReviewable
  <1>4. steps[s].status # "LOCKED"
    BY <1>2
  <1>5. QED
    BY <1>1, <1>3, <1>4, RequestSafe

LEMMA ReviewQcSafe ==
  ASSUME RunInv, NEW h \in Handlers, NEW result \in {"PASSED", "FAILED"}, ReviewQc(h, result)
  PROVE  RunInv'
  <1>1. QcRequest(result) \in Handler
    BY DEF QcRequest, Handler, Pc, Ops, Actions, NoStep
  <1>2. flow.requiresQc /\ \A t \in Steps : Cleared(t)
    BY DEF RunInv, ReviewQc, QcDue, QcKnown, NoBypass
  <1>3. Typed'
    BY ReviewQcTypes DEF RunInv
  <1>4. QcRequest(result).pc = "write" /\ QcRequest(result).op = "qc"
    BY DEF QcRequest
  <1>5. Arrive(h, QcRequest(result))
    BY DEF ReviewQc
  <1>6. QED
    BY <1>1, <1>2, <1>3, <1>4, <1>5, ArrivalSafe

\* A handler that ends touches nothing.
LEMMA FinishSafe ==
  ASSUME RunInv, Typed', NEW h \in Handlers, Finish(h), UNCHANGED <<flow, run, steps, reviews>>
  PROVE  RunInv'
  <1>1. /\ handlers'[h] = Idle
        /\ \A g \in Handlers : g # h => handlers'[g] = handlers[g]
    BY DEF Finish, RunInv, Typed, TypeOK
  <1>2. Grows /\ NoBypass' /\ QcGate' /\ QcKnown' /\ WaitingIsReviewable'
    BY RowsKept
  <1>3. QED
    BY <1>1, <1>2, IdleSnapshot, SnapshotsKept DEF RunInv

LEMMA SetRunStatusSafe ==
  ASSUME RunInv, NEW h \in Handlers, NEW action \in DOMAIN StatusOf, SetRunStatus(h, action)
  PROVE  RunInv'
  <1>1. /\ UNCHANGED <<flow, steps, reviews, handlers>>
        /\ run'.status \in {"PAUSED", "IN_PROGRESS", "CANCELLED"}
        /\ run'.qc = run.qc /\ run'.current = run.current
    BY DEF SetRunStatus, StatusOf, RunInv, Typed, TypeOK, RunRow
  <1>2. Typed'
    BY QuietTypes DEF RunInv
  <1>3. Grows
    <2>1. \A s \in Steps : steps[s].attempt \in Nat
      BY DEF RunInv, Typed, TypeOK, StepRow
    <2>2. QED
      BY <1>1, <2>1 DEF Grows
  <1>4. NoBypass'
    BY <1>1, <1>2, <1>3, NoBypassKept DEF RunInv
  <1>5. QcGate' /\ QcKnown'
    BY <1>1 DEF QcGate, QcKnown, RunInv
  <1>6. WaitingIsReviewable'
    BY <1>1, <1>2, <1>3, WaitingKept DEF RunInv
  <1>7. \A g \in Handlers : Snapshot(g)'
    BY <1>1, <1>2, <1>3, SnapshotKept DEF RunInv
  <1>8. QED
    BY <1>2, <1>4, <1>5, <1>6, <1>7 DEF RunInv

\* What the handler holds after Goto.
LEMMA GotoFields ==
  ASSUME Typed, NEW h \in Handlers, NEW pc, NEW note, Goto(h, pc, note)
  PROVE  /\ handlers'[h].pc = pc /\ handlers'[h].note = note
         /\ handlers'[h].op = handlers[h].op /\ handlers'[h].step = handlers[h].step
         /\ handlers'[h].action = handlers[h].action
         /\ \A g \in Handlers : g # h => handlers'[g] = handlers[g]
  <1>1. handlers[h] \in Handler
    BY DEF Typed, TypeOK
  <1>2. handlers' = [handlers EXCEPT ![h] = [handlers[h] EXCEPT !.pc = pc, !.note = note]]
    BY DEF Goto, Typed, TypeOK
  <1>3. handlers'[h] = [handlers[h] EXCEPT !.pc = pc, !.note = note]
    BY <1>2 DEF Typed, TypeOK
  <1>4. QED
    BY <1>1, <1>2, <1>3 DEF Handler, Typed, TypeOK

LEMMA CheckRunSafe ==
  ASSUME RunInv, NEW h \in Handlers, CheckRun(h)
  PROVE  RunInv'
  <1> DEFINE hd == handlers[h]
  <1>1. /\ hd \in Handler /\ hd.pc = "checkRun" /\ hd.op \in StepOps /\ hd.step \in Steps
        /\ Typed
    BY DEF CheckRun, RunInv, Typed, TypeOK, Shape
  <1>2. Typed'
    BY CheckRunTypes DEF RunInv
  <1>3. \A s \in Steps : reviews[s] \subseteq reviews'[s]
    BY <1>1 DEF CheckRun, Typed, TypeOK
  <1>4. Grows /\ NoBypass' /\ QcGate' /\ QcKnown' /\ WaitingIsReviewable'
    BY <1>2, <1>3, RowsKept DEF CheckRun
  <1>5. Goto(h, "write", "none")
    BY DEF CheckRun
  <1>6. Snapshot(h)'
    <2>1. /\ handlers'[h].pc = "write" /\ handlers'[h].op = hd.op
          /\ handlers'[h].step = hd.step /\ handlers'[h].action = hd.action
      BY <1>1, <1>5, GotoFields
    <2>2. steps'[hd.step].status # "LOCKED"
      BY <1>1 DEF CheckRun, RunInv, Snapshot
    <2>3. hd.op \in ReviewType => Reviewable(hd.step, hd.op)'
      <3>1. SUFFICES ASSUME hd.op \in ReviewType PROVE Reviewable(hd.step, hd.op)'
        OBVIOUS
      <3>2. Reviewable(hd.step, hd.op)
        BY <1>1, <3>1 DEF RunInv, Snapshot
      <3>3. QED
        BY <1>1, <1>3, <2>1, <3>2 DEF Reviewable, Signed, CheckRun
    <2>4. hd.op \in ReviewType /\ hd.action = "APPROVED" => Signed(hd.step, hd.op)'
      <3>1. SUFFICES ASSUME hd.op \in ReviewType, hd.action = "APPROVED"
                     PROVE  Signed(hd.step, hd.op)'
        OBVIOUS
      <3> DEFINE row == [type |-> hd.op, action |-> hd.action, attempt |-> steps[hd.step].attempt]
      <3>2. reviews' = [reviews EXCEPT ![hd.step] = @ \cup {row}]
        BY <3>1 DEF CheckRun, ReviewType
      <3>3. row \in reviews'[hd.step]
        BY <1>1, <3>2 DEF Typed, TypeOK
      <3>4. row.type = hd.op /\ row.action = "APPROVED"
        BY <3>1
      <3>5. QED
        BY <2>1, <3>3, <3>4 DEF Signed
    <2>5. hd.op # "qc"
      BY <1>1 DEF StepOps, ReviewType
    <2>6. QED
      BY <2>1, <2>2, <2>3, <2>4, <2>5 DEF Snapshot, OpensStep
  <1>7. QED
    BY <1>2, <1>4, <1>5, <1>6, GotoFields, SnapshotsKept DEF RunInv

\* The write of a step never locks it, and leaves it waiting only for a reviewer it has reached.
LEMMA WriteStepRows ==
  ASSUME RunInv, NEW h \in Handlers, WriteStep(h)
  PROVE  Grows /\ NoBypass' /\ QcGate' /\ QcKnown' /\ WaitingIsReviewable'
  <1> DEFINE hd == handlers[h]
             row == Written(hd)
  <1>0. PICK s \in Steps, op \in StepOps, status \in StepStatus, attempt \in Nat :
          /\ s = hd.step /\ op = hd.op
          /\ status = row.status /\ attempt = row.attempt
    BY WrittenFacts DEF WriteStep, RunInv, StepRow
  <1>1. /\ hd.pc = "write" /\ hd.op # "qc" /\ Typed /\ Snapshot(h)
        /\ steps' = [steps EXCEPT ![hd.step] = row]
        /\ UNCHANGED <<flow, run, reviews>>
    BY DEF WriteStep, RunInv
  <1>2. /\ hd.step \in Steps /\ hd.op \in StepOps /\ row \in StepRow
        /\ hd.op = "submit" => /\ row.status = AfterSubmit(flow, hd.step)
                               /\ row.attempt = steps[hd.step].attempt + 1
        /\ hd.op # "submit" => row.attempt = steps[hd.step].attempt
        /\ hd.op = "begin" => row.status = "IN_PROGRESS"
        /\ hd.op = "checklist" => row.status = steps[hd.step].status
        /\ hd.op \in ReviewType /\ hd.action = "REJECTED" => row.status = "NEEDS_REVISION"
        /\ hd.op \in ReviewType /\ hd.action = "APPROVED" =>
             row.status = AfterApproval(flow, hd.step, hd.op)
        /\ hd.op \in ReviewType => hd.action \in {"APPROVED", "REJECTED"}
    BY <1>1, WrittenFacts
  <1>3. Typed'
    BY WriteStepTypes DEF RunInv
  <1>4. steps'[hd.step] = row /\ \A t \in Steps : t # hd.step => steps'[t] = steps[t]
    BY <1>1, <1>2 DEF Typed, TypeOK
  <1>5. \A t \in Steps : steps[t].attempt \in Nat
    BY <1>1 DEF Typed, TypeOK, StepRow
  <1>6. steps[hd.step].status # "LOCKED"
    BY <1>1, <1>2 DEF Snapshot
  <1>7. row.attempt >= steps[hd.step].attempt /\ row.status # "LOCKED"
    <2>1. row.attempt >= steps[hd.step].attempt
      BY <1>2, <1>5
    <2>2. row.status # "LOCKED"
      BY <1>2, <1>6 DEF StepOps, AfterSubmit, AfterApproval
    <2>3. QED
      BY <2>1, <2>2
  <1>8. Grows
    BY <1>1, <1>4, <1>5, <1>7 DEF Grows
  <1>9. NoBypass'
    BY <1>1, <1>3, <1>4, <1>6, <1>8, NoBypassKept DEF RunInv
  <1>10. QcGate' /\ QcKnown'
    <2>1. QcGate'
      BY <1>1, <1>3, <1>8, QcGateKept DEF RunInv
    <2>2. QcKnown'
      BY <1>1 DEF QcKnown, RunInv
    <2>3. QED
      BY <2>1, <2>2
  <1>11. \/ status = steps[s].status
         \/ status \notin {"WAITING_SUPERVISOR", "WAITING_APPROVAL"}
         \/ status = "WAITING_SUPERVISOR" /\ Reviewable(s, "SUPERVISOR")'
         \/ status = "WAITING_APPROVAL" /\ Reviewable(s, "APPROVER")'
    <2>0. steps'[s].attempt = attempt /\ UNCHANGED <<flow, reviews>>
      BY <1>0, <1>1, <1>4
    <2>1. CASE op \in {"begin", "checklist"}
      BY <1>0, <1>2, <2>1
    <2>2. CASE op = "submit"
      <3>1. attempt > 0
        BY <1>0, <1>2, <1>5, <2>2
      <3>2. status = "WAITING_APPROVAL" => s \notin flow.supervised
        BY <1>0, <1>2, <2>2 DEF AfterSubmit
      <3>3. status \in {"WAITING_SUPERVISOR", "WAITING_APPROVAL", "COMPLETED"}
        BY <1>0, <1>2, <2>2 DEF AfterSubmit
      <3>4. QED
        BY <2>0, <3>1, <3>2, <3>3 DEF Reviewable
    <2>3. CASE op \in ReviewType
      <3>1. CASE hd.action = "REJECTED"
        BY <1>0, <1>2, <2>3, <3>1
      <3>2. CASE hd.action = "APPROVED"
        <4>1. CASE status = "WAITING_APPROVAL"
          <5>1. op = "SUPERVISOR"
            BY <1>0, <1>2, <2>3, <3>2, <4>1 DEF AfterApproval
          <5>2. Signed(s, "SUPERVISOR") /\ steps[s].attempt > 0
            BY <1>0, <1>1, <2>3, <3>2, <5>1 DEF Snapshot, Reviewable
          <5>3. attempt > 0
            BY <1>0, <1>2, <1>5, <5>1, <5>2
          <5>4. QED
            BY <2>0, <4>1, <5>2, <5>3 DEF Reviewable, Signed
        <4>2. CASE status # "WAITING_APPROVAL"
          BY <1>0, <1>2, <2>3, <3>2, <4>2 DEF AfterApproval
        <4>3. QED
          BY <4>1, <4>2
      <3>3. QED
        BY <1>0, <1>2, <2>3, <3>1, <3>2
    <2>4. QED
      BY <1>0, <2>1, <2>2, <2>3 DEF StepOps
  <1>12. WaitingIsReviewable'
    <2>1. \A t \in Steps : t # s => steps'[t].status = steps[t].status
      BY <1>0, <1>4
    <2>2. steps'[s].status = status
      BY <1>0, <1>4
    <2>3. QED
      BY <1>3, <1>8, <1>11, <2>1, <2>2, WaitingKept DEF RunInv
  <1>13. QED
    BY <1>8, <1>9, <1>10, <1>12

\* A write that completes its step leaves a trail up to that step.
LEMMA CompletedIsCleared ==
  ASSUME RunInv, NEW h \in Handlers, WriteStep(h), NEW s \in Steps, s = handlers[h].step,
         Written(handlers[h]).status = "COMPLETED", handlers[h].op \notin {"begin", "checklist"}
  PROVE  \A t \in Steps : t <= s => Cleared(t)'
  <1> DEFINE hd == handlers[h]
             row == Written(hd)
  <1>1. /\ hd.pc = "write" /\ hd.op # "qc" /\ Typed /\ Snapshot(h)
        /\ steps' = [steps EXCEPT ![s] = row]
        /\ UNCHANGED <<flow, run, reviews>>
    BY DEF WriteStep, RunInv
  <1>2. /\ hd.op \in StepOps
        /\ hd.op = "submit" => /\ row.status = AfterSubmit(flow, s)
                               /\ row.attempt = steps[s].attempt + 1
        /\ hd.op # "submit" => row.attempt = steps[s].attempt
        /\ hd.op \in ReviewType /\ hd.action = "REJECTED" => row.status = "NEEDS_REVISION"
        /\ hd.op \in ReviewType /\ hd.action = "APPROVED" => row.status = AfterApproval(flow, s, hd.op)
        /\ hd.op \in ReviewType => hd.action \in {"APPROVED", "REJECTED"}
    BY <1>1, WrittenFacts
  <1>3. Typed' /\ Grows
    BY WriteStepTypes, WriteStepRows DEF RunInv
  <1>4. steps'[s].attempt = row.attempt /\ steps[s].attempt \in Nat
    BY <1>1 DEF Typed, TypeOK, StepRow
  <1>5. ASSUME NEW t \in Steps, t < s PROVE Cleared(t)'
    <2>1. steps[s].status # "LOCKED"
      BY <1>1, <1>2 DEF Snapshot
    <2>2. Cleared(t)
      BY <1>5, <2>1 DEF RunInv, NoBypass
    <2>3. QED
      BY <1>1, <1>3, <2>2, Kept
  <1>6. Cleared(s)'
    <2>1. CASE hd.op = "submit"
      <3>1. steps'[s].attempt > 0
        BY <1>2, <1>4, <2>1
      <3>2. s \notin flow.supervised /\ s \notin flow.approved
        BY <1>2, <2>1 DEF AfterSubmit
      <3>3. QED
        BY <1>1, <3>1, <3>2 DEF Cleared
    <2>2. CASE hd.op \in ReviewType
      <3>1. hd.action = "APPROVED" /\ hd.op # "submit"
        BY <1>2, <2>2 DEF ReviewType
      <3>2. Signed(s, hd.op) /\ Reviewable(s, hd.op)
        BY <1>1, <2>2, <3>1 DEF Snapshot
      <3>3. steps'[s].attempt > 0
        BY <1>2, <1>4, <3>1, <3>2 DEF Reviewable
      <3>4. CASE hd.op = "SUPERVISOR"
        <4>1. s \notin flow.approved
          BY <1>2, <2>2, <3>1, <3>4 DEF AfterApproval
        <4>2. QED
          BY <1>1, <3>2, <3>3, <3>4, <4>1 DEF Cleared, Signed
      <3>5. CASE hd.op = "APPROVER"
        BY <1>1, <3>2, <3>3, <3>5 DEF Cleared, Signed, Reviewable
      <3>6. QED
        BY <2>2, <3>4, <3>5 DEF ReviewType
    <2>3. QED
      BY <1>2, <2>1, <2>2 DEF StepOps
  <1>7. QED
    <2>1. SUFFICES ASSUME NEW t \in Steps, t <= s PROVE Cleared(t)'
      OBVIOUS
    <2>2. t < s \/ t = s
      BY <2>1, StepsFacts
    <2>3. CASE t = s
      BY <1>6, <2>3 DEF Cleared, Signed
    <2>4. QED
      BY <1>5, <2>2, <2>3

LEMMA WriteStepSafe ==
  ASSUME RunInv, NEW h \in Handlers, WriteStep(h)
  PROVE  RunInv'
  <1> DEFINE row == Written(handlers[h])
  <1>1. Typed /\ Typed' /\ Grows /\ NoBypass' /\ QcGate' /\ QcKnown' /\ WaitingIsReviewable'
    BY WriteStepTypes, WriteStepRows DEF RunInv
  <1>2. PICK s \in Steps, status \in StepStatus : s = handlers[h].step /\ status = row.status
    BY <1>1, WrittenFacts DEF WriteStep, StepRow
  <1>3. AfterWrite(h, row)
    BY DEF WriteStep
  <1>4. Snapshot(h)' /\ \A g \in Handlers : g # h => handlers'[g] = handlers[g]
    <2>1. CASE handlers[h].op \in {"begin", "checklist"}
      <3>1. Finish(h)
        BY <1>3, <2>1 DEF AfterWrite, ReviewType
      <3>2. handlers'[h] = Idle /\ \A g \in Handlers : g # h => handlers'[g] = handlers[g]
        BY <1>1, <3>1 DEF Finish, Typed, TypeOK
      <3>3. QED
        BY <3>2, IdleSnapshot
    <2>2. ASSUME handlers[h].op \notin {"begin", "checklist"}, status = "COMPLETED"
          PROVE  Snapshot(h)' /\ \A g \in Handlers : g # h => handlers'[g] = handlers[g]
      <3>1. \/ Goto(h, "advance", "none")
            \/ Goto(h, "notify", "STEP_APPROVED")
        BY <1>2, <1>3, <2>2 DEF AfterWrite
      <3>2. handlers'[h].pc \in {"advance", "notify"} /\ handlers'[h].step = s
        BY <1>1, <1>2, <3>1, GotoFields
      <3>3. \A t \in Steps : t <= s => Cleared(t)'
        BY <1>2, <2>2, CompletedIsCleared
      <3>4. Snapshot(h)'
        BY <3>2, <3>3 DEF Snapshot, ClearedUpTo
      <3>5. QED
        BY <1>1, <3>1, <3>4, GotoFields
    <2>3. ASSUME handlers[h].op \notin {"begin", "checklist"}, status # "COMPLETED"
          PROVE  Snapshot(h)' /\ \A g \in Handlers : g # h => handlers'[g] = handlers[g]
      <3>1. Goto(h, "notify", status)
        BY <1>2, <1>3, <2>3 DEF AfterWrite
      <3>2. handlers'[h].pc = "notify" /\ handlers'[h].note = status
        BY <1>1, <3>1, GotoFields
      <3>3. status # "STEP_APPROVED"
        BY DEF StepStatus
      <3>4. Snapshot(h)'
        BY <3>2, <3>3 DEF Snapshot, OpensStep
      <3>5. QED
        BY <1>1, <3>1, <3>4, GotoFields
    <2>4. QED
      BY <2>1, <2>2, <2>3
  <1>5. QED
    BY <1>1, <1>4, SnapshotsKept DEF RunInv

LEMMA WriteQcSafe ==
  ASSUME RunInv, NEW h \in Handlers, WriteQc(h)
  PROVE  RunInv'
  <1> DEFINE action == handlers[h].action
  <1>1. /\ handlers[h].pc = "write" /\ handlers[h].op = "qc" /\ Typed
        /\ action \in {"PASSED", "FAILED"}
        /\ run' = RunAfterQc(run, action) /\ steps' = StepsAfterQc(steps, action)
        /\ UNCHANGED <<flow, reviews>>
    BY DEF WriteQc, RunInv, Typed, Shape, StepOps, ReviewType
  <1>2. flow.requiresQc /\ \A t \in Steps : Cleared(t)
    BY <1>1 DEF RunInv, Snapshot
  <1>3. Typed'
    BY WriteQcTypes DEF RunInv
  <1>4. \A s \in Steps : /\ steps'[s].attempt = steps[s].attempt /\ steps[s].attempt \in Nat
                         /\ steps'[s].status \in {steps[s].status, "NEEDS_REVISION"}
    BY <1>1, StepsFacts DEF StepsAfterQc, Typed, TypeOK, StepRow
  <1>5. Grows
    BY <1>1, <1>4 DEF Grows
  <1>6. NoBypass'
    BY <1>2, <1>3, <1>5, NoBypassKept DEF RunInv
  <1>7. run'.status = "COMPLETED" => run'.qc = "PASSED"
    BY <1>1 DEF RunAfterQc, Typed, TypeOK, RunRow
  <1>8. QcGate'
    BY <1>2, <1>3, <1>5, <1>7, QcGateKept DEF RunInv
  <1>9. QcKnown'
    <2>1. run'.qc \in {"PASSED", "FAILED"}
      BY <1>1 DEF RunAfterQc, Typed, TypeOK, RunRow
    <2>2. QED
      BY <1>1, <1>2, <2>1 DEF QcKnown
  <1>10. WaitingIsReviewable'
    BY <1>3, <1>4, <1>5, WaitingKept DEF RunInv
  <1>11. PICK note \in {"QC_PASSED", "QC_FAILED"} : Goto(h, "notify", note)
    BY <1>1 DEF WriteQc
  <1>12. Snapshot(h)'
    BY <1>1, <1>11, GotoFields DEF Snapshot, OpensStep
  <1>13. QED
    BY <1>1, <1>3, <1>5, <1>6, <1>8, <1>9, <1>10, <1>11, <1>12, GotoFields, SnapshotsKept DEF RunInv

LEMMA NotifySafe ==
  ASSUME RunInv, NEW h \in Handlers, Notify(h)
  PROVE  RunInv'
  <1>1. /\ Typed /\ Typed' /\ handlers[h].pc = "notify"
        /\ UNCHANGED <<flow, run, steps, reviews>>
    BY NotifyTypes DEF RunInv, Notify
  <1>2. CASE handlers[h].note = "STEP_APPROVED"
    <2>1. Goto(h, "advance", "none")
      BY <1>2 DEF Notify
    <2>2. Grows /\ NoBypass' /\ QcGate' /\ QcKnown' /\ WaitingIsReviewable'
      BY <1>1, RowsKept
    <2>3. PICK s \in Steps : s = handlers[h].step
      BY <1>1, <1>2 DEF Typed, Shape
    <2>4. handlers'[h].pc = "advance" /\ handlers'[h].step = s
      BY <1>1, <2>1, <2>3, GotoFields
    <2>5. \A t \in Steps : t <= s => Cleared(t)
      BY <1>1, <1>2, <2>3 DEF RunInv, Snapshot, OpensStep, ClearedUpTo
    <2>6. \A t \in Steps : t <= s => Cleared(t)'
      BY <1>1, <2>2, <2>5, Kept
    <2>7. Snapshot(h)'
      BY <2>4, <2>6 DEF Snapshot, ClearedUpTo
    <2>8. QED
      BY <1>1, <2>1, <2>2, <2>7, GotoFields, SnapshotsKept DEF RunInv
  <1>3. CASE handlers[h].note # "STEP_APPROVED"
    BY <1>1, <1>3, FinishSafe DEF Notify
  <1>4. QED
    BY <1>2, <1>3

LEMMA AdvanceSafe ==
  ASSUME RunInv, NEW h \in Handlers, AdvanceRun(h)
  PROVE  RunInv'
  <1>1. PICK s \in Steps : s = handlers[h].step
    BY DEF AdvanceRun, RunInv, Typed, Shape
  <1>2. /\ handlers[h].pc = "advance" /\ Typed
        /\ steps' = StepsAdvanced(steps, s) /\ run' = RunAdvanced(run, s)
        /\ UNCHANGED <<flow, reviews>>
    BY <1>1 DEF AdvanceRun, RunInv
  <1>3. Typed'
    BY AdvanceTypes DEF RunInv
  <1>4. \A t \in Steps : t <= s => Cleared(t)
    BY <1>1, <1>2 DEF RunInv, Snapshot, OpensStep, ClearedUpTo
  <1>5. \A t \in Steps : /\ steps'[t].attempt = steps[t].attempt /\ steps[t].attempt \in Nat
                         /\ t # s + 1 => steps'[t] = steps[t]
                         /\ t = s + 1 => steps'[t].status = "READY"
    BY <1>2, StepsFacts DEF StepsAdvanced, Typed, TypeOK, StepRow
  <1>6. Grows
    <2>1. \A t \in Steps : steps[t].status # "LOCKED" => steps'[t].status # "LOCKED"
      BY <1>5
    <2>2. QED
      BY <1>2, <1>5, <2>1 DEF Grows
  <1>7. s >= NumSteps => \A t \in Steps : Cleared(t)
    BY <1>4, StepsFacts
  <1>8. /\ run'.current = NoStep => s >= NumSteps
        /\ run'.status = "COMPLETED" =>
             \/ run.status = "COMPLETED" /\ run'.qc = run.qc
             \/ s >= NumSteps /\ run'.qc = "NOT_REQUIRED"
        /\ run'.qc = run.qc \/ (run.qc # "NOT_REQUIRED" /\ run'.qc = "PENDING")
    BY <1>2, StepsFacts DEF RunAdvanced, Typed, TypeOK, RunRow, NoStep
  <1>9. NoBypass'
    <2>1. ASSUME NEW t \in Steps, steps'[t].status # "LOCKED", steps[t].status = "LOCKED",
                 NEW u \in Steps, u < t
          PROVE  Cleared(u)
      <3>1. t = s + 1
        BY <1>5, <2>1
      <3>2. u <= s
        BY <2>1, <3>1, StepsFacts
      <3>3. QED
        BY <1>4, <3>2
    <2>2. QED
      BY <1>3, <1>6, <1>7, <1>8, <2>1, NoBypassKept DEF RunInv
  <1>10. QcKnown'
    BY <1>2, <1>8 DEF QcKnown, RunInv
  <1>11. QcGate'
    <2>1. run'.qc = "NOT_REQUIRED" => ~flow.requiresQc
      BY <1>2, <1>10 DEF QcKnown
    <2>2. QED
      BY <1>3, <1>6, <1>7, <1>8, <2>1, QcGateKept DEF RunInv
  <1>12. WaitingIsReviewable'
    BY <1>3, <1>5, <1>6, WaitingKept DEF RunInv
  <1>13. Snapshot(h)' /\ \A g \in Handlers : g # h => handlers'[g] = handlers[g]
    <2>1. CASE AdvanceNotes(run, s) = {}
      <3>1. Finish(h)
        BY <1>1, <2>1 DEF AdvanceRun
      <3>2. handlers'[h] = Idle /\ \A g \in Handlers : g # h => handlers'[g] = handlers[g]
        BY <1>2, <3>1 DEF Finish, Typed, TypeOK
      <3>3. QED
        BY <3>2, IdleSnapshot
    <2>2. ASSUME NEW note \in AdvanceNotes(run, s),
                 handlers' = [handlers EXCEPT ![h].pc = "notify", ![h].note = note[1],
                                              ![h].step = note[2]]
          PROVE  Snapshot(h)' /\ \A g \in Handlers : g # h => handlers'[g] = handlers[g]
      <3>1. note[1] # "STEP_APPROVED"
        <4>1. note = <<"STEP_ASSIGNED", s + 1>> \/ note = <<"QC_PENDING", NoStep>>
          BY DEF AdvanceNotes
        <4>2. QED
          BY <4>1
      <3>2. handlers'[h].pc = "notify" /\ handlers'[h].note = note[1]
        BY <1>2, <2>2 DEF Typed, TypeOK, Handler
      <3>3. Snapshot(h)'
        BY <3>1, <3>2 DEF Snapshot, OpensStep
      <3>4. \A g \in Handlers : g # h => handlers'[g] = handlers[g]
        BY <1>2, <2>2 DEF Typed, TypeOK
      <3>5. QED
        BY <3>3, <3>4
    <2>3. QED
      BY <1>1, <2>1, <2>2 DEF AdvanceRun
  <1>14. QED
    BY <1>3, <1>6, <1>9, <1>10, <1>11, <1>12, <1>13, SnapshotsKept DEF RunInv

LEMMA InitSafe == Init => RunInv
  <1> SUFFICES ASSUME Init PROVE RunInv
    OBVIOUS
  <1>1. Typed /\ flow \in FlowType
    BY InitTypes, FlowsAssumption DEF Typed, TypeOK
  <1>2. /\ run.current = 1 /\ run.status = "IN_PROGRESS"
        /\ run.qc # "NOT_REQUIRED" <=> flow.requiresQc
    BY <1>1 DEF Init, NewRun, FlowType
  <1>3. \A s \in Steps : steps[s].status = (IF s = 1 THEN "READY" ELSE "LOCKED")
    BY DEF Init, NewSteps
  <1>4. NoBypass
    BY <1>2, <1>3, StepsFacts DEF NoBypass, NoStep
  <1>5. QcGate /\ QcKnown /\ WaitingIsReviewable
    BY <1>2, <1>3 DEF QcGate, QcKnown, WaitingIsReviewable
  <1>6. \A h \in Handlers : Snapshot(h)
    <2>1. \A h \in Handlers : handlers[h] = Starting \/ handlers[h] = Idle
      BY DEF Init
    <2>2. QED
      BY <2>1 DEF Snapshot, OpensStep, Starting, Idle
  <1>7. QED
    BY <1>1, <1>4, <1>5, <1>6 DEF RunInv

LEMMA StutterSafe == RunInv /\ UNCHANGED vars => RunInv'
  <1> SUFFICES ASSUME RunInv, UNCHANGED vars PROVE RunInv'
    OBVIOUS
  <1>1. Typed' /\ UNCHANGED <<flow, run, steps, reviews, handlers>>
    BY StutterTypes DEF RunInv, vars
  <1>2. Grows /\ NoBypass' /\ QcGate' /\ QcKnown' /\ WaitingIsReviewable'
    BY <1>1, RowsKept
  <1>3. \A h \in Handlers : Snapshot(h)'
    BY <1>1, <1>2, SnapshotKept DEF RunInv
  <1>4. QED
    BY <1>1, <1>2, <1>3 DEF RunInv

LEMMA NextSafe == RunInv /\ [Next]_vars => RunInv'
  <1> SUFFICES ASSUME RunInv, [Next]_vars PROVE RunInv'
    OBVIOUS
  <1>1. ASSUME NEW h \in Handlers, RejectInactive(h) \/ Die(h) PROVE RunInv'
    <2>1. Finish(h) /\ UNCHANGED <<flow, run, steps, reviews>>
      BY <1>1 DEF RejectInactive, Die, db
    <2>2. Typed'
      BY <1>1, QuietTypes DEF RunInv
    <2>3. QED
      BY <2>1, <2>2, FinishSafe
  <1>2. ASSUME NEW h \in Handlers, NEW s \in Steps,
               \/ BeginStep(h, s)
               \/ \E i \in Items : UpdateChecklist(h, s, i)
               \/ SubmitStep(h, s)
               \/ \E type \in ReviewType, action \in ReviewAction : ReviewStep(h, s, type, action)
        PROVE  RunInv'
    BY <1>2, BeginSafe, ChecklistSafe, SubmitSafe, ReviewSafe
  <1>3. ASSUME NEW h \in Handlers, Progress(h) PROVE RunInv'
    BY <1>1, <1>3, CheckRunSafe, WriteStepSafe, WriteQcSafe, NotifySafe, AdvanceSafe DEF Progress
  <1>4. QED
    BY <1>1, <1>2, <1>3, ReviewQcSafe, SetRunStatusSafe, StutterSafe DEF Next

\* Whatever the interleaving and wherever handlers die, no step is opened and no
\* run leaves the pipeline before every earlier step was submitted and cleared.
THEOREM NoStepIsBypassed == Spec => []NoBypass
  <1>1. RunInv => NoBypass
    BY DEF RunInv
  <1>2. QED
    BY <1>1, InitSafe, NextSafe, PTL DEF Spec

\* A COMPLETED run has passed the QC its flow asks for, and all its steps were cleared.
THEOREM ClosingNeedsQc == Spec => []QcGate
  <1>1. RunInv => QcGate
    BY DEF RunInv
  <1>2. QED
    BY <1>1, InitSafe, NextSafe, PTL DEF Spec

-----------------------------------------------------------------------------
(* Accounting.  One step concerns one handler, which joins or leaves the    *)
(* writers of a submission; what it does to the counts is compared with it. *)

Unrecorded(s) ==
  {h \in Handlers : handlers[h].pc = "write" /\ handlers[h].op = "submit" /\ handlers[h].step = s}

LEMMA CountOne ==
  ASSUME NEW S \in SUBSET Handlers, NEW T \in SUBSET Handlers, NEW h,
         \A g \in Handlers : g # h => (g \in S <=> g \in T)
  PROVE  /\ Cardinality(S) \in Nat /\ Cardinality(T) \in Nat
         /\ (h \in S <=> h \in T) => Cardinality(T) = Cardinality(S)
         /\ h \notin S /\ h \in T => Cardinality(T) = Cardinality(S) + 1
         /\ h \in S /\ h \notin T => Cardinality(T) = Cardinality(S) - 1
  <1>1. IsFiniteSet(S) /\ IsFiniteSet(T)
    BY HandlersAssumption, FS_Subset
  <1>2. (h \in S <=> h \in T) => T = S
    OBVIOUS
  <1>3. h \notin S /\ h \in T => T = S \cup {h}
    OBVIOUS
  <1>4. h \in S /\ h \notin T => T = S \ {h}
    OBVIOUS
  <1>5. QED
    BY <1>1, <1>2, <1>3, <1>4, FS_AddElement, FS_RemoveElement, FS_CardinalityType

\* The four ways in which a step may move the count of one production step.
Counted(h, s) ==
  LET before == h \in Unrecorded(s)  after == h \in Unrecorded(s)' IN
  \/ /\ submissions'[s] = submissions[s] /\ steps'[s].attempt = steps[s].attempt
     /\ before <=> after
  \/ /\ submissions'[s] = submissions[s] + 1 /\ steps'[s].attempt = steps[s].attempt
     /\ ~before /\ after
  \/ /\ submissions'[s] = submissions[s] /\ steps'[s].attempt = steps[s].attempt + 1
     /\ before /\ ~after
  \/ /\ submissions'[s] = submissions[s] /\ steps'[s].attempt = steps[s].attempt
     /\ before /\ ~after /\ faults' = faults + 1

LEMMA CountKept ==
  ASSUME Typed, Typed', SubmissionAccounting, NEW h \in Handlers,
         \A g \in Handlers : g # h => handlers'[g] = handlers[g],
         faults' >= faults, \A s \in Steps : Counted(h, s)
  PROVE  SubmissionAccounting'
  <1> SUFFICES ASSUME NEW s \in Steps
               PROVE  /\ submissions'[s] >= steps'[s].attempt + Cardinality(Unrecorded(s)')
                      /\ submissions'[s] <= steps'[s].attempt + Cardinality(Unrecorded(s)') + faults'
    BY DEF SubmissionAccounting, Unrecorded
  <1>1. /\ submissions[s] >= steps[s].attempt + Cardinality(Unrecorded(s))
        /\ submissions[s] <= steps[s].attempt + Cardinality(Unrecorded(s)) + faults
    BY DEF SubmissionAccounting, Unrecorded
  <1>2. /\ submissions[s] \in Nat /\ submissions'[s] \in Nat
        /\ steps[s].attempt \in Nat /\ steps'[s].attempt \in Nat
        /\ faults \in Nat /\ faults' \in Nat
    BY DEF Typed, TypeOK, StepRow
  <1>3. /\ Unrecorded(s) \in SUBSET Handlers /\ Unrecorded(s)' \in SUBSET Handlers
        /\ \A g \in Handlers : g # h => (g \in Unrecorded(s) <=> g \in Unrecorded(s)')
    BY DEF Unrecorded
  <1>4. /\ Cardinality(Unrecorded(s)) \in Nat /\ Cardinality(Unrecorded(s)') \in Nat
        /\ (h \in Unrecorded(s) <=> h \in Unrecorded(s)')
             => Cardinality(Unrecorded(s)') = Cardinality(Unrecorded(s))
        /\ h \notin Unrecorded(s) /\ h \in Unrecorded(s)'
             => Cardinality(Unrecorded(s)') = Cardinality(Unrecorded(s)) + 1
        /\ h \in Unrecorded(s) /\ h \notin Unrecorded(s)'
             => Cardinality(Unrecorded(s)') = Cardinality(Unrecorded(s)) - 1
    BY <1>3, CountOne
  <1>5. QED
    BY <1>1, <1>2, <1>4 DEF Counted

\* A handler that neither leaves nor reaches the write of a submission counts nothing.
LEMMA CountStill ==
  ASSUME Typed, Typed', SubmissionAccounting, NEW h \in Handlers,
         \A g \in Handlers : g # h => handlers'[g] = handlers[g],
         faults' >= faults, UNCHANGED submissions,
         \A s \in Steps : steps'[s].attempt = steps[s].attempt,
         ~(handlers[h].pc = "write" /\ handlers[h].op = "submit"),
         ~(handlers'[h].pc = "write" /\ handlers'[h].op = "submit")
  PROVE  SubmissionAccounting'
  BY CountKept DEF Counted, Unrecorded

LEMMA InitCounts == Init => SubmissionAccounting
  <1> SUFFICES ASSUME Init, NEW s \in Steps
               PROVE  /\ submissions[s] >= steps[s].attempt + Cardinality(Unrecorded(s))
                      /\ submissions[s] <= steps[s].attempt + Cardinality(Unrecorded(s)) + faults
    BY DEF SubmissionAccounting, Unrecorded
  <1>1. Unrecorded(s) = {}
    BY DEF Init, Unrecorded, Starting, Idle
  <1>2. submissions[s] = 0 /\ steps[s].attempt = 0 /\ faults = 0
    BY DEF Init, NewSteps
  <1>3. QED
    BY <1>1, <1>2, FS_EmptySet

LEMMA ArrivalCounts ==
  ASSUME Typed, Typed', SubmissionAccounting, NEW h \in Handlers, NEW hd, Arrive(h, hd),
         ~(hd.pc = "write" /\ hd.op = "submit")
  PROVE  SubmissionAccounting'
  <1>1. /\ handlers'[h] = hd /\ handlers[h].pc = "idle" /\ UNCHANGED <<steps, submissions, faults>>
        /\ \A g \in Handlers : g # h => handlers'[g] = handlers[g]
    BY DEF Arrive, Idle, db, Typed, TypeOK
  <1>2. faults' >= faults
    BY <1>1 DEF Typed, TypeOK
  <1>3. QED
    BY <1>1, <1>2, CountStill

LEMMA CheckRunCounts ==
  ASSUME Typed, Typed', SubmissionAccounting, NEW h \in Handlers, CheckRun(h)
  PROVE  SubmissionAccounting'
  <1> DEFINE hd == handlers[h]
  <1>1. /\ hd.pc = "checkRun" /\ hd.step \in Steps /\ UNCHANGED <<steps, faults>>
        /\ submissions \in [Steps -> Nat] /\ faults' >= faults
    BY DEF CheckRun, Typed, TypeOK, Shape
  <1>2. /\ handlers'[h].pc = "write" /\ handlers'[h].op = hd.op /\ handlers'[h].step = hd.step
        /\ \A g \in Handlers : g # h => handlers'[g] = handlers[g]
    BY GotoFields DEF CheckRun
  <1>3. CASE hd.op = "submit"
    <2>1. submissions' = [submissions EXCEPT ![hd.step] = @ + 1]
      BY <1>3 DEF CheckRun, ReviewType
    <2>2. ASSUME NEW s \in Steps PROVE Counted(h, s)
      BY <1>1, <1>2, <1>3, <2>1 DEF Counted, Unrecorded
    <2>3. QED
      BY <1>1, <1>2, <2>2, CountKept
  <1>4. CASE hd.op # "submit"
    <2>1. submissions' = submissions
      BY <1>4 DEF CheckRun
    <2>2. QED
      BY <1>1, <1>2, <1>4, <2>1, CountStill
  <1>5. QED
    BY <1>3, <1>4

\* After the write of a step the handler is elsewhere.
LEMMA WriteStepCounts ==
  ASSUME Typed, Typed', SubmissionAccounting, NEW h \in Handlers, WriteStep(h)
  PROVE  SubmissionAccounting'
  <1> DEFINE hd == handlers[h]
             row == Written(hd)
  <1>1. /\ hd.pc = "write" /\ hd.op # "qc" /\ AfterWrite(h, row)
        /\ steps' = [steps EXCEPT ![hd.step] = row] /\ UNCHANGED <<submissions, faults>>
    BY DEF WriteStep
  <1>2. /\ hd.step \in Steps
        /\ hd.op = "submit" => row.attempt = steps[hd.step].attempt + 1
        /\ hd.op # "submit" => row.attempt = steps[hd.step].attempt
    BY <1>1, WrittenFacts
  <1> HIDE DEF row
  <1>3. /\ \A g \in Handlers : g # h => handlers'[g] = handlers[g]
        /\ handlers'[h].pc # "write"
    <2>1. CASE Finish(h)
      BY <2>1 DEF Finish, Idle, Typed, TypeOK
    <2>2. CASE \E pc \in {"advance", "notify"} : \E note : Goto(h, pc, note)
      <3>1. PICK pc, note : pc \in {"advance", "notify"} /\ Goto(h, pc, note)
        BY <2>2
      <3>2. QED
        BY <3>1, GotoFields
    <2>3. QED
      BY <1>1, <2>1, <2>2 DEF AfterWrite
  <1>4. steps'[hd.step] = row /\ \A s \in Steps : s # hd.step => steps'[s] = steps[s]
    BY <1>1, <1>2 DEF Typed, TypeOK
  <1>5. ASSUME NEW s \in Steps PROVE Counted(h, s)
    <2>1. /\ h \notin Unrecorded(s)'
          /\ h \in Unrecorded(s) <=> hd.op = "submit" /\ s = hd.step
      BY <1>1, <1>3 DEF Unrecorded
    <2>2. QED
      BY <1>1, <1>2, <1>4, <2>1 DEF Counted
  <1>6. faults' >= faults
    BY <1>1 DEF Typed, TypeOK
  <1>7. QED
    BY <1>3, <1>5, <1>6, CountKept

LEMMA WriteQcCounts ==
  ASSUME Typed, Typed', SubmissionAccounting, NEW h \in Handlers, WriteQc(h)
  PROVE  SubmissionAccounting'
  <1>1. /\ handlers[h].op = "qc" /\ UNCHANGED <<submissions, faults>>
        /\ steps' = StepsAfterQc(steps, handlers[h].action)
        /\ \E note : Goto(h, "notify", note)
    BY DEF WriteQc
  <1>2. handlers'[h].pc = "notify" /\ \A g \in Handlers : g # h => handlers'[g] = handlers[g]
    BY <1>1, GotoFields
  <1>3. \A s \in Steps : steps'[s].attempt = steps[s].attempt
    BY <1>1, StepsFacts DEF StepsAfterQc, Typed, TypeOK, StepRow
  <1>4. faults' >= faults
    BY <1>1 DEF Typed, TypeOK
  <1>5. QED
    BY <1>1, <1>2, <1>3, <1>4, CountStill

LEMMA NotifyCounts ==
  ASSUME Typed, Typed', SubmissionAccounting, NEW h \in Handlers, Notify(h)
  PROVE  SubmissionAccounting'
  <1>1. /\ handlers[h].pc = "notify" /\ UNCHANGED <<steps, submissions, faults>>
        /\ Goto(h, "advance", "none") \/ Finish(h)
    BY DEF Notify
  <1>2. handlers'[h].pc # "write" /\ \A g \in Handlers : g # h => handlers'[g] = handlers[g]
    BY <1>1, GotoFields DEF Finish, Idle, Typed, TypeOK
  <1>3. faults' >= faults
    BY <1>1 DEF Typed, TypeOK
  <1>4. QED
    BY <1>1, <1>2, <1>3, CountStill

LEMMA AdvanceCounts ==
  ASSUME Typed, Typed', SubmissionAccounting, NEW h \in Handlers, AdvanceRun(h)
  PROVE  SubmissionAccounting'
  <1>1. /\ handlers[h].pc = "advance" /\ UNCHANGED <<submissions, faults>>
        /\ steps' = StepsAdvanced(steps, handlers[h].step)
    BY DEF AdvanceRun
  <1>2. handlers'[h].pc # "write" /\ \A g \in Handlers : g # h => handlers'[g] = handlers[g]
    <2>1. CASE Finish(h)
      BY <2>1 DEF Finish, Idle, Typed, TypeOK
    <2>2. ASSUME NEW note, handlers' = [handlers EXCEPT ![h].pc = "notify", ![h].note = note[1],
                                                        ![h].step = note[2]]
          PROVE  handlers'[h].pc # "write" /\ \A g \in Handlers : g # h => handlers'[g] = handlers[g]
      BY <2>2 DEF Typed, TypeOK, Handler
    <2>3. QED
      BY <2>1, <2>2 DEF AdvanceRun
  <1>3. \A s \in Steps : steps'[s].attempt = steps[s].attempt
    BY <1>1 DEF StepsAdvanced, Typed, TypeOK, StepRow
  <1>4. faults' >= faults
    BY <1>1 DEF Typed, TypeOK
  <1>5. QED
    BY <1>1, <1>2, <1>3, <1>4, CountStill

\* A handler that dies over the write of a submission is a fault.
LEMMA DieCounts ==
  ASSUME Typed, Typed', SubmissionAccounting, NEW h \in Handlers, Die(h)
  PROVE  SubmissionAccounting'
  <1>1. /\ UNCHANGED <<steps, submissions>> /\ faults' = faults + 1 /\ handlers'[h] = Idle
        /\ \A g \in Handlers : g # h => handlers'[g] = handlers[g]
    BY DEF Die, Finish, db, Typed, TypeOK
  <1>2. \A s \in Steps : h \notin Unrecorded(s)'
    BY <1>1 DEF Unrecorded, Idle
  <1>3. \A s \in Steps : Counted(h, s)
    BY <1>1, <1>2 DEF Counted
  <1>4. faults' >= faults
    BY <1>1 DEF Typed, TypeOK
  <1>5. QED
    BY <1>1, <1>3, <1>4, CountKept

LEMMA QuietCounts ==
  ASSUME Typed, Typed', SubmissionAccounting, NEW h \in Handlers,
         RejectInactive(h) \/ \E action \in DOMAIN StatusOf : SetRunStatus(h, action)
  PROVE  SubmissionAccounting'
  <1>1. /\ handlers[h].pc # "write" /\ handlers'[h].pc # "write"
        /\ UNCHANGED <<steps, submissions, faults>>
        /\ \A g \in Handlers : g # h => handlers'[g] = handlers[g]
    BY DEF RejectInactive, SetRunStatus, Finish, Idle, db, Typed, TypeOK
  <1>2. faults' >= faults
    BY <1>1 DEF Typed, TypeOK
  <1>3. QED
    BY <1>1, <1>2, CountStill

LEMMA NextCounts == Typed /\ SubmissionAccounting /\ [Next]_vars => SubmissionAccounting'
  <1> SUFFICES ASSUME Typed, SubmissionAccounting, [Next]_vars PROVE SubmissionAccounting'
    OBVIOUS
  <1>1. Typed'
    BY NextTypes
  <1>2. ASSUME NEW h \in Handlers, NEW s \in Steps,
               \/ BeginStep(h, s)
               \/ \E i \in Items : UpdateChecklist(h, s, i)
               \/ SubmitStep(h, s)
               \/ \E type \in ReviewType, action \in ReviewAction : ReviewStep(h, s, type, action)
        PROVE  SubmissionAccounting'
    <2>1. PICK op, action, items : Arrive(h, Request(op, s, action, items))
      BY <1>2 DEF BeginStep, UpdateChecklist, SubmitStep, ReviewStep
    <2>2. QED
      BY <1>1, <2>1, ArrivalCounts DEF Request
  <1>3. ASSUME NEW h \in Handlers, NEW result \in {"PASSED", "FAILED"}, ReviewQc(h, result)
        PROVE  SubmissionAccounting'
    BY <1>1, <1>3, ArrivalCounts DEF ReviewQc, QcRequest
  <1>4. ASSUME NEW h \in Handlers, Progress(h) PROVE SubmissionAccounting'
    BY <1>1, <1>4, CheckRunCounts, WriteStepCounts, WriteQcCounts, NotifyCounts, AdvanceCounts,
       QuietCounts DEF Progress
  <1>5. CASE UNCHANGED vars
    BY <1>5 DEF vars, SubmissionAccounting
  <1>6. QED
    BY <1>1, <1>2, <1>3, <1>4, <1>5, QuietCounts, DieCounts DEF Next

\* Every form submission is an attempt of its step, still to be written there, or
\* lost with a handler that died: for any number of requests and failures.
THEOREM SubmissionsAreCounted == Spec => []SubmissionAccounting
  <1>1. Spec => [](Typed /\ SubmissionAccounting)
    BY InitTypes, NextTypes, InitCounts, NextCounts, PTL DEF Spec
  <1>2. QED
    BY <1>1, PTL
-----------------------------------------------------------------------------
(* ProductionRun implements ProductionWorkflow when one request is served    *)
(* at a time and none dies.  Only is the handler there is.                   *)

\* The workflow's copies of the rules are the rules.
LEMMA TypesAgree ==
  /\ Workflow!Steps = Steps /\ Workflow!NoStep = NoStep /\ Workflow!NoteKind = NoteKind
  /\ Workflow!RunRow = RunRow /\ Workflow!StepRow = StepRow /\ Workflow!ReviewRow = ReviewRow
  /\ Workflow!Startable = Startable /\ Workflow!Editable = Editable
  /\ Workflow!AwaitedStatus = AwaitedStatus /\ Workflow!StatusOf = StatusOf
  /\ Workflow!ReviewType = ReviewType /\ Workflow!ReviewAction = ReviewAction
<1>1. Workflow!Steps = Steps /\ Workflow!NoStep = NoStep
  BY DEF Workflow!Steps, Workflow!NoStep, Steps, NoStep
<1> QED
  BY <1>1
  DEF Workflow!NoteKind, Workflow!RunRow, Workflow!RunStatus, Workflow!QcStatus, Workflow!StepRow,
      Workflow!StepStatus, Workflow!ReviewRow, Workflow!Startable, Workflow!Editable,
      Workflow!AwaitedStatus, Workflow!StatusOf, Workflow!ReviewType, Workflow!ReviewAction,
      NoteKind, RunRow, RunStatus, QcStatus, StepRow, StepStatus, ReviewRow, Startable, Editable,
      AwaitedStatus, StatusOf, ReviewType, ReviewAction

LEMMA RulesAgree ==
  /\ Workflow!NewSteps = NewSteps
  /\ \A f : Workflow!NewRun(f) = NewRun(f)
  /\ \A row : Workflow!Begun(row) = Begun(row)
  /\ \A f, s : Workflow!AfterSubmit(f, s) = AfterSubmit(f, s)
  /\ \A f, s, type : Workflow!AfterApproval(f, s, type) = AfterApproval(f, s, type)
  /\ \A st, s : Workflow!StepsAdvanced(st, s) = StepsAdvanced(st, s)
  /\ \A r, s : Workflow!RunAdvanced(r, s) = RunAdvanced(r, s)
  /\ \A r, s : Workflow!AdvanceNotes(r, s) = AdvanceNotes(r, s)
  /\ \A st, result : Workflow!StepsAfterQc(st, result) = StepsAfterQc(st, result)
  /\ \A r, result : Workflow!RunAfterQc(r, result) = RunAfterQc(r, result)
  /\ \A r : Workflow!QcDue(r) = QcDue(r)
  BY TypesAgree
  DEF Workflow!NewSteps, Workflow!NewRun, Workflow!Begun, Workflow!AfterSubmit,
      Workflow!AfterApproval, Workflow!StepsAdvanced, Workflow!RunAdvanced, Workflow!AdvanceNotes,
      Workflow!StepsAfterQc, Workflow!RunAfterQc, Workflow!QcDue, NewSteps, NewRun, Begun,
      AfterSubmit, AfterApproval, StepsAdvanced, RunAdvanced, AdvanceNotes, StepsAfterQc,
      RunAfterQc, QcDue

LEMMA RowsAgree ==
  /\ \A row, f, s : Workflow!Submitted(row, f, s) = Submitted(row, f, s)
  /\ \A row, f, s, type, action :
       Workflow!Reviewed(row, f, s, type, action) = Reviewed(row, f, s, type, action)
BY TypesAgree, RulesAgree DEF Workflow!Submitted, Workflow!Reviewed, Submitted, Reviewed

Only == CHOOSE h : h \in Handlers
Owes(hd) == hd.pc = "advance" \/ (hd.pc = "notify" /\ hd.note = "STEP_APPROVED")

Inserted(hd) == [type |-> hd.op, action |-> hd.action, attempt |-> steps[hd.step].attempt]

MappedPlainly ==
  LET hd == handlers[Only] IN
  /\ SettledSteps = IF Owes(hd) THEN StepsAdvanced(steps, hd.step) ELSE steps
  /\ SettledRun = IF Owes(hd) THEN RunAdvanced(run, hd.step) ELSE run
  /\ SettledNotes = notes \cup (IF hd.pc = "notify" THEN {<<hd.note, hd.step>>} ELSE {})
                          \cup (IF Owes(hd) THEN AdvanceNotes(run, hd.step) ELSE {})
  /\ SettledSubmissions = [s \in Steps |-> IF hd.pc = "write" /\ hd.op = "submit" /\ hd.step = s
                                           THEN submissions[s] - 1 ELSE submissions[s]]
  /\ SettledReviews = [s \in Steps |-> IF hd.pc = "write" /\ hd.op \in ReviewType /\ hd.step = s
                                       THEN reviews[s] \ {Inserted(hd)} ELSE reviews[s]]

LEMMA Mapped ==
  ASSUME Handlers = {Only}
  PROVE  Typed => MappedPlainly
<1> SUFFICES ASSUME Typed PROVE MappedPlainly
  OBVIOUS
<1> DEFINE hd == handlers[Only]
<1>0. steps \in [Steps -> StepRow] /\ submissions \in [Steps -> Nat]
  BY DEF Typed, TypeOK
<1>1. Advancing = IF Owes(hd) THEN {Only} ELSE {}
  BY DEF Advancing, InFlight, Owes
<1>2. SettledSteps = IF Owes(hd) THEN StepsAdvanced(steps, hd.step) ELSE steps
  BY <1>0, <1>1 DEF SettledSteps, StepsAdvanced
<1>3. SettledRun = IF Owes(hd) THEN RunAdvanced(run, hd.step) ELSE run
  <2>1. (CHOOSE h \in {Only} : TRUE) = Only
    OBVIOUS
  <2> QED
    BY <1>1, <2>1 DEF SettledRun
<1>4. InFlight("notify") = IF hd.pc = "notify" THEN {Only} ELSE {}
  BY DEF InFlight
<1>5. SettledNotes = notes \cup (IF hd.pc = "notify" THEN {<<hd.note, hd.step>>} ELSE {})
                          \cup (IF Owes(hd) THEN AdvanceNotes(run, hd.step) ELSE {})
  <2>1. {<<handlers[h].note, handlers[h].step>> : h \in InFlight("notify")}
          = IF hd.pc = "notify" THEN {<<hd.note, hd.step>>} ELSE {}
    BY <1>4
  <2>2. UNION {AdvanceNotes(run, handlers[h].step) : h \in Advancing}
          = IF Owes(hd) THEN AdvanceNotes(run, hd.step) ELSE {}
    BY <1>1
  <2> QED
    BY <2>1, <2>2 DEF SettledNotes
<1>6. \A s, ops : Unwritten(s, ops) = IF hd.pc = "write" /\ hd.op \in ops /\ hd.step = s THEN {Only} ELSE {}
  BY DEF Unwritten, InFlight
<1>7. SettledSubmissions = [s \in Steps |-> IF hd.pc = "write" /\ hd.op = "submit" /\ hd.step = s
                                           THEN submissions[s] - 1 ELSE submissions[s]]
  <2>1. Cardinality({}) = 0 /\ Cardinality({Only}) = 1
    BY FS_EmptySet, FS_Singleton
  <2>2. \A s \in Steps : submissions[s] - 0 = submissions[s]
    BY <1>0
  <2> QED
    BY <1>6, <2>1, <2>2 DEF SettledSubmissions
<1>8. SettledReviews = [s \in Steps |-> IF hd.pc = "write" /\ hd.op \in ReviewType /\ hd.step = s
                                       THEN reviews[s] \ {Inserted(hd)} ELSE reviews[s]]
  <2>1. ASSUME NEW s \in Steps
        PROVE  {[type |-> handlers[h].op, action |-> handlers[h].action, attempt |-> steps[s].attempt]
                  : h \in Unwritten(s, ReviewType)}
               = IF hd.pc = "write" /\ hd.op \in ReviewType /\ hd.step = s THEN {Inserted(hd)} ELSE {}
    BY <1>6 DEF Inserted
  <2>2. ASSUME NEW s \in Steps
        PROVE  reviews[s] \ {[type |-> handlers[h].op, action |-> handlers[h].action, attempt |-> steps[s].attempt]
                  : h \in Unwritten(s, ReviewType)}
               = IF hd.pc = "write" /\ hd.op \in ReviewType /\ hd.step = s
                 THEN reviews[s] \ {Inserted(hd)} ELSE reviews[s]
    BY <2>1
  <2> QED
    BY <2>2 DEF SettledReviews
<1> QED
  BY <1>2, <1>3, <1>5, <1>7, <1>8 DEF MappedPlainly

LEMMA MappedNext ==
  ASSUME Handlers = {Only}
  PROVE  Typed' => MappedPlainly'
BY Mapped, PTL

-----------------------------------------------------------------------------
(* With a single handler nothing changes between its read and its write. *)

\* What the handler has read still holds when it goes on.
StillTrue(hd) ==
  LET row == steps[hd.step] IN
  hd.pc \in {"checkRun", "write"} =>
    /\ hd.op = "begin" => row.status \in Startable
    /\ hd.op = "checklist" =>
         /\ row.status \in Editable
         /\ \E i \in Items : hd.items \in {row.checked \cup {i}, row.checked \ {i}}
    /\ hd.op = "submit" => /\ row.status \in Editable /\ row.checked = Items
                           /\ SettledSubmissions[hd.step] < MaxAttempts
    /\ hd.op \in ReviewType => row.status = AwaitedStatus[hd.op]
    /\ hd.op = "qc" => QcDue(run) /\ hd.step = NoStep
    /\ hd.pc = "write" /\ hd.op # "qc" => run.status = "IN_PROGRESS"
    /\ hd.pc = "write" /\ hd.op \in ReviewType => Inserted(hd) \in reviews[hd.step]

\* A review of the current attempt is only recorded once.
FreshReviews ==
  \A s \in Steps : \A r \in SettledReviews[s] :
    /\ r.attempt <= steps[s].attempt
    /\ steps[s].status = "WAITING_SUPERVISOR" => r.attempt # steps[s].attempt
    /\ steps[s].status = "WAITING_APPROVAL" /\ r.type = "APPROVER" => r.attempt # steps[s].attempt

SerialInv == StillTrue(handlers[Only]) /\ FreshReviews

\* What a step of the handler must show.
Abstractly == Workflow!Next \/ UNCHANGED Workflow!vars

\* The handler writes nothing the workflow sees, and what it owes stays the same.
LEMMA QuietKeeps ==
  ASSUME UNCHANGED <<flow, SettledRun, SettledSteps, SettledReviews, SettledSubmissions, SettledNotes>>
  PROVE  Abstractly
BY DEF Abstractly, Workflow!vars

LEMMA FreshKept ==
  ASSUME FreshReviews, UNCHANGED SettledReviews,
         \A s \in Steps : /\ steps'[s].attempt = steps[s].attempt
                          /\ \/ steps'[s].status = steps[s].status
                             \/ steps'[s].status \notin {"WAITING_SUPERVISOR", "WAITING_APPROVAL"}
  PROVE  FreshReviews'
BY DEF FreshReviews

\* While nothing is written and nothing is owed, the mapping is the identity.
Plain(hd) == \/ hd.pc \in {"idle", "checkRun"}
             \/ hd.pc = "write" /\ hd.op \in {"begin", "checklist", "qc"}

MapsToItself ==
  /\ SettledSteps = steps /\ SettledRun = run /\ SettledReviews = reviews
  /\ SettledSubmissions = submissions /\ SettledNotes = notes

LEMMA PlainMaps ==
  ASSUME Handlers = {Only}
  PROVE  Typed /\ Plain(handlers[Only]) => MapsToItself
<1> SUFFICES ASSUME Typed, Plain(handlers[Only]) PROVE MapsToItself
  OBVIOUS
<1>1. MappedPlainly
  BY Mapped
<1>2. submissions \in [Steps -> Nat] /\ reviews \in [Steps -> SUBSET ReviewRow]
  BY DEF Typed, TypeOK
<1> QED
  BY <1>1, <1>2 DEF MappedPlainly, Plain, Owes, MapsToItself, ReviewType

LEMMA PlainMapsNext ==
  ASSUME Handlers = {Only}
  PROVE  Typed' /\ Plain(handlers[Only])' => MapsToItself'
BY PlainMaps, PTL

LEMMA ArriveSerial ==
  ASSUME Handlers = {Only}, Typed, Typed', SerialInv, NEW hd, Arrive(Only, hd),
         Plain(hd), MapsToItself => StillTrue(hd)
  PROVE  SerialInv' /\ Abstractly
<1>1. handlers[Only] = Idle /\ handlers'[Only] = hd /\ UNCHANGED <<flow, run, steps, reviews, submissions, notes>>
  BY DEF Arrive, Typed, TypeOK, db
<1>2. MapsToItself
  BY <1>1, PlainMaps DEF Plain, Idle
<1>3. MapsToItself'
  BY <1>1, PlainMapsNext DEF Plain
<1>4. UNCHANGED <<flow, SettledRun, SettledSteps, SettledReviews, SettledSubmissions, SettledNotes>>
  BY <1>1, <1>2, <1>3 DEF MapsToItself
<1>5. FreshReviews'
  BY <1>1, <1>4, FreshKept DEF SerialInv
<1>6. StillTrue(handlers[Only])'
  BY <1>1, <1>2, <1>4 DEF StillTrue, Inserted
<1> QED
  BY <1>4, <1>5, <1>6, QuietKeeps DEF SerialInv

LEMMA StepRequestSerial ==
  ASSUME Handlers = {Only}, Typed, Typed', SerialInv, NEW s \in Steps,
         \/ BeginStep(Only, s)
         \/ \E i \in Items : UpdateChecklist(Only, s, i)
         \/ SubmitStep(Only, s)
         \/ \E type \in ReviewType, action \in ReviewAction : ReviewStep(Only, s, type, action)
  PROVE  SerialInv' /\ Abstractly
<1>1. CASE BeginStep(Only, s)
  <2> DEFINE hd == Request("begin", s, "none", {})
  <2>1. Plain(hd) /\ StillTrue(hd)
    BY <1>1 DEF BeginStep, Request, Plain, StillTrue, ReviewType
  <2> QED
    BY <1>1, <2>1, ArriveSerial DEF BeginStep
<1>2. ASSUME NEW i \in Items, UpdateChecklist(Only, s, i) PROVE SerialInv' /\ Abstractly
  <2>1. PICK checked \in {steps[s].checked \cup {i}, steps[s].checked \ {i}} :
          Arrive(Only, Request("checklist", s, "none", checked))
    BY <1>2 DEF UpdateChecklist
  <2> DEFINE hd == Request("checklist", s, "none", checked)
  <2>2. Plain(hd) /\ StillTrue(hd)
    BY <1>2 DEF UpdateChecklist, Request, Plain, StillTrue, ReviewType
  <2> QED
    BY <2>1, <2>2, ArriveSerial
<1>3. CASE SubmitStep(Only, s)
  <2> DEFINE hd == Request("submit", s, "none", {})
             unread == {h \in Handlers : handlers[h].pc = "checkRun" /\ handlers[h].op = "submit"
                                           /\ handlers[h].step = s}
  <2>1. handlers[Only] = Idle /\ Arrive(Only, hd) /\ MaySubmit(s)
    BY <1>3 DEF SubmitStep, Arrive
  <2>2. unread = {}
    BY <2>1 DEF Idle
  <2>3. submissions[s] < MaxAttempts
    <3>1. submissions[s] + Cardinality(unread) < MaxAttempts
      BY <2>1 DEF MaySubmit
    <3>2. submissions[s] \in Nat
      BY DEF Typed, TypeOK
    <3> QED
      BY <2>2, <3>1, <3>2, FS_EmptySet
  <2>4. Plain(hd)
    BY DEF Request, Plain
  <2>5. MapsToItself => StillTrue(hd)
    BY <1>3, <2>3 DEF SubmitStep, Request, StillTrue, MapsToItself, ReviewType
  <2> QED
    BY <2>1, <2>4, <2>5, ArriveSerial
<1>4. ASSUME NEW type \in ReviewType, NEW action \in ReviewAction, ReviewStep(Only, s, type, action)
      PROVE  SerialInv' /\ Abstractly
  <2> DEFINE hd == Request(type, s, action, {})
  <2>1. Plain(hd) /\ StillTrue(hd)
    BY <1>4 DEF ReviewStep, Request, Plain, StillTrue, ReviewType
  <2> QED
    BY <1>4, <2>1, ArriveSerial DEF ReviewStep
<1> QED
  BY <1>1, <1>2, <1>3, <1>4

LEMMA QcRequestSerial ==
  ASSUME Handlers = {Only}, Typed, Typed', SerialInv, NEW result, ReviewQc(Only, result)
  PROVE  SerialInv' /\ Abstractly
<1>1. Plain(QcRequest(result)) /\ StillTrue(QcRequest(result))
  BY DEF ReviewQc, QcRequest, Plain, StillTrue, ReviewType
<1> QED
  BY <1>1, ArriveSerial DEF ReviewQc

\* setRunStatus: one read and one write, by a handler that owes nothing.
LEMMA SetRunStatusSerial ==
  ASSUME Handlers = {Only}, Typed, Typed', SerialInv, NEW action \in DOMAIN StatusOf,
         SetRunStatus(Only, action)
  PROVE  SerialInv' /\ Abstractly
<1>1. /\ handlers[Only] = Idle /\ handlers'[Only] = Idle
      /\ run' = [run EXCEPT !.status = StatusOf[action]]
      /\ UNCHANGED <<flow, steps, reviews, submissions, notes>>
  BY DEF SetRunStatus
<1>2. MapsToItself /\ MapsToItself'
  BY <1>1, PlainMaps, PlainMapsNext DEF Plain, Idle
<1>3. Workflow!SetRunStatus(action)
  BY <1>1, <1>2, TypesAgree, RulesAgree DEF Workflow!SetRunStatus, MapsToItself
<1>4. Workflow!Next
  BY <1>3, TypesAgree, RulesAgree DEF Workflow!Next
<1>5. FreshReviews'
  BY <1>1, <1>2, FreshKept DEF SerialInv, MapsToItself
<1>6. StillTrue(handlers[Only])'
  BY <1>1 DEF StillTrue, Idle
<1> QED
  BY <1>4, <1>5, <1>6 DEF SerialInv, Abstractly

\* The handler throws: its request is forgotten.
LEMMA RejectSerial ==
  ASSUME Handlers = {Only}, Typed, Typed', SerialInv, RejectInactive(Only)
  PROVE  SerialInv' /\ Abstractly
<1>1. /\ handlers[Only].pc = "checkRun" /\ handlers'[Only] = Idle
      /\ UNCHANGED <<flow, run, steps, reviews, submissions, notes>>
  BY DEF RejectInactive, Finish, Typed, TypeOK, db
<1>2. MapsToItself /\ MapsToItself'
  BY <1>1, PlainMaps, PlainMapsNext DEF Plain, Idle
<1>3. UNCHANGED <<flow, SettledRun, SettledSteps, SettledReviews, SettledSubmissions, SettledNotes>>
  BY <1>1, <1>2 DEF MapsToItself
<1>4. FreshReviews'
  BY <1>1, <1>3, FreshKept DEF SerialInv
<1>5. StillTrue(handlers[Only])'
  BY <1>1 DEF StillTrue, Idle
<1> QED
  BY <1>3, <1>4, <1>5, QuietKeeps DEF SerialInv

\* The row inserted at checkRun is not visible before the step is written: it is
\* a new one, so taking it away again leaves what was there.
LEMMA CheckRunSerial ==
  ASSUME Handlers = {Only}, Typed, Typed', SerialInv, CheckRun(Only)
  PROVE  SerialInv' /\ Abstractly
<1> DEFINE hd == handlers[Only]
           s == hd.step
<1>1. /\ hd.pc = "checkRun" /\ run.status = "IN_PROGRESS" /\ Goto(Only, "write", "none")
      /\ UNCHANGED <<flow, run, steps, notes>>
  BY DEF CheckRun
<1>2. /\ hd.op \in StepOps /\ s \in Steps /\ submissions \in [Steps -> Nat]
      /\ reviews \in [Steps -> SUBSET ReviewRow]
  BY <1>1 DEF Typed, TypeOK, Shape
<1>3. /\ handlers'[Only].pc = "write" /\ handlers'[Only].op = hd.op /\ handlers'[Only].step = s
      /\ handlers'[Only].action = hd.action /\ handlers'[Only].note = "none"
      /\ handlers'[Only].items = hd.items
  <2>1. hd \in Handler
    BY DEF Typed, TypeOK
  <2> QED
    BY <1>1, <2>1 DEF Goto, Typed, TypeOK, Handler
<1>4. MapsToItself /\ MappedPlainly'
  BY <1>1, PlainMaps, MappedNext DEF Plain
<1>5. /\ SettledSteps' = steps' /\ SettledRun' = run' /\ SettledNotes' = notes'
  BY <1>3, <1>4 DEF MappedPlainly, Owes
<1>6. SettledSubmissions' = submissions
  <2>1. CASE hd.op = "submit"
    <3>1. submissions' = [submissions EXCEPT ![s] = @ + 1]
      BY <2>1 DEF CheckRun, ReviewType
    <3>2. SettledSubmissions' = [t \in Steps |-> IF s = t THEN submissions'[t] - 1 ELSE submissions'[t]]
      BY <1>3, <1>4, <2>1 DEF MappedPlainly
    <3> QED
      BY <1>2, <3>1, <3>2
  <2>2. CASE hd.op # "submit"
    <3>1. submissions' = submissions
      BY <2>2 DEF CheckRun
    <3> QED
      BY <1>2, <1>3, <1>4, <2>2, <3>1 DEF MappedPlainly
  <2> QED
    BY <2>1, <2>2
<1>7. /\ SettledReviews' = reviews
      /\ hd.op \in ReviewType => Inserted(hd) \in reviews'[s]
  <2>1. CASE hd.op \in ReviewType
    <3>1. reviews' = [reviews EXCEPT ![s] = @ \cup {Inserted(hd)}]
      BY <2>1 DEF CheckRun, Inserted, ReviewType
    <3>2. Inserted(hd) \notin reviews[s]
      <4>1. steps[s].status = AwaitedStatus[hd.op]
        BY <1>1, <2>1 DEF SerialInv, StillTrue
      <4>2. hd.op = "SUPERVISOR" \/ (hd.op = "APPROVER" /\ Inserted(hd).type = "APPROVER")
        BY <2>1 DEF ReviewType, Inserted
      <4>3. Inserted(hd).attempt = steps[s].attempt
        BY DEF Inserted
      <4> QED
        BY <1>2, <1>4, <4>1, <4>2, <4>3 DEF SerialInv, FreshReviews, MapsToItself, AwaitedStatus
    <3>3. SettledReviews' = [t \in Steps |-> IF s = t THEN reviews'[t] \ {Inserted(hd)} ELSE reviews'[t]]
      BY <1>1, <1>3, <1>4, <2>1 DEF MappedPlainly, Inserted
    <3> QED
      BY <1>2, <3>1, <3>2, <3>3
  <2>2. CASE hd.op \notin ReviewType
    <3>1. reviews' = reviews
      BY <2>2 DEF CheckRun
    <3> QED
      BY <1>2, <1>3, <1>4, <2>2, <3>1 DEF MappedPlainly
  <2> QED
    BY <2>1, <2>2
<1>8. UNCHANGED <<flow, SettledRun, SettledSteps, SettledReviews, SettledSubmissions, SettledNotes>>
  BY <1>1, <1>4, <1>5, <1>6, <1>7 DEF MapsToItself
<1>9. FreshReviews'
  BY <1>1, <1>8, FreshKept DEF SerialInv
<1>10. StillTrue(handlers[Only])'
  <2>1. StillTrue(hd)
    BY DEF SerialInv
  <2> QED
    BY <1>1, <1>2, <1>3, <1>7, <1>8, <2>1 DEF StillTrue, StepOps, Inserted, ReviewType
<1> QED
  BY <1>8, <1>9, <1>10, QuietKeeps DEF SerialInv

\* The notification counted as sent when it was due; so did the advance after it.
LEMMA NotifySerial ==
  ASSUME Handlers = {Only}, Typed, Typed', SerialInv, Notify(Only)
  PROVE  SerialInv' /\ Abstractly
<1> DEFINE hd == handlers[Only]
<1>1. /\ hd.pc = "notify" /\ notes' = notes \cup {<<hd.note, hd.step>>}
      /\ UNCHANGED <<flow, run, steps, reviews, submissions>>
  BY DEF Notify
<1>2. MappedPlainly /\ MappedPlainly'
  BY Mapped, MappedNext
<1>3. \/ Owes(hd) /\ handlers'[Only].pc = "advance" /\ handlers'[Only].step = hd.step
      \/ ~Owes(hd) /\ handlers'[Only].pc = "idle"
  <2>1. CASE hd.note = "STEP_APPROVED"
    <3>1. Goto(Only, "advance", "none")
      BY <2>1 DEF Notify
    <3> QED
      BY <1>1, <2>1, <3>1, GotoFields DEF Owes
  <2>2. CASE hd.note # "STEP_APPROVED"
    BY <1>1, <2>2 DEF Notify, Finish, Idle, Owes, Typed, TypeOK
  <2> QED
    BY <2>1, <2>2
<1>4. UNCHANGED <<SettledReviews, SettledSubmissions>>
  BY <1>1, <1>2, <1>3 DEF MappedPlainly
<1>5. UNCHANGED <<SettledRun, SettledSteps, SettledNotes>>
  <2>1. CASE Owes(hd)
    <3>1. Owes(handlers[Only])' /\ handlers'[Only].pc = "advance" /\ handlers'[Only].step = hd.step
      BY <1>3, <2>1 DEF Owes
    <3> QED
      BY <1>1, <1>2, <2>1, <3>1 DEF MappedPlainly
  <2>2. CASE ~Owes(hd)
    <3>1. ~Owes(handlers[Only])' /\ handlers'[Only].pc = "idle"
      BY <1>3, <2>2 DEF Owes
    <3> QED
      BY <1>1, <1>2, <2>2, <3>1 DEF MappedPlainly
  <2> QED
    BY <2>1, <2>2
<1>6. FreshReviews'
  BY <1>1, <1>4, FreshKept DEF SerialInv
<1>7. StillTrue(handlers[Only])'
  BY <1>3 DEF StillTrue
<1> QED
  BY <1>1, <1>4, <1>5, <1>6, <1>7, QuietKeeps DEF SerialInv

\* The advance was already counted with the write that completed the step.
LEMMA AdvanceSerial ==
  ASSUME Handlers = {Only}, Typed, Typed', SerialInv, AdvanceRun(Only)
  PROVE  SerialInv' /\ Abstractly
<1> DEFINE hd == handlers[Only]
           s == hd.step
           due == AdvanceNotes(run, s)
<1>1. /\ hd.pc = "advance" /\ steps' = StepsAdvanced(steps, s) /\ run' = RunAdvanced(run, s)
      /\ UNCHANGED <<flow, reviews, submissions, notes>>
  BY DEF AdvanceRun
<1>2. MappedPlainly /\ MappedPlainly' /\ Owes(hd)
  BY <1>1, Mapped, MappedNext DEF Owes
<1>3. \/ due = {} /\ handlers'[Only].pc = "idle"
      \/ /\ handlers'[Only].pc = "notify" /\ handlers'[Only].note # "STEP_APPROVED"
         /\ due = {<<handlers'[Only].note, handlers'[Only].step>>}
  <2>1. CASE due = {} /\ Finish(Only)
    BY <2>1 DEF Finish, Idle, Typed, TypeOK
  <2>2. ASSUME NEW note \in due,
               handlers' = [handlers EXCEPT ![Only].pc = "notify", ![Only].note = note[1],
                                            ![Only].step = note[2]]
        PROVE  /\ handlers'[Only].pc = "notify" /\ handlers'[Only].note # "STEP_APPROVED"
               /\ due = {<<handlers'[Only].note, handlers'[Only].step>>}
    <3>1. hd \in Handler /\ handlers \in [Handlers -> Handler]
      BY DEF Typed, TypeOK
    <3>2. handlers'[Only].pc = "notify" /\ handlers'[Only].note = note[1] /\ handlers'[Only].step = note[2]
      BY <2>2, <3>1 DEF Handler
    <3>3. \/ note = <<"STEP_ASSIGNED", s + 1>> /\ due = {<<"STEP_ASSIGNED", s + 1>>}
          \/ note = <<"QC_PENDING", NoStep>> /\ due = {<<"QC_PENDING", NoStep>>}
      BY DEF AdvanceNotes
    <3> QED
      BY <3>2, <3>3
  <2> QED
    BY <2>1, <2>2 DEF AdvanceRun
<1>4. ~Owes(handlers[Only])' /\ handlers'[Only].pc # "write"
  BY <1>3 DEF Owes
<1>5. UNCHANGED <<SettledReviews, SettledSubmissions>>
  BY <1>1, <1>2, <1>4 DEF MappedPlainly
<1>6. UNCHANGED <<SettledRun, SettledSteps>>
  BY <1>1, <1>2, <1>4 DEF MappedPlainly
<1>7. UNCHANGED SettledNotes
  <2>1. SettledNotes = notes \cup due
    BY <1>1, <1>2 DEF MappedPlainly
  <2>2. SettledNotes' = notes \cup (IF handlers'[Only].pc = "notify"
                                   THEN {<<handlers'[Only].note, handlers'[Only].step>>} ELSE {})
    BY <1>1, <1>2, <1>4 DEF MappedPlainly
  <2> QED
    BY <1>3, <2>1, <2>2
<1>8. FreshReviews'
  <2>1. ASSUME NEW t \in Steps
        PROVE  /\ steps'[t].attempt = steps[t].attempt
               /\ \/ steps'[t].status = steps[t].status
                  \/ steps'[t].status \notin {"WAITING_SUPERVISOR", "WAITING_APPROVAL"}
    BY <1>1 DEF StepsAdvanced, Typed, TypeOK, StepRow
  <2> QED
    BY <1>5, <2>1, FreshKept DEF SerialInv
<1>9. StillTrue(handlers[Only])'
  BY <1>3 DEF StillTrue
<1> QED
  BY <1>1, <1>5, <1>6, <1>7, <1>8, <1>9, QuietKeeps DEF SerialInv

\* The verdict takes effect in one transaction; the notification is owed.
LEMMA WriteQcSerial ==
  ASSUME Handlers = {Only}, Typed, Typed', SerialInv, WriteQc(Only)
  PROVE  SerialInv' /\ Abstractly
<1> DEFINE hd == handlers[Only]
           note == IF hd.action = "PASSED" THEN "QC_PASSED" ELSE "QC_FAILED"
<1>1. /\ hd.pc = "write" /\ hd.op = "qc" /\ Goto(Only, "notify", note)
      /\ run' = RunAfterQc(run, hd.action) /\ steps' = StepsAfterQc(steps, hd.action)
      /\ UNCHANGED <<flow, reviews, submissions, notes>>
  BY DEF WriteQc
<1>2. hd.action \in {"PASSED", "FAILED"} /\ QcDue(run) /\ hd.step = NoStep
  BY <1>1 DEF SerialInv, StillTrue, Typed, Shape, StepOps, ReviewType
<1>3. handlers'[Only].pc = "notify" /\ handlers'[Only].note = note /\ handlers'[Only].step = NoStep
  BY <1>1, <1>2, GotoFields
<1>4. MapsToItself /\ MappedPlainly'
  BY <1>1, PlainMaps, MappedNext DEF Plain
<1>5. ~Owes(handlers[Only])'
  BY <1>3 DEF Owes
<1>6. UNCHANGED <<SettledReviews, SettledSubmissions>>
  <2>1. submissions \in [Steps -> Nat] /\ reviews \in [Steps -> SUBSET ReviewRow]
    BY DEF Typed, TypeOK
  <2> QED
    BY <1>1, <1>3, <1>4, <2>1 DEF MappedPlainly, MapsToItself
<1>7. /\ SettledRun' = RunAfterQc(SettledRun, hd.action)
      /\ SettledSteps' = StepsAfterQc(SettledSteps, hd.action)
      /\ SettledNotes' = SettledNotes \cup {<<note, NoStep>>}
  BY <1>1, <1>3, <1>4, <1>5 DEF MappedPlainly, MapsToItself
<1>8. Workflow!Qc(hd.action)
  BY <1>1, <1>2, <1>4, <1>6, <1>7, TypesAgree, RulesAgree DEF Workflow!Qc, MapsToItself
<1>9. Workflow!Next
  BY <1>2, <1>8 DEF Workflow!Next
<1>10. FreshReviews'
  <2>1. ASSUME NEW t \in Steps
        PROVE  /\ steps'[t].attempt = steps[t].attempt
               /\ \/ steps'[t].status = steps[t].status
                  \/ steps'[t].status \notin {"WAITING_SUPERVISOR", "WAITING_APPROVAL"}
    BY <1>1, StepsFacts DEF StepsAfterQc, Typed, TypeOK, StepRow
  <2> QED
    BY <1>6, <2>1, FreshKept DEF SerialInv
<1>11. StillTrue(handlers[Only])'
  BY <1>3 DEF StillTrue
<1> QED
  BY <1>9, <1>10, <1>11 DEF SerialInv, Abstractly

\* The write of a step, as the workflow sees it before what the row brings about.
LEMMA WriteStepFacts ==
  ASSUME Handlers = {Only}, Typed, Typed', SerialInv, WriteStep(Only)
  PROVE  LET hd == handlers[Only]  s == hd.step  row == Written(hd) IN
         /\ hd.op \in StepOps /\ s \in Steps /\ row \in StepRow
         /\ SettledRun = run /\ SettledSteps = steps /\ SettledNotes = notes
         /\ run.status = "IN_PROGRESS" /\ UNCHANGED <<flow, run, reviews, submissions, notes>>
         /\ steps' = [SettledSteps EXCEPT ![s] = row]
         /\ SettledSubmissions' = submissions /\ SettledReviews' = reviews
         /\ hd.op # "submit" => SettledSubmissions = submissions
         /\ hd.op = "submit" => submissions = [SettledSubmissions EXCEPT ![s] = @ + 1]
         /\ hd.op \notin ReviewType => SettledReviews = reviews
         /\ hd.op \in ReviewType => reviews = [SettledReviews EXCEPT ![s] = @ \cup {Inserted(hd)}]
         /\ handlers'[Only].pc \notin {"checkRun", "write"} /\ MappedPlainly' /\ StillTrue(hd)
<1> DEFINE hd == handlers[Only]
           s == hd.step
           row == Written(hd)
<1>1. /\ hd.pc = "write" /\ hd.op # "qc" /\ AfterWrite(Only, row)
      /\ steps' = [steps EXCEPT ![s] = row]
      /\ UNCHANGED <<flow, run, reviews, submissions, notes>>
  BY DEF WriteStep
<1>2. hd.op \in StepOps /\ s \in Steps /\ row \in StepRow
  BY <1>1, WrittenFacts
<1> HIDE DEF row
<1>3. StillTrue(hd) /\ run.status = "IN_PROGRESS"
  BY <1>1 DEF SerialInv, StillTrue
<1>4. MappedPlainly /\ MappedPlainly' /\ ~Owes(hd)
  BY <1>1, Mapped, MappedNext DEF Owes
<1>5. handlers'[Only].pc \notin {"checkRun", "write"}
  <2>1. CASE Finish(Only)
    BY <2>1 DEF Finish, Idle, Typed, TypeOK
  <2>2. CASE \E pc \in {"advance", "notify"} : \E note : Goto(Only, pc, note)
    <3>1. PICK pc \in {"advance", "notify"} : \E note : Goto(Only, pc, note)
      BY <2>2
    <3> QED
      BY <3>1, GotoFields
  <2> QED
    BY <1>1, <2>1, <2>2 DEF AfterWrite
<1>6. submissions \in [Steps -> Nat] /\ reviews \in [Steps -> SUBSET ReviewRow]
  BY DEF Typed, TypeOK
<1>7. SettledRun = run /\ SettledSteps = steps /\ SettledNotes = notes
  BY <1>1, <1>4 DEF MappedPlainly
<1>8. SettledSubmissions' = submissions /\ SettledReviews' = reviews
  BY <1>1, <1>4, <1>5, <1>6 DEF MappedPlainly
<1>9. /\ hd.op # "submit" => SettledSubmissions = submissions
      /\ hd.op = "submit" => submissions = [SettledSubmissions EXCEPT ![s] = @ + 1]
  BY <1>1, <1>2, <1>4, <1>6 DEF MappedPlainly
<1>10. /\ hd.op \notin ReviewType => SettledReviews = reviews
       /\ hd.op \in ReviewType => reviews = [SettledReviews EXCEPT ![s] = @ \cup {Inserted(hd)}]
  <2>1. CASE hd.op \notin ReviewType
    BY <1>4, <1>6, <2>1 DEF MappedPlainly
  <2>2. CASE hd.op \in ReviewType
    <3>1. Inserted(hd) \in reviews[s]
      BY <1>1, <1>3, <2>2 DEF StillTrue
    <3>2. SettledReviews = [t \in Steps |-> IF s = t THEN reviews[t] \ {Inserted(hd)} ELSE reviews[t]]
      BY <1>1, <1>4, <2>2 DEF MappedPlainly
    <3>3. SettledReviews[s] \cup {Inserted(hd)} = reviews[s]
      BY <1>2, <3>1, <3>2
    <3>4. \A t \in Steps : t # s => SettledReviews[t] = reviews[t]
      BY <3>2
    <3>5. SettledReviews = [t \in Steps |-> SettledReviews[t]] /\ reviews = [t \in Steps |-> reviews[t]]
      BY <1>6, <3>2
    <3> QED
      BY <1>2, <2>2, <3>3, <3>4, <3>5
  <2> QED
    BY <2>1, <2>2
<1> QED
  BY <1>1, <1>2, <1>3, <1>4, <1>5, <1>7, <1>8, <1>9, <1>10 DEF row

\* Once a step is written the handler owes what the workflow does at the same time:
\* it moves a COMPLETED step's run on and notifies.
LEMMA Settles ==
  ASSUME Handlers = {Only}, NEW s \in Steps, NEW row, NEW note,
         SettledRun = run, SettledSteps = steps, SettledNotes = notes,
         UNCHANGED <<run, notes>>, steps' = [SettledSteps EXCEPT ![s] = row], MappedPlainly',
         handlers'[Only].step = s,
         \/ /\ row.status = "COMPLETED" /\ Owes(handlers[Only])'
            /\ note = IF handlers'[Only].pc = "notify" THEN {<<handlers'[Only].note, s>>} ELSE {}
         \/ /\ row.status # "COMPLETED" /\ ~Owes(handlers[Only])'
            /\ handlers'[Only].pc = "notify" /\ note = {<<handlers'[Only].note, s>>}
  PROVE  Workflow!Settle(s, row, note)
<1>1. CASE row.status = "COMPLETED"
  <2>1. SettledSteps' = StepsAdvanced([SettledSteps EXCEPT ![s] = row], s)
    BY <1>1 DEF MappedPlainly
  <2>2. SettledRun' = RunAdvanced(SettledRun, s)
    BY <1>1 DEF MappedPlainly
  <2>3. SettledNotes' = SettledNotes \cup note \cup AdvanceNotes(SettledRun, s)
    BY <1>1 DEF MappedPlainly
  <2> QED
    BY <1>1, <2>1, <2>2, <2>3, TypesAgree, RulesAgree DEF Workflow!Settle
<1>2. CASE row.status # "COMPLETED"
  <2>1. SettledSteps' = [SettledSteps EXCEPT ![s] = row] /\ SettledRun' = SettledRun
    BY <1>2 DEF MappedPlainly
  <2>2. SettledNotes' = SettledNotes \cup note
    BY <1>2 DEF MappedPlainly
  <2> QED
    BY <1>2, <2>1, <2>2 DEF Workflow!Settle
<1> QED
  BY <1>1, <1>2

\* beginStep and updateChecklist end with the write.
LEMMA WriteEditSerial ==
  ASSUME Handlers = {Only}, Typed, Typed', SerialInv, WriteStep(Only),
         handlers[Only].op \in {"begin", "checklist"}
  PROVE  SerialInv' /\ Workflow!Next
<1> DEFINE hd == handlers[Only]
           s == hd.step
           row == Written(hd)
<1>1. /\ s \in Steps /\ run.status = "IN_PROGRESS" /\ StillTrue(hd) /\ hd.pc = "write"
      /\ SettledRun = run /\ SettledSteps = steps /\ SettledNotes = notes
      /\ SettledSubmissions = submissions /\ SettledReviews = reviews
      /\ SettledSubmissions' = submissions /\ SettledReviews' = reviews
      /\ UNCHANGED <<flow, run, notes>> /\ steps' = [SettledSteps EXCEPT ![s] = row]
  BY WriteStepFacts DEF WriteStep, ReviewType
<1>2. handlers'[Only] = Idle
  BY DEF WriteStep, AfterWrite, ReviewType, Finish, Typed, TypeOK
<1>3. SettledRun' = run' /\ SettledSteps' = steps' /\ SettledNotes' = notes'
  BY <1>2, PlainMapsNext DEF Plain, Idle, MapsToItself
<1>4. steps[s] \in StepRow /\ steps \in [Steps -> StepRow]
  BY <1>1 DEF Typed, TypeOK
<1>5. CASE hd.op = "begin"
  <2>1. row = Begun(steps[s]) /\ steps[s].status \in Startable
    BY <1>1, <1>5 DEF Written, StillTrue
  <2>2. Workflow!Begin(s)
    BY <1>1, <1>3, <2>1, TypesAgree, RulesAgree DEF Workflow!Begin, Workflow!Active
  <2>3. Workflow!Next
    BY <1>1, <2>2, TypesAgree, RulesAgree DEF Workflow!Next
  <2>4. FreshReviews'
    <3>1. ASSUME NEW t \in Steps
          PROVE  /\ steps'[t].attempt = steps[t].attempt
                 /\ \/ steps'[t].status = steps[t].status
                    \/ steps'[t].status \notin {"WAITING_SUPERVISOR", "WAITING_APPROVAL"}
      BY <1>1, <1>4, <2>1 DEF Begun, StepRow
    <3> QED
      BY <1>1, <3>1, FreshKept DEF SerialInv
  <2> QED
    BY <1>2, <2>3, <2>4 DEF SerialInv, StillTrue, Idle
<1>6. CASE hd.op = "checklist"
  <2>1. /\ row = [steps[s] EXCEPT !.checked = hd.items] /\ steps[s].status \in Editable
        /\ \E i \in Items : hd.items \in {steps[s].checked \cup {i}, steps[s].checked \ {i}}
    BY <1>1, <1>6 DEF Written, StillTrue
  <2>2. PICK i \in Items : hd.items \in {steps[s].checked \cup {i}, steps[s].checked \ {i}}
    BY <2>1
  <2>3. SettledSteps' = [SettledSteps EXCEPT ![s].checked = hd.items]
    BY <1>1, <1>3, <2>1
  <2>4. Workflow!Check(s, i)
    BY <1>1, <1>3, <2>1, <2>2, <2>3, TypesAgree, RulesAgree DEF Workflow!Check, Workflow!Active
  <2>5. Workflow!Next
    BY <1>1, <2>4, TypesAgree, RulesAgree DEF Workflow!Next
  <2>6. FreshReviews'
    <3>1. ASSUME NEW t \in Steps
          PROVE  steps'[t].attempt = steps[t].attempt /\ steps'[t].status = steps[t].status
      BY <1>1, <1>4, <2>1 DEF StepRow
    <3> QED
      BY <1>1, <3>1, FreshKept DEF SerialInv
  <2> QED
    BY <1>2, <2>5, <2>6 DEF SerialInv, StillTrue, Idle
<1> QED
  BY <1>5, <1>6

\* Where submitStep and reviewStep go after the write, and what they then owe.
LEMMA AfterWriteSettles ==
  ASSUME Handlers = {Only}, Typed, Typed', SerialInv, WriteStep(Only),
         handlers[Only].op \in ReviewType \cup {"submit"}
  PROVE  LET hd == handlers[Only]  row == Written(hd) IN
         Workflow!Settle(hd.step, row,
           IF row.status # "COMPLETED" THEN {<<row.status, hd.step>>}
           ELSE IF hd.op = "submit" THEN {} ELSE {<<"STEP_APPROVED", hd.step>>})
<1> DEFINE hd == handlers[Only]
           row == Written(hd)
           note == IF row.status # "COMPLETED" THEN {<<row.status, hd.step>>}
                   ELSE IF hd.op = "submit" THEN {} ELSE {<<"STEP_APPROVED", hd.step>>}
<1>1. /\ hd.step \in Steps /\ SettledRun = run /\ SettledSteps = steps /\ SettledNotes = notes
      /\ UNCHANGED <<run, notes>> /\ steps' = [SettledSteps EXCEPT ![hd.step] = row] /\ MappedPlainly'
  BY WriteStepFacts
<1>2. AfterWrite(Only, row)
  BY DEF WriteStep
<1>3. row.status # "STEP_APPROVED"
  <2>1. row.status \in StepStatus
    BY WriteStepFacts DEF StepRow
  <2> QED
    BY <2>1 DEF StepStatus
<1> HIDE DEF row
<1>4. \/ row.status = "COMPLETED" /\ hd.op = "submit" /\ Goto(Only, "advance", "none")
      \/ row.status = "COMPLETED" /\ hd.op # "submit" /\ Goto(Only, "notify", "STEP_APPROVED")
      \/ row.status # "COMPLETED" /\ Goto(Only, "notify", row.status)
  BY <1>2 DEF AfterWrite, ReviewType
<1>5. /\ handlers'[Only].step = hd.step
      /\ \/ /\ row.status = "COMPLETED" /\ hd.op = "submit" /\ handlers'[Only].pc = "advance"
         \/ /\ row.status = "COMPLETED" /\ hd.op # "submit" /\ handlers'[Only].pc = "notify"
            /\ handlers'[Only].note = "STEP_APPROVED"
         \/ /\ row.status # "COMPLETED" /\ handlers'[Only].pc = "notify"
            /\ handlers'[Only].note = row.status
  BY <1>4, GotoFields
<1>6. Workflow!Settle(hd.step, row, note)
  BY <1>1, <1>3, <1>5, Settles DEF Owes
<1> QED
  BY <1>6 DEF row

\* submitStep: the submission becomes an attempt of its step.
LEMMA WriteSubmitSerial ==
  ASSUME Handlers = {Only}, Typed, Typed', SerialInv, WriteStep(Only), handlers[Only].op = "submit"
  PROVE  SerialInv' /\ Workflow!Next
<1> DEFINE hd == handlers[Only]
           s == hd.step
           row == Written(hd)
<1>1. /\ s \in Steps /\ run.status = "IN_PROGRESS" /\ StillTrue(hd) /\ hd.pc = "write"
      /\ SettledRun = run /\ SettledSteps = steps
      /\ SettledSubmissions' = [SettledSubmissions EXCEPT ![s] = @ + 1]
      /\ SettledReviews' = SettledReviews /\ SettledReviews = reviews
      /\ UNCHANGED <<flow, run, notes>> /\ steps' = [steps EXCEPT ![s] = row]
      /\ handlers'[Only].pc \notin {"checkRun", "write"}
  BY WriteStepFacts DEF WriteStep, ReviewType
<1>2. row = Submitted(steps[s], flow, s)
  BY DEF Written
<1>3. /\ steps[s].status \in Editable /\ steps[s].checked = Items
      /\ SettledSubmissions[s] < MaxAttempts
  BY <1>1 DEF StillTrue
<1>4. row.status = AfterSubmit(flow, s) /\ row.attempt = steps[s].attempt + 1
  BY <1>2 DEF Submitted
<1> HIDE DEF row
<1>5. Workflow!Settle(s, row, Workflow!SubmitNote(flow, s))
  <2>1. Workflow!Settle(s, row, IF row.status # "COMPLETED" THEN {<<row.status, s>>} ELSE {})
    BY AfterWriteSettles DEF row
  <2>2. Workflow!SubmitNote(flow, s) = IF row.status # "COMPLETED" THEN {<<row.status, s>>} ELSE {}
    BY <1>4, TypesAgree, RulesAgree DEF Workflow!SubmitNote
  <2> QED
    BY <2>1, <2>2
<1>6. Workflow!Submit(s)
  BY <1>1, <1>2, <1>3, <1>5, TypesAgree, RulesAgree, RowsAgree DEF Workflow!Submit, Workflow!Active
<1>7. Workflow!Next
  BY <1>1, <1>6, TypesAgree, RulesAgree DEF Workflow!Next
<1>8. FreshReviews'
  <2>1. steps \in [Steps -> StepRow] /\ reviews \in [Steps -> SUBSET ReviewRow]
    BY DEF Typed, TypeOK
  <2>2. steps[s].attempt \in Nat /\ steps'[s] = row /\ \A t \in Steps : t # s => steps'[t] = steps[t]
    BY <1>1, <2>1 DEF StepRow
  <2>3. \A r \in reviews[s] : r.attempt \in Nat /\ r.attempt <= steps[s].attempt
    BY <1>1, <2>1 DEF SerialInv, FreshReviews, ReviewRow
  <2>4. \A r \in reviews[s] : r.attempt <= row.attempt /\ r.attempt # row.attempt
    BY <1>4, <2>2, <2>3
  <2> QED
    BY <1>1, <2>2, <2>4 DEF SerialInv, FreshReviews
<1> QED
  BY <1>1, <1>7, <1>8 DEF SerialInv, StillTrue

\* reviewStep: the review becomes visible with the step it decides.
LEMMA WriteReviewSerial ==
  ASSUME Handlers = {Only}, Typed, Typed', SerialInv, WriteStep(Only), handlers[Only].op \in ReviewType
  PROVE  SerialInv' /\ Workflow!Next
<1> DEFINE hd == handlers[Only]
           s == hd.step
           row == Written(hd)
<1>1. /\ s \in Steps /\ run.status = "IN_PROGRESS" /\ StillTrue(hd) /\ hd.pc = "write"
      /\ SettledRun = run /\ SettledSteps = steps
      /\ SettledSubmissions' = SettledSubmissions
      /\ SettledReviews' = [SettledReviews EXCEPT ![s] = @ \cup {Inserted(hd)}]
      /\ UNCHANGED <<flow, run, notes>> /\ steps' = [steps EXCEPT ![s] = row]
      /\ handlers'[Only].pc \notin {"checkRun", "write"} /\ hd.op # "submit" /\ hd.action \in ReviewAction
  BY WriteStepFacts, WrittenFacts DEF WriteStep, ReviewType, ReviewAction
<1>2. row = Reviewed(steps[s], flow, s, hd.op, hd.action)
  BY DEF Written, ReviewType
<1>3. steps[s].status = AwaitedStatus[hd.op]
  BY <1>1 DEF StillTrue
<1>4. /\ row.attempt = steps[s].attempt
      /\ hd.action = "REJECTED" => row.status = "NEEDS_REVISION"
      /\ hd.action # "REJECTED" => row.status = AfterApproval(flow, s, hd.op)
  BY <1>1, WrittenFacts DEF ReviewAction, ReviewType
<1> HIDE DEF row
<1>5. Workflow!Settle(s, row, Workflow!ReviewNote(flow, s, hd.op, hd.action))
  <2> DEFINE note == IF row.status # "COMPLETED" THEN {<<row.status, s>>} ELSE {<<"STEP_APPROVED", s>>}
  <2>1. Workflow!Settle(s, row, note)
    BY <1>1, AfterWriteSettles DEF row
  <2>2. Workflow!ReviewNote(flow, s, hd.op, hd.action) = note
    BY <1>4, TypesAgree, RulesAgree DEF Workflow!ReviewNote, AfterApproval
  <2> QED
    BY <2>1, <2>2
<1>6. Workflow!Review(s, hd.op, hd.action)
  BY <1>1, <1>2, <1>3, <1>5, TypesAgree, RulesAgree, RowsAgree
  DEF Workflow!Review, Workflow!Active, Inserted
<1>7. Workflow!Next
  BY <1>1, <1>6, TypesAgree, RulesAgree DEF Workflow!Next
<1>8. FreshReviews'
  <2>1. steps \in [Steps -> StepRow] /\ reviews \in [Steps -> SUBSET ReviewRow]
    BY DEF Typed, TypeOK
  <2>2. /\ steps[s].attempt \in Nat /\ steps'[s] = row
        /\ \A t \in Steps : t # s => steps'[t] = steps[t]
    BY <1>1, <2>1 DEF StepRow
  <2>3. /\ DOMAIN SettledReviews = Steps
        /\ SettledReviews'[s] = SettledReviews[s] \cup {Inserted(hd)}
        /\ \A t \in Steps : t # s => SettledReviews'[t] = SettledReviews[t]
    BY <1>1 DEF SettledReviews
  <2>4. Inserted(hd).attempt = row.attempt /\ Inserted(hd).type = hd.op /\ row.attempt \in Nat
    BY <1>4, <2>2 DEF Inserted
  <2>5. \A r \in SettledReviews'[s] :
          /\ r.attempt <= row.attempt
          /\ row.status = "WAITING_SUPERVISOR" => r.attempt # row.attempt
          /\ row.status = "WAITING_APPROVAL" /\ r.type = "APPROVER" => r.attempt # row.attempt
    <3>1. row.status # "WAITING_SUPERVISOR"
      BY <1>4 DEF AfterApproval
    <3>2. row.status = "WAITING_APPROVAL" => hd.op = "SUPERVISOR"
      BY <1>4 DEF AfterApproval
    <3>3. \A r \in SettledReviews[s] :
            /\ r.attempt <= row.attempt
            /\ hd.op = "SUPERVISOR" => r.attempt # row.attempt
      BY <1>1, <1>3, <1>4 DEF SerialInv, FreshReviews, AwaitedStatus
    <3> QED
      BY <2>3, <2>4, <3>1, <3>2, <3>3
  <2> QED
    BY <2>2, <2>3, <2>5 DEF SerialInv, FreshReviews
<1> QED
  BY <1>1, <1>7, <1>8 DEF SerialInv, StillTrue

-----------------------------------------------------------------------------
(* The refinement. *)

LEMMA InitSerial ==
  ASSUME Handlers = {Only}
  PROVE  Init => SerialInv /\ Workflow!Init
<1> SUFFICES ASSUME Init PROVE SerialInv /\ Workflow!Init
  OBVIOUS
<1>1. handlers[Only] = Starting
  BY DEF Init
<1>2. MappedPlainly
  BY InitTypes, Mapped
<1>3. /\ SettledSteps = steps /\ SettledRun = run /\ SettledReviews = reviews
      /\ SettledSubmissions = submissions /\ SettledNotes = {<<"STEP_ASSIGNED", 1>>}
  BY <1>1, <1>2 DEF MappedPlainly, Init, Owes, Starting
<1>4. Workflow!Init
  BY <1>3, TypesAgree, RulesAgree DEF Init, Workflow!Init
<1>5. FreshReviews /\ StillTrue(handlers[Only])
  BY <1>1, <1>3 DEF Init, FreshReviews, StillTrue, Starting
<1> QED
  BY <1>4, <1>5 DEF SerialInv

LEMMA StutterSerial ==
  ASSUME SerialInv, UNCHANGED vars
  PROVE  SerialInv' /\ Abstractly
<1>1. UNCHANGED <<flow, SettledRun, SettledSteps, SettledReviews, SettledSubmissions, SettledNotes>>
  BY DEF vars, SettledRun, SettledSteps, SettledReviews, SettledSubmissions, SettledNotes,
     Advancing, InFlight, Unwritten
<1>2. FreshReviews'
  BY <1>1, FreshKept DEF SerialInv, vars
<1>3. StillTrue(handlers[Only])'
  BY <1>1 DEF SerialInv, StillTrue, Inserted, vars
<1> QED
  BY <1>1, <1>2, <1>3, QuietKeeps DEF SerialInv

LEMMA NextSerial ==
  ASSUME Handlers = {Only}, MaxFaults = 0
  PROVE  Typed /\ SerialInv /\ faults = 0 /\ [Next]_vars
           => SerialInv' /\ faults' = 0 /\ [Workflow!Next]_(Workflow!vars)
<1> SUFFICES ASSUME Typed, SerialInv, faults = 0, [Next]_vars
             PROVE  SerialInv' /\ faults' = 0 /\ Abstractly
  BY DEF Abstractly
<1>1. Typed'
  BY NextTypes
<1>2. ASSUME NEW s \in Steps,
             \/ BeginStep(Only, s)
             \/ \E i \in Items : UpdateChecklist(Only, s, i)
             \/ SubmitStep(Only, s)
             \/ \E type \in ReviewType, action \in ReviewAction : ReviewStep(Only, s, type, action)
      PROVE  SerialInv' /\ faults' = 0 /\ Abstractly
  <2>1. UNCHANGED faults
    BY <1>2 DEF BeginStep, UpdateChecklist, SubmitStep, ReviewStep, Arrive
  <2> QED
    BY <1>1, <1>2, <2>1, StepRequestSerial
<1>3. ASSUME NEW result \in {"PASSED", "FAILED"}, ReviewQc(Only, result)
      PROVE  SerialInv' /\ faults' = 0 /\ Abstractly
  BY <1>1, <1>3, QcRequestSerial DEF ReviewQc, Arrive
<1>4. ASSUME NEW action \in DOMAIN StatusOf, SetRunStatus(Only, action)
      PROVE  SerialInv' /\ faults' = 0 /\ Abstractly
  BY <1>1, <1>4, SetRunStatusSerial DEF SetRunStatus
<1>5. CASE WriteStep(Only)
  <2>1. handlers[Only].op \in StepOps /\ UNCHANGED faults
    BY <1>1, <1>5, WriteStepFacts DEF WriteStep
  <2> QED
    BY <1>1, <1>5, <2>1, WriteEditSerial, WriteSubmitSerial, WriteReviewSerial
    DEF StepOps, Abstractly
<1>6. CASE Progress(Only) /\ ~WriteStep(Only)
  <2>1. UNCHANGED faults
    BY <1>6 DEF Progress, CheckRun, RejectInactive, WriteQc, Notify, AdvanceRun
  <2> QED
    BY <1>1, <1>6, <2>1, CheckRunSerial, RejectSerial, WriteQcSerial, NotifySerial, AdvanceSerial
    DEF Progress
<1>7. ~Die(Only)
  BY DEF Die
<1>8. CASE UNCHANGED vars
  BY <1>8, StutterSerial DEF vars
<1> QED
  BY <1>2, <1>3, <1>4, <1>5, <1>6, <1>7, <1>8 DEF Next

\* One request at a time and no handler dying, the cut handlers of the code do what
\* the atomic workflow allows, whatever the number of steps, the flows and the
\* attempts: the awaits add no behaviour of their own, only overlap does.
THEOREM SerialImplementsWorkflow ==
  ASSUME \A h, k \in Handlers : h = k, MaxFaults = 0
  PROVE  Spec => ImplementsWorkflow
<1>1. CASE Handlers = {}
  <2>1. Init => FALSE
    BY <1>1 DEF Init
  <2> QED
    BY <2>1, PTL DEF Spec
<1>2. CASE Handlers # {}
  <2>1. Handlers = {Only}
    BY <1>2 DEF Only
  <2> DEFINE Inv == Typed /\ SerialInv /\ faults = 0
  <2>2. Init => Inv /\ Workflow!Init
    BY <2>1, InitTypes, InitSerial DEF Init
  <2>3. Inv /\ [Next]_vars => Inv' /\ [Workflow!Next]_(Workflow!vars)
    BY <2>1, NextTypes, NextSerial
  <2> HIDE DEF Inv
  <2>4. Spec => []Inv /\ Workflow!Init
    BY <2>2, <2>3, PTL DEF Spec
  <2>5. Spec => [][Workflow!Next]_(Workflow!vars)
    BY <2>2, <2>3, PTL DEF Spec
  <2> QED
    BY <2>4, <2>5, PTL DEF ImplementsWorkflow, Workflow!Spec
<1> QED
  BY <1>1, <1>2

-----------------------------------------------------------------------------
(* The invariants of the workflow.  They speak of the mapped state, but use  *)
(* nothing of the mapping.                                                   *)

\* The row written by Submit and Review is a step row again.
LEMMA RowTypes ==
  ASSUME NEW f \in FlowType, NEW row \in StepRow, NEW s \in Steps
  PROVE  /\ Begun(row) \in StepRow
         /\ Submitted(row, f, s) \in StepRow
         /\ \A type \in ReviewType, action \in ReviewAction :
              Reviewed(row, f, s, type, action) \in StepRow
  <1>1. AfterSubmit(f, s) \in StepStatus
    BY DEF AfterSubmit, StepStatus
  <1>2. \A type \in ReviewType : AfterApproval(f, s, type) \in StepStatus
    BY DEF AfterApproval, StepStatus
  <1>3. Begun(row) \in StepRow
    BY DEF StepRow, StepStatus, Begun
  <1>4. Submitted(row, f, s) \in StepRow
    BY <1>1 DEF StepRow, Submitted
  <1>5. \A type \in ReviewType, action \in ReviewAction :
          Reviewed(row, f, s, type, action) \in StepRow
    BY <1>2 DEF StepRow, StepStatus, Reviewed
  <1>6. QED
    BY <1>3, <1>4, <1>5

LEMMA NoteTypes ==
  ASSUME NEW f \in FlowType, NEW r \in RunRow, NEW s \in Steps
  PROVE  /\ AdvanceNotes(r, s) \subseteq NoteKind \X (Steps \cup {NoStep})
         /\ Workflow!SubmitNote(f, s) \subseteq NoteKind \X (Steps \cup {NoStep})
         /\ \A type \in ReviewType, action \in ReviewAction :
              Workflow!ReviewNote(f, s, type, action) \subseteq NoteKind \X (Steps \cup {NoStep})
  BY StepsFacts, TypesAgree, RulesAgree
  DEF AdvanceNotes, Workflow!SubmitNote, Workflow!ReviewNote, AfterSubmit, AfterApproval, NoteKind

LEMMA SettleTypes ==
  ASSUME Workflow!TypeOK, NEW s \in Steps, NEW row \in StepRow,
         NEW note \in SUBSET (NoteKind \X (Steps \cup {NoStep})),
         Workflow!Settle(s, row, note)
  PROVE  /\ SettledSteps' \in [Steps -> StepRow]
         /\ SettledRun' \in RunRow
         /\ SettledNotes' \subseteq NoteKind \X (Steps \cup {NoStep})
  <1>1. flow \in FlowType
    BY FlowsAssumption, TypesAgree DEF Workflow!TypeOK
  <1>2. [SettledSteps EXCEPT ![s] = row] \in [Steps -> StepRow]
    BY TypesAgree DEF Workflow!TypeOK
  <1>3. CASE row.status = "COMPLETED"
    <2>1. /\ SettledSteps' = StepsAdvanced([SettledSteps EXCEPT ![s] = row], s)
          /\ SettledRun' = RunAdvanced(SettledRun, s)
          /\ SettledNotes' = SettledNotes \cup note \cup AdvanceNotes(SettledRun, s)
      BY <1>3, TypesAgree, RulesAgree DEF Workflow!Settle
    <2>2. AdvanceNotes(SettledRun, s) \subseteq NoteKind \X (Steps \cup {NoStep})
      BY <1>1, NoteTypes, TypesAgree DEF Workflow!TypeOK
    <2>3. SettledRun' \in RunRow
      BY <2>1, RunTypes, TypesAgree DEF Workflow!TypeOK
    <2>4. QED
      BY <1>2, <2>1, <2>2, <2>3, StepTypes, TypesAgree DEF Workflow!TypeOK
  <1>4. CASE row.status # "COMPLETED"
    BY <1>2, <1>4, TypesAgree DEF Workflow!Settle, Workflow!TypeOK
  <1>5. QED
    BY <1>3, <1>4

\* Every variable of the workflow keeps its type, for any number of steps.
THEOREM WorkflowTypes == Workflow!Spec => []Workflow!TypeOK
<1>1. Workflow!Init => Workflow!TypeOK
  BY StepsFacts, FlowsAssumption, TypesAgree, RulesAgree
  DEF Workflow!Init, Workflow!TypeOK, NewRun, NewSteps, RunRow, RunStatus, QcStatus, StepRow, StepStatus,
      FlowType, NoteKind
<1>2. Workflow!TypeOK /\ [Workflow!Next]_(Workflow!vars) => Workflow!TypeOK'
  <2> SUFFICES ASSUME Workflow!TypeOK, [Workflow!Next]_(Workflow!vars) PROVE Workflow!TypeOK'
    OBVIOUS
  <2>0. flow \in FlowType
    BY FlowsAssumption, TypesAgree DEF Workflow!TypeOK
  <2>1. ASSUME NEW s \in Steps, Workflow!Begin(s) PROVE Workflow!TypeOK'
    BY <2>0, <2>1, RowTypes, TypesAgree, RulesAgree DEF Workflow!Begin, Workflow!TypeOK
  <2>2. ASSUME NEW s \in Steps, NEW i \in Items, Workflow!Check(s, i) PROVE Workflow!TypeOK'
    BY <2>2, TypesAgree DEF Workflow!Check, Workflow!TypeOK, StepRow
  <2>3. ASSUME NEW s \in Steps, Workflow!Submit(s) PROVE Workflow!TypeOK'
    <3>1. /\ Submitted(SettledSteps[s], flow, s) \in StepRow
          /\ Workflow!SubmitNote(flow, s) \in SUBSET (NoteKind \X (Steps \cup {NoStep}))
      BY <2>0, RowTypes, NoteTypes, TypesAgree DEF Workflow!TypeOK
    <3>2. Workflow!Settle(s, Submitted(SettledSteps[s], flow, s), Workflow!SubmitNote(flow, s))
      BY <2>3, TypesAgree, RowsAgree DEF Workflow!Submit
    <3>3. QED
      BY <2>3, <3>1, <3>2, SettleTypes, TypesAgree DEF Workflow!Submit, Workflow!TypeOK
  <2>4. ASSUME NEW s \in Steps, NEW type \in ReviewType, NEW action \in ReviewAction,
               Workflow!Review(s, type, action)
        PROVE Workflow!TypeOK'
    <3>1. /\ Reviewed(SettledSteps[s], flow, s, type, action) \in StepRow
          /\ Workflow!ReviewNote(flow, s, type, action) \in SUBSET (NoteKind \X (Steps \cup {NoStep}))
      BY <2>0, RowTypes, NoteTypes, TypesAgree DEF Workflow!TypeOK
    <3>2. Workflow!Settle(s, Reviewed(SettledSteps[s], flow, s, type, action),
                          Workflow!ReviewNote(flow, s, type, action))
      BY <2>4, TypesAgree, RowsAgree DEF Workflow!Review
    <3>3. [type |-> type, action |-> action, attempt |-> SettledSteps[s].attempt] \in ReviewRow
      BY TypesAgree DEF ReviewRow, Workflow!TypeOK, StepRow
    <3>4. SettledReviews' \in [Steps -> SUBSET ReviewRow]
      BY <2>4, <3>3, TypesAgree DEF Workflow!Review, Workflow!TypeOK
    <3>5. QED
      BY <2>4, <3>1, <3>2, <3>4, SettleTypes, TypesAgree DEF Workflow!Review, Workflow!TypeOK
  <2>5. ASSUME NEW result \in {"PASSED", "FAILED"}, Workflow!Qc(result) PROVE Workflow!TypeOK'
    BY <2>5, RunTypes, StepTypes, StepsFacts, TypesAgree, RulesAgree
    DEF Workflow!Qc, Workflow!TypeOK, NoteKind
  <2>6. ASSUME NEW action \in DOMAIN StatusOf, Workflow!SetRunStatus(action) PROVE Workflow!TypeOK'
    BY <2>6, TypesAgree DEF Workflow!SetRunStatus, Workflow!TypeOK, StatusOf, RunRow, RunStatus
  <2>7. CASE UNCHANGED Workflow!vars
    BY <2>7, TypesAgree DEF Workflow!vars, Workflow!TypeOK
  <2>8. QED
    BY <2>1, <2>2, <2>3, <2>4, <2>5, <2>6, <2>7, TypesAgree DEF Workflow!Next
<1>3. QED
  BY <1>1, <1>2, PTL DEF Workflow!Spec

-----------------------------------------------------------------------------
(* Pipeline, CompletedIsApproved and ClosedRunIsDone hold together: an      *)
(* editable or awaiting step must be the current one (Pipeline), so that    *)
(* completing it is the only way to move the run, and a run is closed only  *)
(* from a pipeline with no current step.  QcRequired ties the qcStatus     *)
(* to its flow; without it a run that needs QC could be closed by advanceRun. *)

QcRequired == flow.requiresQc <=> SettledRun.qc # "NOT_REQUIRED"

WorkflowInv ==
  /\ Workflow!TypeOK /\ Workflow!Pipeline /\ Workflow!CompletedIsApproved
  /\ Workflow!ClosedRunIsDone /\ QcRequired

\* What CompletedIsApproved says of one row, apart from the table it is in.
RowApproved(s, row, rv) ==
  LET has(type) == [type |-> type, action |-> "APPROVED", attempt |-> row.attempt] \in rv IN
  /\ row.status \in {"WAITING_SUPERVISOR", "WAITING_APPROVAL", "COMPLETED"} =>
       row.submitted /\ row.attempt > 0
  /\ row.status \in {"WAITING_APPROVAL", "COMPLETED"} /\ s \in flow.supervised => has("SUPERVISOR")
  /\ row.status = "COMPLETED" /\ s \in flow.approved => has("APPROVER")

LEMMA ApprovedByRow ==
  Workflow!CompletedIsApproved <=> \A s \in Steps : RowApproved(s, SettledSteps[s], SettledReviews[s])
  BY TypesAgree DEF Workflow!CompletedIsApproved, RowApproved, Workflow!HasApproval

\* A step that is neither LOCKED nor COMPLETED is the current step.
LEMMA OpenIsCurrent ==
  ASSUME WorkflowInv, NEW s \in Steps, SettledSteps[s].status \notin {"LOCKED", "COMPLETED"}
  PROVE  s = SettledRun.current
  <1>1. SettledRun.current # NoStep
    BY TypesAgree DEF WorkflowInv, Workflow!Pipeline, Workflow!AllCompleted
  <1>2. SettledRun.current \in Nat /\ s \in Nat
    BY <1>1, StepsFacts, TypesAgree DEF WorkflowInv, Workflow!TypeOK, RunRow
  <1>3. QED
    BY <1>1, <1>2, TypesAgree DEF WorkflowInv, Workflow!Pipeline

\* Replacing the current row by one that is approved keeps the invariant, whether
\* or not the row completes the step.
LEMMA SettleKeeps ==
  ASSUME WorkflowInv, NEW s \in Steps, s = SettledRun.current,
         NEW row \in StepRow, row.status # "LOCKED",
         NEW note, Workflow!Settle(s, row, note), flow' = flow, Workflow!TypeOK',
         RowApproved(s, row, SettledReviews'[s]),
         \A t \in Steps : t # s => SettledReviews'[t] = SettledReviews[t]
  PROVE  Workflow!Pipeline' /\ Workflow!CompletedIsApproved' /\ Workflow!ClosedRunIsDone' /\ QcRequired'
  <1> USE DEF WorkflowInv
  <1>1. /\ SettledSteps \in [Steps -> StepRow]
        /\ SettledRun \in RunRow
        /\ s \in Nat /\ s # NoStep
        /\ SettledRun.status # "COMPLETED" /\ SettledRun.qc # "PASSED"
    BY StepsFacts, TypesAgree DEF Workflow!TypeOK, Workflow!ClosedRunIsDone
  <1>2. \A t \in Steps : RowApproved(t, SettledSteps[t], SettledReviews[t])
    BY ApprovedByRow
  <1>3. CASE row.status # "COMPLETED"
    <2>1. SettledSteps' = [SettledSteps EXCEPT ![s] = row] /\ SettledRun' = SettledRun
      BY <1>3, TypesAgree DEF Workflow!Settle
    <2>2. Workflow!Pipeline'
      BY <1>1, <1>3, <2>1, StepsFacts, TypesAgree DEF Workflow!Pipeline
    <2>3. \A t \in Steps : RowApproved(t, SettledSteps'[t], SettledReviews'[t])
      BY <1>1, <1>2, <2>1
    <2>4. Workflow!CompletedIsApproved'
      BY <2>3, TypesAgree DEF Workflow!CompletedIsApproved, RowApproved, Workflow!HasApproval
    <2>5. Workflow!ClosedRunIsDone' /\ QcRequired'
      BY <1>1, <2>1, TypesAgree DEF Workflow!ClosedRunIsDone, QcRequired
    <2>6. QED
      BY <2>2, <2>4, <2>5
  <1>4. CASE row.status = "COMPLETED"
    <2>1. /\ SettledSteps' = StepsAdvanced([SettledSteps EXCEPT ![s] = row], s)
          /\ SettledRun' = RunAdvanced(SettledRun, s)
      BY <1>4, TypesAgree, RulesAgree DEF Workflow!Settle
    <2>2. /\ SettledSteps'[s] = row
          /\ \A t \in Steps : t = s + 1 => SettledSteps'[t].status = "READY"
          /\ \A t \in Steps : t # s /\ t # s + 1 => SettledSteps'[t] = SettledSteps[t]
      BY <1>1, <2>1 DEF StepsAdvanced, StepRow
    <2>3. \A t \in Steps : t < s => SettledSteps'[t].status = "COMPLETED"
      <3> SUFFICES ASSUME NEW t \in Steps, t < s PROVE SettledSteps'[t].status = "COMPLETED"
        OBVIOUS
      <3>1. t # s /\ t # s + 1
        BY <1>1, StepsFacts
      <3>2. QED
        BY <1>1, <2>2, <3>1, TypesAgree DEF Workflow!Pipeline
    <2>4. \A t \in Steps : t > s + 1 => SettledSteps'[t].status = "LOCKED"
      <3> SUFFICES ASSUME NEW t \in Steps, t > s + 1 PROVE SettledSteps'[t].status = "LOCKED"
        OBVIOUS
      <3>1. t # s /\ t # s + 1 /\ t > s
        BY <1>1, StepsFacts
      <3>2. QED
        BY <1>1, <2>2, <3>1, TypesAgree DEF Workflow!Pipeline
    <2>5. Workflow!Pipeline'
      <3>1. CASE s < NumSteps
        <4>1. SettledRun'.current = s + 1
          BY <1>1, <2>1, <3>1 DEF RunAdvanced, RunRow
        <4>2. \A t \in Steps : t < s + 1 => SettledSteps'[t].status = "COMPLETED"
          <5> SUFFICES ASSUME NEW t \in Steps, t < s + 1 PROVE SettledSteps'[t].status = "COMPLETED"
            OBVIOUS
          <5>1. t < s \/ t = s
            BY <1>1, StepsFacts
          <5>2. QED
            BY <1>4, <2>2, <2>3, <5>1
        <4>3. \A t \in Steps : t = s + 1 => SettledSteps'[t].status = "READY"
          BY <2>2
        <4>4. s + 1 # NoStep
          BY <1>1 DEF NoStep
        <4>5. QED
          BY <2>4, <4>1, <4>2, <4>3, <4>4, TypesAgree DEF Workflow!Pipeline
      <3>2. CASE s = NumSteps
        <4>1. SettledRun'.current = NoStep
          BY <1>1, <2>1, <3>2, StepsFacts DEF RunAdvanced, RunRow
        <4>2. Workflow!AllCompleted'
          <5> SUFFICES ASSUME NEW t \in Steps PROVE SettledSteps'[t].status = "COMPLETED"
            BY TypesAgree DEF Workflow!AllCompleted
          <5>1. t < s \/ t = s
            BY <1>1, <3>2, StepsFacts
          <5>2. QED
            BY <1>4, <2>2, <2>3, <5>1
        <4>3. QED
          BY <4>1, <4>2, TypesAgree DEF Workflow!Pipeline
      <3>3. QED
        BY <1>1, <3>1, <3>2, StepsFacts
    <2>6. \A t \in Steps : RowApproved(t, SettledSteps'[t], SettledReviews'[t])
      <3> SUFFICES ASSUME NEW t \in Steps PROVE RowApproved(t, SettledSteps'[t], SettledReviews'[t])
        OBVIOUS
      <3>1. CASE t = s
        BY <2>2, <3>1
      <3>2. CASE t = s + 1
        <4>1. SettledSteps'[t].status = "READY"
          BY <2>2, <3>2
        <4>2. QED
          BY <4>1 DEF RowApproved
      <3>3. CASE t # s /\ t # s + 1
        BY <1>1, <1>2, <2>2, <3>3
      <3>4. QED
        BY <3>1, <3>2, <3>3
    <2>7. Workflow!CompletedIsApproved'
      BY <2>6, TypesAgree DEF Workflow!CompletedIsApproved, RowApproved, Workflow!HasApproval
    <2>8. QcRequired'
      BY <1>1, <2>1 DEF QcRequired, RunAdvanced, RunRow
    <2>9. Workflow!ClosedRunIsDone'
      <3>1. SettledRun'.qc # "PASSED"
        BY <1>1, <2>1 DEF RunAdvanced, RunRow
      <3>2. ASSUME SettledRun'.status = "COMPLETED"
            PROVE  SettledRun'.current = NoStep /\ SettledRun.qc = "NOT_REQUIRED"
        BY <1>1, <2>1, <3>2 DEF RunAdvanced, RunRow
      <3>3. QED
        BY <2>5, <3>1, <3>2, TypesAgree DEF Workflow!ClosedRunIsDone, Workflow!Pipeline, QcRequired
    <2>10. QED
      BY <2>5, <2>7, <2>8, <2>9
  <1>5. QED
    BY <1>3, <1>4

LEMMA WorkflowInit == Workflow!Init /\ Workflow!TypeOK => WorkflowInv
  <1> SUFFICES ASSUME Workflow!Init, Workflow!TypeOK PROVE WorkflowInv
    OBVIOUS
  <1>1. \A s \in Steps : SettledSteps[s].status = IF s = 1 THEN "READY" ELSE "LOCKED"
    BY TypesAgree, RulesAgree DEF Workflow!Init, NewSteps
  <1>2. SettledRun.current = 1 /\ SettledRun.status = "IN_PROGRESS" /\ 1 # NoStep
    BY TypesAgree, RulesAgree DEF Workflow!Init, NewRun, NoStep
  <1>3. Workflow!Pipeline
    <2>1. Workflow!Steps = Steps /\ SettledRun.current # Workflow!NoStep
      BY <1>2, TypesAgree
    <2>2. ASSUME NEW s \in Steps
          PROVE  /\ s < SettledRun.current => SettledSteps[s].status = "COMPLETED"
                 /\ s = SettledRun.current => SettledSteps[s].status \notin {"LOCKED", "COMPLETED"}
                 /\ s > SettledRun.current => SettledSteps[s].status = "LOCKED"
      <3>1. s \in Nat /\ s > 0
        BY StepsFacts
      <3>2. CASE s = 1
        BY <1>1, <1>2, <3>2
      <3>3. CASE s # 1
        BY <1>1, <1>2, <3>1, <3>3
      <3>4. QED
        BY <3>2, <3>3
    <2>3. QED
      BY <2>1, <2>2 DEF Workflow!Pipeline
  <1>4. Workflow!CompletedIsApproved
    BY <1>1, TypesAgree DEF Workflow!CompletedIsApproved
  <1>5. SettledRun.qc # "PASSED" /\ QcRequired
    BY TypesAgree, RulesAgree DEF Workflow!Init, NewRun, QcRequired
  <1>6. QED
    BY <1>2, <1>3, <1>4, <1>5, TypesAgree DEF WorkflowInv, Workflow!ClosedRunIsDone

LEMMA WorkflowNext == WorkflowInv /\ [Workflow!Next]_(Workflow!vars) /\ Workflow!TypeOK' => WorkflowInv'
  <1> SUFFICES ASSUME WorkflowInv, [Workflow!Next]_(Workflow!vars), Workflow!TypeOK' PROVE WorkflowInv'
    OBVIOUS
  <1>0. /\ SettledSteps \in [Steps -> StepRow]
        /\ SettledRun \in RunRow
        /\ SettledReviews \in [Steps -> SUBSET ReviewRow]
        /\ \A s \in Steps : RowApproved(s, SettledSteps[s], SettledReviews[s])
    BY ApprovedByRow, TypesAgree DEF WorkflowInv, Workflow!TypeOK
  <1>1. ASSUME NEW s \in Steps, Workflow!Begin(s) PROVE WorkflowInv'
    <2>1. s = SettledRun.current
      BY <1>1, OpenIsCurrent, TypesAgree DEF Workflow!Begin, Startable
    <2>2. /\ SettledSteps' = [SettledSteps EXCEPT ![s] = Begun(SettledSteps[s])]
          /\ SettledRun' = SettledRun /\ flow' = flow /\ SettledReviews' = SettledReviews
      BY <1>1, TypesAgree, RulesAgree DEF Workflow!Begin
    <2>3. Begun(SettledSteps[s]).status = "IN_PROGRESS" /\ Begun(SettledSteps[s]) \in StepRow
      BY <1>0, RowTypes, FlowsAssumption, TypesAgree
      DEF Begun, StepRow, WorkflowInv, Workflow!TypeOK
    <2>4. RowApproved(s, Begun(SettledSteps[s]), SettledReviews'[s])
      BY <2>3 DEF RowApproved
    <2>5. Workflow!Settle(s, Begun(SettledSteps[s]), {})
      BY <1>1, <2>2, <2>3, TypesAgree DEF Workflow!Settle, Workflow!Begin
    <2>6. QED
      BY <2>1, <2>2, <2>3, <2>4, <2>5, SettleKeeps DEF WorkflowInv
  <1>2. ASSUME NEW s \in Steps, NEW i \in Items, Workflow!Check(s, i) PROVE WorkflowInv'
    <2>1. PICK c : SettledSteps' = [SettledSteps EXCEPT ![s].checked = c]
      BY <1>2, TypesAgree DEF Workflow!Check
    <2>2. \A t \in Steps : /\ SettledSteps'[t].status = SettledSteps[t].status
                           /\ SettledSteps'[t].attempt = SettledSteps[t].attempt
                           /\ SettledSteps'[t].submitted = SettledSteps[t].submitted
      BY <1>0, <2>1 DEF StepRow
    <2>3. SettledRun' = SettledRun /\ flow' = flow /\ SettledReviews' = SettledReviews
      BY <1>2, TypesAgree DEF Workflow!Check
    <2>4. Workflow!Pipeline' /\ Workflow!ClosedRunIsDone' /\ QcRequired'
      BY <2>2, <2>3, TypesAgree
      DEF WorkflowInv, Workflow!Pipeline, Workflow!AllCompleted, Workflow!ClosedRunIsDone,
          QcRequired
    <2>5. Workflow!CompletedIsApproved'
      BY <2>2, <2>3, TypesAgree DEF WorkflowInv, Workflow!CompletedIsApproved, Workflow!HasApproval
    <2>6. QED
      BY <2>4, <2>5 DEF WorkflowInv
  <1>3. ASSUME NEW s \in Steps, Workflow!Submit(s) PROVE WorkflowInv'
    <2> DEFINE row == Submitted(SettledSteps[s], flow, s)
    <2>1. s = SettledRun.current
      BY <1>3, OpenIsCurrent, TypesAgree DEF Workflow!Submit, Editable
    <2>2. row \in StepRow /\ flow \in FlowType
      BY <1>0, RowTypes, FlowsAssumption, TypesAgree DEF WorkflowInv, Workflow!TypeOK
    <2>3. /\ Workflow!Settle(s, row, Workflow!SubmitNote(flow, s))
          /\ flow' = flow /\ SettledReviews' = SettledReviews
      BY <1>3, TypesAgree, RowsAgree DEF Workflow!Submit
    <2>4. row.submitted /\ row.attempt > 0 /\ row.status = AfterSubmit(flow, s)
      BY <1>0 DEF Submitted, StepRow
    <2>5. RowApproved(s, row, SettledReviews'[s]) /\ row.status # "LOCKED"
      BY <2>4 DEF RowApproved, AfterSubmit
    <2>6. QED
      BY <2>1, <2>2, <2>3, <2>5, SettleKeeps DEF WorkflowInv
  <1>4. ASSUME NEW s \in Steps, NEW type \in ReviewType, NEW action \in ReviewAction,
               Workflow!Review(s, type, action)
        PROVE WorkflowInv'
    <2> DEFINE row == Reviewed(SettledSteps[s], flow, s, type, action)
               new == [type |-> type, action |-> action, attempt |-> SettledSteps[s].attempt]
    <2>1. s = SettledRun.current
      BY <1>4, OpenIsCurrent, TypesAgree DEF Workflow!Review, AwaitedStatus, ReviewType
    <2>2. row \in StepRow /\ flow \in FlowType
      BY <1>0, RowTypes, FlowsAssumption, TypesAgree DEF WorkflowInv, Workflow!TypeOK
    <2>3. /\ Workflow!Settle(s, row, Workflow!ReviewNote(flow, s, type, action))
          /\ flow' = flow
          /\ SettledReviews' = [SettledReviews EXCEPT ![s] = @ \cup {new}]
      BY <1>4, TypesAgree, RowsAgree DEF Workflow!Review
    <2>4. /\ SettledReviews'[s] = SettledReviews[s] \cup {new}
          /\ \A t \in Steps : t # s => SettledReviews'[t] = SettledReviews[t]
      BY <1>0, <2>3
    <2>a. /\ type = "SUPERVISOR" => SettledSteps[s].status = "WAITING_SUPERVISOR"
          /\ type = "APPROVER" => SettledSteps[s].status = "WAITING_APPROVAL"
      BY <1>4, TypesAgree DEF Workflow!Review, AwaitedStatus
    <2>b. RowApproved(s, SettledSteps[s], SettledReviews[s])
      BY <1>0
    <2>5. SettledSteps[s].submitted /\ SettledSteps[s].attempt > 0
      BY <2>a, <2>b DEF ReviewType, RowApproved
    <2>6. RowApproved(s, row, SettledReviews'[s]) /\ row.status # "LOCKED"
      <3>1. CASE action = "REJECTED"
        <4>1. row.status = "NEEDS_REVISION"
          BY <1>0, <3>1 DEF Reviewed, StepRow
        <4>2. QED
          BY <4>1 DEF RowApproved
      <3>2. CASE action = "APPROVED"
        <4>1. /\ row.status = AfterApproval(flow, s, type)
              /\ row.attempt = SettledSteps[s].attempt /\ row.submitted = SettledSteps[s].submitted
          BY <1>0, <3>2 DEF Reviewed, StepRow
        <4>2. type = "APPROVER" =>
                (s \in flow.supervised => [type |-> "SUPERVISOR", action |-> "APPROVED",
                                           attempt |-> SettledSteps[s].attempt] \in SettledReviews[s])
          BY <2>a, <2>b DEF RowApproved
        <4>3. new = [type |-> type, action |-> "APPROVED", attempt |-> row.attempt]
          BY <3>2, <4>1
        <4>4. CASE type = "SUPERVISOR"
          BY <2>4, <2>5, <4>1, <4>3, <4>4 DEF RowApproved, AfterApproval
        <4>5. CASE type = "APPROVER"
          BY <2>4, <2>5, <4>1, <4>2, <4>3, <4>5 DEF RowApproved, AfterApproval
        <4>6. QED
          BY <4>4, <4>5 DEF ReviewType
      <3>3. QED
        BY <3>1, <3>2 DEF ReviewAction
    <2>7. QED
      BY <2>1, <2>2, <2>3, <2>4, <2>6, SettleKeeps DEF WorkflowInv
  <1>5. ASSUME NEW result \in {"PASSED", "FAILED"}, Workflow!Qc(result) PROVE WorkflowInv'
    <2>1. /\ SettledRun.current = NoStep /\ SettledRun.qc = "PENDING" /\ Workflow!AllCompleted
          /\ SettledRun' = RunAfterQc(SettledRun, result) /\ SettledSteps' = StepsAfterQc(SettledSteps, result)
          /\ flow' = flow /\ SettledReviews' = SettledReviews
      BY <1>5, TypesAgree, RulesAgree DEF Workflow!Qc, QcDue, WorkflowInv, Workflow!Pipeline
    <2>2. CASE result = "PASSED"
      <3>1. /\ SettledSteps' = SettledSteps /\ SettledRun'.current = SettledRun.current
            /\ SettledRun'.qc = "PASSED" /\ SettledRun.qc # "NOT_REQUIRED"
        BY <1>0, <2>1, <2>2 DEF RunAfterQc, StepsAfterQc, RunRow
      <3>2. QED
        BY <2>1, <3>1, TypesAgree
        DEF WorkflowInv, Workflow!Pipeline, Workflow!AllCompleted, Workflow!CompletedIsApproved,
            Workflow!HasApproval, Workflow!ClosedRunIsDone, QcRequired
    <2>3. CASE result = "FAILED"
      <3>1. SettledRun' = [status |-> "IN_PROGRESS", current |-> NumSteps, qc |-> "FAILED"]
        BY <2>1, <2>3 DEF RunAfterQc
      <3>2. /\ SettledSteps'[NumSteps].status = "NEEDS_REVISION"
            /\ \A t \in Steps : t # NumSteps => SettledSteps'[t] = SettledSteps[t]
        BY <1>0, <2>1, <2>3, StepsFacts DEF StepsAfterQc, StepRow
      <3>3. Workflow!Pipeline'
        <4> SUFFICES ASSUME NEW s \in Steps
                     PROVE  /\ s < NumSteps => SettledSteps'[s].status = "COMPLETED"
                            /\ s = NumSteps => SettledSteps'[s].status \notin {"LOCKED", "COMPLETED"}
                            /\ ~(s > NumSteps)
          BY <3>1, StepsFacts, TypesAgree DEF Workflow!Pipeline
        <4>1. QED
          BY <2>1, <3>2, StepsFacts, TypesAgree DEF Workflow!AllCompleted
      <3>4. \A t \in Steps : RowApproved(t, SettledSteps'[t], SettledReviews'[t])
        BY <1>0, <2>1, <3>2 DEF RowApproved
      <3>5. Workflow!CompletedIsApproved'
        BY <2>1, <3>4, TypesAgree
        DEF Workflow!CompletedIsApproved, RowApproved, Workflow!HasApproval
      <3>6. Workflow!ClosedRunIsDone' /\ QcRequired'
        BY <2>1, <3>1, TypesAgree DEF Workflow!ClosedRunIsDone, QcRequired, WorkflowInv
      <3>7. QED
        BY <3>3, <3>5, <3>6 DEF WorkflowInv
    <2>4. QED
      BY <2>2, <2>3
  <1>6. ASSUME NEW action \in DOMAIN StatusOf, Workflow!SetRunStatus(action) PROVE WorkflowInv'
    <2>1. /\ SettledRun'.status # "COMPLETED"
          /\ SettledRun'.current = SettledRun.current /\ SettledRun'.qc = SettledRun.qc
          /\ flow' = flow /\ SettledSteps' = SettledSteps /\ SettledReviews' = SettledReviews
      BY <1>0, <1>6, TypesAgree DEF Workflow!SetRunStatus, StatusOf, RunRow
    <2>2. QED
      BY <2>1, TypesAgree
      DEF WorkflowInv, Workflow!Pipeline, Workflow!AllCompleted, Workflow!CompletedIsApproved,
          Workflow!HasApproval,
                  Workflow!ClosedRunIsDone, QcRequired
  <1>7. CASE UNCHANGED Workflow!vars
    BY <1>7, TypesAgree
    DEF Workflow!vars, WorkflowInv, Workflow!Pipeline, Workflow!AllCompleted,
        Workflow!CompletedIsApproved, Workflow!HasApproval,
                Workflow!ClosedRunIsDone, QcRequired
  <1>8. QED
    BY <1>1, <1>2, <1>3, <1>4, <1>5, <1>6, <1>7, TypesAgree DEF Workflow!Next

LEMMA WorkflowInvariance == Workflow!Spec => []WorkflowInv
  <1>1. QED
    BY WorkflowTypes, WorkflowInit, WorkflowNext, PTL DEF Workflow!Spec

\* A run is a pipeline whatever requests it is served, for any number of steps.
THEOREM RunIsPipeline == Workflow!Spec => []Workflow!Pipeline
  <1>1. WorkflowInv => Workflow!Pipeline
    BY DEF WorkflowInv
  <1>2. QED
    BY <1>1, WorkflowInvariance, PTL

\* A completed step was approved, in its last attempt, by everyone its flow names.
THEOREM CompletionNeedsApproval == Workflow!Spec => []Workflow!CompletedIsApproved
  <1>1. WorkflowInv => Workflow!CompletedIsApproved
    BY DEF WorkflowInv
  <1>2. QED
    BY <1>1, WorkflowInvariance, PTL

\* A run is closed only over completed steps and, where required, a passed QC.
THEOREM ClosingNeedsCompletion == Workflow!Spec => []Workflow!ClosedRunIsDone
  <1>1. WorkflowInv => Workflow!ClosedRunIsDone
    BY DEF WorkflowInv
  <1>2. QED
    BY <1>1, WorkflowInvariance, PTL

\* So a run served one request at a time is a pipeline, its completed steps are
\* approved and it is only closed when done: overlap alone can break these.
THEOREM SerialRunsAreSound ==
  ASSUME \A h, k \in Handlers : h = k, MaxFaults = 0
  PROVE  Spec => [](Workflow!Pipeline /\ Workflow!CompletedIsApproved /\ Workflow!ClosedRunIsDone)
<1>1. Spec => Workflow!Spec
  BY SerialImplementsWorkflow DEF ImplementsWorkflow
<1>2. WorkflowInv => Workflow!Pipeline /\ Workflow!CompletedIsApproved /\ Workflow!ClosedRunIsDone
  BY DEF WorkflowInv
<1> QED
  BY <1>1, <1>2, WorkflowInvariance, PTL
=============================================================================
