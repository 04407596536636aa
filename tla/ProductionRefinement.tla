------------------------ MODULE ProductionRefinement ------------------------
(***************************************************************************)
(* ProductionRun, one request at a time and none dying, implements         *)
(* ProductionWorkflow.  A request takes effect when it writes its step;    *)
(* what it has inserted before that is not yet visible, and what it still  *)
(* owes after it (the advance, the notifications) counts as done.          *)
(***************************************************************************)
EXTENDS ProductionRun

InFlight(pc) == {h \in Handlers : handlers[h].pc = pc}

\* Handlers that have completed their step and have not advanced the run.
Advancing ==
  InFlight("advance") \cup {h \in InFlight("notify") : handlers[h].note = "STEP_APPROVED"}

SettledSteps ==
  [t \in Steps |-> IF \E h \in Advancing : t = handlers[h].step + 1
                   THEN [steps[t] EXCEPT !.status = "READY"] ELSE steps[t]]

SettledRun ==
  IF Advancing = {} THEN run
  ELSE RunAdvanced(run, handlers[CHOOSE h \in Advancing : TRUE].step)

SettledNotes ==
  notes \cup {<<handlers[h].note, handlers[h].step>> : h \in InFlight("notify")}
        \cup UNION {AdvanceNotes(run, handlers[h].step) : h \in Advancing}

Unwritten(s, ops) ==
  {h \in InFlight("write") : handlers[h].step = s /\ handlers[h].op \in ops}

SettledSubmissions ==
  [s \in Steps |-> submissions[s] - Cardinality(Unwritten(s, {"submit"}))]

SettledReviews ==
  [s \in Steps |-> reviews[s] \
     {[type |-> handlers[h].op, action |-> handlers[h].action, attempt |-> steps[s].attempt]
        : h \in Unwritten(s, ReviewType)}]

Workflow == INSTANCE ProductionWorkflow WITH
  run <- SettledRun, steps <- SettledSteps, reviews <- SettledReviews,
  submissions <- SettledSubmissions, notes <- SettledNotes

\* Served one at a time, the handlers do what the atomic workflow allows: cutting
\* them at their awaits adds no behaviour, and every invariant of the workflow
\* (Pipeline, CompletedIsApproved, ClosedRunIsDone) carries over.
ImplementsWorkflow == Workflow!Spec
=============================================================================
