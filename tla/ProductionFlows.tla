---------------------------- MODULE ProductionFlows ----------------------------
(***************************************************************************)
(* The editor of production flows and the start of runs, the part of       *)
(* production.service.ts that comes before ProductionRun.  updateFlow and  *)
(* deleteFlow look for runs and then write; startRun reads the flow, then  *)
(* its steps, then counts the runs of the day, and then creates a run from *)
(* what it has read.  Any other request may run between two queries; what  *)
(* keeps runs and flows together is the database's keys.                   *)
(***************************************************************************)
EXTENDS FiniteSets, Functions, Integers, Sequences

CONSTANTS
  FlowIds,      \* the ids flows may get
  Contents,     \* what the editor may send: [orders : Seq(Nat), qc, active : BOOLEAN]
  Serials,      \* serial numbers as they are typed
  Trim,         \* the serial number that a typed one is after trim()
  NoSerial,     \* null, for a serial number and for a flow
  Handlers,     \* requests that may be in flight at once
  MaxEdits,     \* bound: how often the steps of a flow are written
  MaxRuns,      \* bound: runs that are started
  MaxDays,      \* bound: days that pass
  MaxFaults     \* bound: requests that die half way

\* What the validation of the input lets through: at least one step, orders from 1.
ASSUME ContentsAssumption ==
  \A c \in Contents : /\ c.orders \in Seq(Nat \ {0}) /\ c.orders # << >>
                      /\ c.qc \in BOOLEAN /\ c.active \in BOOLEAN

ASSUME FlowsAssumption ==
  /\ NoSerial \notin Serials /\ MaxDays \in Nat \ {0}
  /\ Trim \in [Serials -> Serials \cup {NoSerial}]

VARIABLES
  flows,      \* the ProductionFlow rows; edition stands for the ids of its steps
  runs,       \* the ProductionRun rows as startRun creates them
  told,       \* reference numbers whose first assignee was notified
  day,        \* the date that nextReferenceNo puts into the number
  requests,   \* where each request is, and what it has read
  faults      \* requests that have died so far

vars == <<flows, runs, told, day, requests, faults>>

Unborn == [active |-> FALSE, qc |-> FALSE, orders |-> {}, edition |-> 0]
Deleted == [Unborn EXCEPT !.edition = -1]
Exists(f) == flows[f].edition > 0

NoNumber == <<0, 0>>
Numbers == (1 .. MaxDays) \X (Nat \ {0})

Idle == [pc |-> "idle", flow |-> NoSerial, content |-> Unborn, serial |-> NoSerial,
         number |-> NoNumber]

Init ==
  /\ flows = [f \in FlowIds |-> Unborn]
  /\ runs = {} /\ told = {} /\ day = 1
  /\ requests = [h \in Handlers |-> Idle]
  /\ faults = 0

RunsOf(f) == {r \in runs : r.flow = f}

Arrive(h, pc, f, content, serial) ==
  /\ requests[h] = Idle
  /\ requests' = [requests EXCEPT ![h] =
       [pc |-> pc, flow |-> f, content |-> content, serial |-> serial, number |-> NoNumber]]

At(h, pc) == requests[h].pc = pc
Pending(pcs) == {h \in Handlers : requests[h].pc \in pcs}
Goto(h, pc) == requests' = [requests EXCEPT ![h].pc = pc]
Finish(h) == requests' = [requests EXCEPT ![h] = Idle]

-----------------------------------------------------------------------------
(* The editor. *)

\* MUTANT of ValidOrders: only duplicates are refused, not gaps.
DistinctOrders(orders) == Cardinality(Range(orders)) = Len(orders)

\* ensureUniqueOrders: no duplicates, and the i-th smallest number is i.
ValidOrders(orders) ==
  /\ Cardinality(Range(orders)) = Len(orders)
  /\ \A o \in Range(orders) : Cardinality({p \in Range(orders) : p <= o}) = o

\* The row the editor's input becomes, with new rows for all its steps.
FlowOf(content, edition) ==
  [active |-> content.active, qc |-> content.qc,
   orders |-> Range(content.orders), edition |-> edition]

\* validateReferences only reads forms and users, which are left out; the flow
\* and its steps are one nested create.
CreateFlow(f, content) ==
  /\ flows[f] = Unborn /\ ValidOrders(content.orders)
  /\ flows' = [flows EXCEPT ![f] = FlowOf(content, 1)]
  /\ UNCHANGED <<runs, told, day, requests, faults>>

\* updateFlow reads the flow and one run of it; a flow that has run is not edited.
UpdateFlow(h, f, content) ==
  /\ Exists(f) /\ RunsOf(f) = {} /\ ValidOrders(content.orders)
  /\ flows[f].edition + Cardinality(Pending({"rewrite"})) < MaxEdits
  /\ Arrive(h, "rewrite", f, FlowOf(content, 0), NoSerial)
  /\ UNCHANGED <<flows, runs, told, day, faults>>

\* MUTANT of StepsAreFree: ProductionRunStep.flowStepId without its RESTRICT.
StepsAlwaysFree(f) == TRUE

\* The steps of a flow can be deleted: no run step refers to them (ON DELETE RESTRICT).
StepsAreFree(f) == RunsOf(f) = {}

\* The transaction of updateFlow: deleteMany of the steps, update with new ones.
\* It fails as a whole when a run has taken the steps or the flow is gone.
RewriteSteps(h) ==
  /\ At(h, "rewrite")
  /\ LET f == requests[h].flow  row == flows[f] IN
       \/ /\ Exists(f) /\ StepsAreFree(f)
          /\ flows' = [flows EXCEPT ![f] = [requests[h].content EXCEPT !.edition = row.edition + 1]]
       \/ /\ ~(Exists(f) /\ StepsAreFree(f))
          /\ UNCHANGED flows
  /\ Finish(h)
  /\ UNCHANGED <<runs, told, day, faults>>

\* deleteFlow counts the runs, and then deactivates the flow or deletes it.
DeleteFlow(h, f) ==
  /\ Exists(f)
  /\ Arrive(h, IF RunsOf(f) # {} THEN "deactivate" ELSE "delete", f, Unborn, NoSerial)
  /\ UNCHANGED <<flows, runs, told, day, faults>>

Deactivate(h) ==
  /\ At(h, "deactivate")
  /\ flows' = [flows EXCEPT ![requests[h].flow].active = FALSE]
  /\ Finish(h)
  /\ UNCHANGED <<runs, told, day, faults>>

\* The keys of runs and run steps refuse the delete of a flow that has run meanwhile.
Delete(h) ==
  /\ At(h, "delete")
  /\ LET f == requests[h].flow IN
       IF StepsAreFree(f) THEN flows' = [flows EXCEPT ![f] = Deleted]
                          ELSE UNCHANGED flows
  /\ Finish(h)
  /\ UNCHANGED <<runs, told, day, faults>>

-----------------------------------------------------------------------------
(* startRun. *)

\* The row of an active flow; its steps are loaded by the next query of the include.
StartRun(h, f, serial) ==
  /\ Exists(f) /\ flows[f].active
  /\ Cardinality(runs) + Cardinality(Pending({"steps", "serial", "count", "create"})) < MaxRuns
  /\ Arrive(h, "steps", f, flows[f], serial)
  /\ UNCHANGED <<flows, runs, told, day, faults>>

\* A flow deleted meanwhile has no steps left, and the request is refused.
ReadSteps(h) ==
  /\ At(h, "steps")
  /\ LET row == flows[requests[h].flow]
         pc == IF requests[h].serial = NoSerial THEN "count" ELSE "serial" IN
       IF row.orders = {} THEN Finish(h)
       ELSE requests' = [requests EXCEPT ![h].pc = pc, ![h].content =
              [@ EXCEPT !.orders = row.orders, !.edition = row.edition]]
  /\ UNCHANGED <<flows, runs, told, day, faults>>

\* The check looks up the number as it was typed, the row gets it trimmed.
CheckSerial(h) ==
  /\ At(h, "serial")
  /\ IF \E r \in runs : r.serial = requests[h].serial THEN Finish(h) ELSE Goto(h, "count")
  /\ UNCHANGED <<flows, runs, told, day, faults>>

RunsOn(d) == {r \in runs : r.number[1] = d}

\* MUTANT of NextReferenceNo: all runs are counted, not those of the day.
NextNumberOverall == <<day, Cardinality(runs) + 1>>

\* PRD-<date>-<runs of that date + 1>.
NextReferenceNo == <<day, Cardinality(RunsOn(day)) + 1>>

DrawNumber(h) ==
  /\ At(h, "count")
  /\ requests' = [requests EXCEPT ![h].pc = "create", ![h].number = NextReferenceNo]
  /\ UNCHANGED <<flows, runs, told, day, faults>>

\* The statuses that the steps of a new run get.
NewSteps(orders) == [o \in orders |-> IF o = 1 THEN "READY" ELSE "LOCKED"]

NewRun(request) ==
  [flow |-> request.flow, edition |-> request.content.edition, qc |-> request.content.qc,
   steps |-> NewSteps(request.content.orders), number |-> request.number,
   serial |-> IF request.serial = NoSerial THEN NoSerial ELSE Trim[request.serial]]

\* What the keys ask of a new run: its numbers are unused, its flow and the steps
\* it was copied from are still there.
Insertable(run) ==
  /\ \A r \in runs : r.number # run.number /\ (run.serial = NoSerial \/ r.serial # run.serial)
  /\ flows[run.flow].edition = run.edition

\* The run and its steps are one nested create.
CreateRun(h) ==
  /\ At(h, "create")
  /\ LET run == NewRun(requests[h]) IN
       \/ /\ Insertable(run)
          /\ runs' = runs \cup {run}
          /\ Goto(h, "notify")
       \/ /\ ~Insertable(run)
          /\ Finish(h)
          /\ UNCHANGED runs
  /\ UNCHANGED <<flows, told, day, faults>>

NotifyFirst(h) ==
  /\ At(h, "notify")
  /\ told' = told \cup {requests[h].number}
  /\ Finish(h)
  /\ UNCHANGED <<flows, runs, day, faults>>

Die(h) ==
  /\ requests[h] # Idle /\ faults < MaxFaults
  /\ faults' = faults + 1
  /\ Finish(h)
  /\ UNCHANGED <<flows, runs, told, day>>

NewDay ==
  /\ day < MaxDays
  /\ day' = day + 1
  /\ UNCHANGED <<flows, runs, told, requests, faults>>

Next ==
  \/ \E f \in FlowIds, content \in Contents : CreateFlow(f, content)
  \/ \E h \in Handlers :
       \/ \E f \in FlowIds :
            \/ \E content \in Contents : UpdateFlow(h, f, content)
            \/ DeleteFlow(h, f)
            \/ \E serial \in Serials \cup {NoSerial} : StartRun(h, f, serial)
       \/ RewriteSteps(h) \/ Deactivate(h) \/ Delete(h)
       \/ ReadSteps(h) \/ CheckSerial(h) \/ DrawNumber(h) \/ CreateRun(h) \/ NotifyFirst(h)
       \/ Die(h)
  \/ NewDay

Spec == Init /\ [][Next]_vars

-----------------------------------------------------------------------------
(* Properties *)

Pc == {"idle", "rewrite", "deactivate", "delete", "steps", "serial", "count", "create", "notify"}
Upto(orders) == orders = 1 .. Cardinality(orders)

\* The steps of a flow that exists are numbered 1..n, so that a run of it has a
\* first step to open and a next one after each.
TypeOK ==
  /\ \A f \in FlowIds :
       /\ flows[f].active \in BOOLEAN /\ flows[f].qc \in BOOLEAN /\ flows[f].edition \in Int
       /\ Upto(flows[f].orders) /\ (Exists(f) => flows[f].orders # {})
  /\ \A r \in runs :
       /\ r.flow \in FlowIds /\ r.number \in Numbers /\ r.serial \in Serials \cup {NoSerial}
       /\ Upto(DOMAIN r.steps) /\ r.steps[1] = "READY"
  /\ told \subseteq Numbers /\ day \in 1 .. MaxDays /\ faults \in Nat
  /\ \A h \in Handlers : requests[h].pc \in Pc /\ requests[h].flow \in FlowIds \cup {NoSerial}

\* However edits, deletions and starts interleave, the flow of a run exists and
\* still has the steps that the run was copied from; and where nobody edited the
\* flow while the start was reading it, the run asks for QC as its flow does.
FlowIsFrozen ==
  \A r \in runs :
    /\ flows[r.flow].edition = r.edition
    /\ DOMAIN r.steps = flows[r.flow].orders
    /\ r.edition = 1 => r.qc = flows[r.flow].qc

\* The runs of a day carry the numbers 1..n.  So the number that nextReferenceNo
\* draws is always free when it is drawn, and only a start that races with another
\* one can be refused for it: trying again succeeds.
NumbersAreDense ==
  \A d \in 1 .. MaxDays : {r.number[2] : r \in RunsOn(d)} = 1 .. Cardinality(RunsOn(d))
=============================================================================
