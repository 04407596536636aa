------------------------ MODULE ProductionFlowsProofs ------------------------
(***************************************************************************)
(* A run is created from a copy of its flow that startRun read in three    *)
(* queries.  The invariant says how old that copy may be: the edition of   *)
(* the steps in it is at most that of the flow, and while it is the same,  *)
(* so are the steps.  As for the reference numbers, the one that a request *)
(* has drawn is at most one above the number of runs of its day.           *)
(***************************************************************************)
EXTENDS ProductionFlows, FiniteSetTheorems, TLAPS

USE FlowsAssumption, ContentsAssumption

Row == [active : BOOLEAN, qc : BOOLEAN, orders : SUBSET Nat, edition : Int]
Request == [pc : Pc, flow : FlowIds \cup {NoSerial}, content : Row,
            serial : Serials \cup {NoSerial}, number : Nat \X Nat]

\* Steps are numbered 1..n.
Numbered(orders) == 1 \in orders /\ Upto(orders)

Frozen(r) ==
  /\ flows[r.flow].edition = r.edition /\ r.edition > 0
  /\ DOMAIN r.steps = flows[r.flow].orders
  /\ r.edition = 1 => r.qc = flows[r.flow].qc

DenseOn(d) == {r.number[2] : r \in RunsOn(d)} = 1 .. Cardinality(RunsOn(d))

Starting == {"steps", "serial", "count", "create"}

\* How far what a request has read may be from what it finds when it writes.
Read(q) ==
  q.pc # "idle" =>
    /\ q.flow \in FlowIds /\ flows[q.flow].edition # 0
    /\ q.pc = "rewrite" => Numbered(q.content.orders)
    /\ q.pc \in Starting =>
         /\ q.content.edition > 0
         /\ flows[q.flow].edition = -1 \/ flows[q.flow].edition >= q.content.edition
         /\ flows[q.flow].edition = 1 => q.content.qc = flows[q.flow].qc
    /\ q.pc \in Starting \ {"steps"} =>
         /\ Numbered(q.content.orders)
         /\ flows[q.flow].edition = q.content.edition => q.content.orders = flows[q.flow].orders
    /\ q.pc = "create" =>
         /\ q.number \in Numbers
         /\ q.number[2] <= Cardinality(RunsOn(q.number[1])) + 1
    /\ q.pc = "notify" => q.number \in Numbers

\* A deleted flow has no steps, one that exists has a first step.
Stepped == \A f \in FlowIds : /\ flows[f].edition = -1 => flows[f].orders = {}
                              /\ flows[f].edition > 0 => 1 \in flows[f].orders

FlowInv ==
  /\ TypeOK
  /\ Stepped
  /\ flows \in [FlowIds -> Row] /\ requests \in [Handlers -> Request]
  /\ IsFiniteSet(runs)
  /\ \A r \in runs : Frozen(r)
  /\ \A d \in 1 .. MaxDays : DenseOn(d)
  /\ \A h \in Handlers : Read(requests[h])

-----------------------------------------------------------------------------
(* What the checks of the editor amount to *)

\* ensureUniqueOrders lets through the permutations of 1..n only.
LEMMA OrdersAreNumbered ==
  ASSUME NEW orders \in Seq(Nat \ {0}), orders # << >>, ValidOrders(orders)
  PROVE  Numbered(Range(orders)) /\ Range(orders) \subseteq Nat
<1> DEFINE n == Len(orders)
           S == Range(orders)
<1>1. n \in Nat /\ n > 0 /\ DOMAIN orders = 1 .. n
  OBVIOUS
<1>2. S \subseteq Nat \ {0}
  <2>1. \A i \in 1 .. n : orders[i] \in Nat \ {0}
    BY <1>1
  <2> QED
    BY <1>1, <2>1 DEF Range
<1>3. IsFiniteSet(S)
  <2>1. IsFiniteSet(1 .. n)
    BY <1>1, FS_Interval
  <2>2. orders \in Surjection(1 .. n, S)
    BY <1>1 DEF Surjection, Range
  <2> QED
    BY <2>1, <2>2, FS_Surjection
<1>4. Cardinality(S) = n /\ \A o \in S : Cardinality({p \in S : p <= o}) = o
  BY DEF ValidOrders
<1>5. S \subseteq 1 .. n
  <2> SUFFICES ASSUME NEW o \in S PROVE o <= n
    BY <1>1, <1>2
  <2>1. Cardinality({p \in S : p <= o}) <= Cardinality(S)
    BY <1>3, FS_Subset
  <2> QED
    BY <1>4, <2>1
<1>6. IsFiniteSet(1 .. n) /\ Cardinality(1 .. n) = n
  BY <1>1, FS_Interval
<1>7. S = 1 .. n
  <2> HIDE DEF S
  <2> QED
    BY <1>4, <1>5, <1>6, FS_Subset
<1> QED
  BY <1>1, <1>4, <1>7 DEF Numbered, Upto

LEMMA FlowOfContent ==
  ASSUME NEW c \in Contents, ValidOrders(c.orders), NEW e \in Int
  PROVE  FlowOf(c, e) \in Row /\ Numbered(FlowOf(c, e).orders) /\ FlowOf(c, e).edition = e
BY OrdersAreNumbered DEF FlowOf, Row

-----------------------------------------------------------------------------

LEMMA InitFlow == Init => FlowInv
<1> SUFFICES ASSUME Init PROVE FlowInv
  OBVIOUS
<1>1. Cardinality({}) = 0 /\ IsFiniteSet({})
  BY FS_EmptySet
<1>2. Unborn \in Row /\ Idle \in Request /\ Idle.pc = "idle"
  BY DEF Unborn, Row, Idle, Request, Pc, NoNumber
<1>3. TypeOK
  <2>1. Upto({})
    BY <1>1 DEF Upto
  <2>2. \A f \in FlowIds : /\ flows[f].active = FALSE /\ flows[f].qc = FALSE
                           /\ flows[f].edition = 0 /\ flows[f].orders = {}
    BY DEF Init, Unborn
  <2>3. ASSUME NEW f \in FlowIds
        PROVE  /\ flows[f].active \in BOOLEAN /\ flows[f].qc \in BOOLEAN /\ flows[f].edition \in Int
               /\ Upto(flows[f].orders) /\ ~Exists(f)
    <3>1. flows[f].active \in BOOLEAN /\ flows[f].qc \in BOOLEAN
      BY <2>2
    <3>2. Upto(flows[f].orders)
      BY <2>1, <2>2
    <3>3. flows[f].edition \in Int /\ ~Exists(f)
      BY <2>2 DEF Exists
    <3> QED
      BY <3>1, <3>2, <3>3
  <2>4. \A h \in Handlers : requests[h].pc \in Pc /\ requests[h].flow \in FlowIds \cup {NoSerial}
    BY DEF Init, Idle, Pc
  <2>5. runs = {} /\ told = {} /\ day \in 1 .. MaxDays /\ faults \in Nat
    BY DEF Init
  <2> QED
    BY <2>3, <2>4, <2>5 DEF TypeOK
<1>4. flows \in [FlowIds -> Row] /\ requests \in [Handlers -> Request]
  BY <1>2 DEF Init
<1>5. ASSUME NEW d \in 1 .. MaxDays PROVE DenseOn(d)
  <2>1. RunsOn(d) = {}
    BY DEF Init, RunsOn
  <2> QED
    BY <1>1, <2>1 DEF DenseOn
<1>6. \A h \in Handlers : Read(requests[h])
  BY <1>2 DEF Init, Read
<1>7. Stepped
  BY DEF Init, Stepped, Unborn
<1> QED
  BY <1>1, <1>3, <1>4, <1>5, <1>6, <1>7 DEF FlowInv, Init

-----------------------------------------------------------------------------
(* Frames *)

\* What the steps of a flow may come to: the same, later ones, or none.
Later(f) ==
  \/ /\ flows'[f].edition = flows[f].edition
     /\ flows'[f].orders = flows[f].orders /\ flows'[f].qc = flows[f].qc
  \/ flows'[f].edition = -1
  \/ flows[f].edition > 0 /\ flows'[f].edition > flows[f].edition
  \/ flows[f].edition = 0

LEMMA ReadFrame ==
  ASSUME FlowInv, NEW q \in Request, Read(q), q.pc # "idle" => Later(q.flow),
         flows' \in [FlowIds -> Row], IsFiniteSet(runs'), runs \subseteq runs'
  PROVE  Read(q)'
<1> SUFFICES ASSUME q.pc # "idle" PROVE Read(q)'
  BY DEF Read
<1>1. /\ q.flow \in FlowIds /\ flows[q.flow] \in Row /\ flows'[q.flow] \in Row
      /\ q.content \in Row
  BY DEF Read, FlowInv, Request
<1>2. flows'[q.flow].edition # 0
  BY <1>1 DEF Read, Later, Row
<1>3. q.pc \in Starting =>
         /\ q.content.edition > 0
         /\ flows'[q.flow].edition = -1 \/ flows'[q.flow].edition >= q.content.edition
         /\ flows'[q.flow].edition = 1 => q.content.qc = flows'[q.flow].qc
  BY <1>1 DEF Read, Later, Row
<1>4. q.pc \in Starting \ {"steps"} =>
         (flows'[q.flow].edition = q.content.edition => q.content.orders = flows'[q.flow].orders)
  BY <1>1 DEF Read, Later, Row
<1>5. ASSUME NEW d PROVE Cardinality(RunsOn(d)) \in Nat /\ Cardinality(RunsOn(d)') \in Nat
                         /\ Cardinality(RunsOn(d)) <= Cardinality(RunsOn(d)')
  <2>1. RunsOn(d) \subseteq RunsOn(d)' /\ RunsOn(d)' \subseteq runs'
    BY DEF RunsOn
  <2>2. IsFiniteSet(RunsOn(d)')
    BY <2>1, FS_Subset
  <2> QED
    BY <2>1, <2>2, FS_Subset, FS_CardinalityType
<1>6. q.pc = "create" => /\ q.number \in Numbers
                         /\ q.number[2] <= Cardinality(RunsOn(q.number[1])') + 1
  <2> SUFFICES ASSUME q.pc = "create" PROVE q.number[2] <= Cardinality(RunsOn(q.number[1])') + 1
    BY DEF Read
  <2>1. q.number[2] \in Nat /\ q.number[2] <= Cardinality(RunsOn(q.number[1])) + 1
    BY DEF Read, Numbers
  <2> QED
    BY <1>5, <2>1
<1> QED
  BY <1>1, <1>2, <1>3, <1>4, <1>6 DEF Read

\* A step that moves one request and touches no flow and no run.
LEMMA RequestFrame ==
  ASSUME FlowInv, NEW h \in Handlers, NEW q \in Request, Read(q),
         requests' = [requests EXCEPT ![h] = q],
         UNCHANGED <<flows, runs>>, day' \in 1 .. MaxDays, told' \subseteq Numbers, faults' \in Nat
  PROVE  FlowInv'
<1>1. requests' \in [Handlers -> Request] /\ \A g \in Handlers : requests'[g] = IF g = h THEN q ELSE requests[g]
  BY DEF FlowInv
<1>2. TypeOK'
  <2>1. \A g \in Handlers : requests'[g].pc \in Pc /\ requests'[g].flow \in FlowIds \cup {NoSerial}
    BY <1>1 DEF Request
  <2> QED
    BY <2>1 DEF FlowInv, TypeOK, Exists
<1>3. ASSUME NEW g \in Handlers PROVE Read(requests[g])'
  <2>1. PICK p \in Request : p = requests'[g] /\ Read(p)
    BY <1>1 DEF FlowInv
  <2>2. Read(p)'
    BY <2>1, ReadFrame DEF FlowInv, Later
  <2> QED
    BY <2>1, <2>2
<1>4. \A r \in runs' : Frozen(r)'
  BY DEF FlowInv, Frozen
<1>5. \A d \in 1 .. MaxDays : DenseOn(d)'
  BY DEF FlowInv, DenseOn, RunsOn
<1>6. Stepped'
  BY <1>1 DEF FlowInv, Stepped
<1> QED
  BY <1>1, <1>2, <1>3, <1>4, <1>5, <1>6 DEF FlowInv

LEMMA IdleRead == Idle \in Request /\ Read(Idle)
BY DEF Idle, Request, Unborn, Row, Pc, NoNumber, Read

LEMMA FinishStep ==
  ASSUME FlowInv, NEW h \in Handlers, Finish(h),
         UNCHANGED <<flows, runs, day>>, told' \subseteq Numbers, faults' \in Nat
  PROVE  FlowInv'
<1>1. day' \in 1 .. MaxDays
  BY DEF FlowInv, TypeOK
<1> QED
  BY <1>1, IdleRead, RequestFrame DEF Finish

\* A step that writes a flow, which has not run or keeps what its runs were copied from.
LEMMA FlowFrame ==
  ASSUME FlowInv, NEW f \in FlowIds, NEW row \in Row, flows' = [flows EXCEPT ![f] = row], Later(f),
         Upto(row.orders), row.edition > 0 => 1 \in row.orders, row.edition = -1 => row.orders = {},
         RunsOf(f) # {} => row.edition = flows[f].edition /\ row.orders = flows[f].orders /\ row.qc = flows[f].qc,
         UNCHANGED <<runs, told, day, faults>>,
         requests' \in [Handlers -> Request],
         \A h \in Handlers : requests'[h] = requests[h] \/ requests'[h] = Idle
  PROVE  FlowInv'
<1>1. flows' \in [FlowIds -> Row] /\ \A g \in FlowIds : flows'[g] = IF g = f THEN row ELSE flows[g]
  BY DEF FlowInv
<1>2. TypeOK'
  <2>1. ASSUME NEW g \in FlowIds
        PROVE  /\ flows'[g].active \in BOOLEAN /\ flows'[g].qc \in BOOLEAN /\ flows'[g].edition \in Int
               /\ Upto(flows'[g].orders) /\ (flows'[g].edition > 0 => flows'[g].orders # {})
    <3>1. flows'[g] \in Row
      BY <1>1
    <3>2. Upto(flows'[g].orders) /\ (flows'[g].edition > 0 => flows'[g].orders # {})
      BY <1>1 DEF FlowInv, TypeOK, Exists
    <3> QED
      BY <3>1, <3>2 DEF Row
  <2>2. \A g \in Handlers : requests'[g].pc \in Pc /\ requests'[g].flow \in FlowIds \cup {NoSerial}
    BY DEF Request
  <2> QED
    BY <2>1, <2>2 DEF FlowInv, TypeOK, Exists
<1>3. ASSUME NEW g \in Handlers PROVE Read(requests[g])'
  <2>1. PICK p \in Request : p = requests'[g] /\ Read(p)
    BY IdleRead DEF FlowInv
  <2>2. p.pc # "idle" => Later(p.flow)
    BY <1>1, <2>1 DEF Later, Read
  <2>3. Read(p)'
    BY <1>1, <2>1, <2>2, ReadFrame DEF FlowInv
  <2> QED
    BY <2>1, <2>3
<1>4. ASSUME NEW r \in runs' PROVE Frozen(r)'
  <2>1. Frozen(r) /\ r.flow \in FlowIds /\ r \in runs
    BY DEF FlowInv, TypeOK
  <2>2. CASE r.flow = f
    <3>1. RunsOf(f) # {}
      BY <2>1, <2>2 DEF RunsOf
    <3> QED
      BY <1>1, <2>1, <2>2, <3>1 DEF Frozen
  <2>3. CASE r.flow # f
    BY <1>1, <2>1, <2>3 DEF Frozen
  <2> QED
    BY <2>2, <2>3
<1>5. \A d \in 1 .. MaxDays : DenseOn(d)'
  BY DEF FlowInv, DenseOn, RunsOn
<1>6. Stepped'
  BY <1>1 DEF FlowInv, Stepped
<1> QED
  BY <1>1, <1>2, <1>3, <1>4, <1>5, <1>6 DEF FlowInv

-----------------------------------------------------------------------------
(* The editor *)

LEMMA CreateFlowStep ==
  ASSUME FlowInv, NEW f \in FlowIds, NEW c \in Contents, CreateFlow(f, c)
  PROVE  FlowInv'
<1>1. PICK row \in Row : row = FlowOf(c, 1) /\ Numbered(row.orders) /\ row.edition = 1
  BY FlowOfContent DEF CreateFlow
<1>2. flows[f].edition = 0 /\ flows' = [flows EXCEPT ![f] = row] /\ UNCHANGED <<runs, told, day, requests, faults>>
  BY <1>1 DEF CreateFlow, Unborn
<1>3. Later(f)
  BY <1>2 DEF Later
<1>4. RunsOf(f) = {}
  BY <1>2 DEF FlowInv, Frozen, RunsOf
<1>5. Upto(row.orders) /\ 1 \in row.orders /\ row.edition # -1
  BY <1>1 DEF Numbered
<1>6. requests' \in [Handlers -> Request] /\ \A h \in Handlers : requests'[h] = requests[h]
  BY <1>2 DEF FlowInv
<1> QED
  BY <1>2, <1>3, <1>4, <1>5, <1>6, FlowFrame

\* Rows that the editor changes in one column.
LEMMA RowEdits ==
  ASSUME NEW row \in Row, NEW e \in Int
  PROVE  /\ [row EXCEPT !.edition = e] \in Row
         /\ [row EXCEPT !.edition = e].edition = e
         /\ [row EXCEPT !.edition = e].orders = row.orders
         /\ [row EXCEPT !.edition = e].qc = row.qc
         /\ [row EXCEPT !.active = FALSE] \in Row
         /\ [row EXCEPT !.active = FALSE].edition = row.edition
         /\ [row EXCEPT !.active = FALSE].orders = row.orders
         /\ [row EXCEPT !.active = FALSE].qc = row.qc
BY DEF Row

LEMMA UnbornRow == Unborn \in Row /\ Unborn.edition = 0 /\ Unborn.orders = {}
BY DEF Unborn, Row

LEMMA DeletedRow == Deleted \in Row /\ Deleted.edition = -1 /\ Deleted.orders = {}
BY UnbornRow, RowEdits, -1 \in Int DEF Deleted

LEMMA UpdateFlowStep ==
  ASSUME FlowInv, NEW h \in Handlers, NEW f \in FlowIds, NEW c \in Contents, UpdateFlow(h, f, c)
  PROVE  FlowInv'
<1>1. PICK row \in Row : row = FlowOf(c, 0) /\ Numbered(row.orders)
  BY FlowOfContent DEF UpdateFlow
<1>2. PICK q \in Request : q = [pc |-> "rewrite", flow |-> f, content |-> row, serial |-> NoSerial,
                                number |-> NoNumber]
  BY DEF Request, Pc, NoNumber
<1>3. flows[f].edition > 0 /\ requests' = [requests EXCEPT ![h] = q] /\ UNCHANGED <<flows, runs, told, day, faults>>
  BY <1>1, <1>2 DEF UpdateFlow, Arrive, Exists
<1>4. Read(q)
  BY <1>1, <1>2, <1>3 DEF Read, Starting
<1> QED
  BY <1>3, <1>4, RequestFrame DEF FlowInv, TypeOK

LEMMA DeleteFlowStep ==
  ASSUME FlowInv, NEW h \in Handlers, NEW f \in FlowIds, DeleteFlow(h, f)
  PROVE  FlowInv'
<1>0. PICK pc \in {"deactivate", "delete"} : pc = IF RunsOf(f) # {} THEN "deactivate" ELSE "delete"
  OBVIOUS
<1>1. PICK q \in Request : q = [pc |-> pc, flow |-> f, content |-> Unborn, serial |-> NoSerial,
                                number |-> NoNumber]
  BY UnbornRow DEF Request, Pc, NoNumber
<1>2. flows[f].edition > 0 /\ requests' = [requests EXCEPT ![h] = q] /\ UNCHANGED <<flows, runs, told, day, faults>>
  BY <1>0, <1>1 DEF DeleteFlow, Arrive, Exists
<1>3. Read(q)
  BY <1>0, <1>1, <1>2 DEF Read, Starting
<1> QED
  BY <1>2, <1>3, RequestFrame DEF FlowInv, TypeOK

LEMMA FinishAll ==
  ASSUME FlowInv, NEW h \in Handlers, Finish(h)
  PROVE  /\ requests' \in [Handlers -> Request]
         /\ \A g \in Handlers : requests'[g] = requests[g] \/ requests'[g] = Idle
BY IdleRead DEF FlowInv, Finish

LEMMA WriteFlowStep ==
  ASSUME FlowInv, NEW h \in Handlers, RewriteSteps(h) \/ Deactivate(h) \/ Delete(h)
  PROVE  FlowInv'
<1> DEFINE f == requests[h].flow
<1>0. Finish(h) /\ UNCHANGED <<runs, told, day, faults>>
  BY DEF RewriteSteps, Deactivate, Delete
<1>1. f \in FlowIds /\ flows[f] \in Row /\ flows[f].edition # 0 /\ requests[h] \in Request
  BY DEF FlowInv, RewriteSteps, Deactivate, Delete, At, Read
<1>2. CASE UNCHANGED flows
  BY <1>0, <1>2, FinishStep DEF FlowInv, TypeOK
<1>3. CASE RewriteSteps(h) /\ flows' # flows
  <2>1. /\ flows[f].edition > 0 /\ RunsOf(f) = {} /\ requests[h].pc = "rewrite"
        /\ flows' = [flows EXCEPT ![f] = [requests[h].content EXCEPT !.edition = flows[f].edition + 1]]
    BY <1>3 DEF RewriteSteps, Exists, StepsAreFree, At
  <2>2. requests[h].content \in Row /\ Numbered(requests[h].content.orders)
    BY <1>1, <2>1 DEF FlowInv, Read, Request
  <2>3. PICK row \in Row : /\ row = [requests[h].content EXCEPT !.edition = flows[f].edition + 1]
                           /\ row.edition = flows[f].edition + 1 /\ Numbered(row.orders)
    <3>1. flows[f].edition + 1 \in Int
      BY <1>1 DEF Row
    <3>2. /\ [requests[h].content EXCEPT !.edition = flows[f].edition + 1] \in Row
          /\ [requests[h].content EXCEPT !.edition = flows[f].edition + 1].edition = flows[f].edition + 1
          /\ [requests[h].content EXCEPT !.edition = flows[f].edition + 1].orders = requests[h].content.orders
      BY <2>2, <3>1, RowEdits
    <3> QED
      BY <2>2, <3>2
  <2>4. Later(f)
    BY <1>1, <2>1, <2>3 DEF Later, Row, FlowInv
  <2>5. Upto(row.orders) /\ 1 \in row.orders /\ row.edition # -1
    BY <1>1, <2>1, <2>3 DEF Numbered, Row
  <2> HIDE DEF f
  <2> QED
    BY <1>0, <1>1, <2>1, <2>3, <2>4, <2>5, FinishAll, FlowFrame
<1>4. CASE Deactivate(h)
  <2>1. flows' = [flows EXCEPT ![f] = [flows[f] EXCEPT !.active = FALSE]]
    BY <1>4 DEF Deactivate
  <2>2. PICK row \in Row : /\ row = [flows[f] EXCEPT !.active = FALSE]
                           /\ row.edition = flows[f].edition /\ row.orders = flows[f].orders
                           /\ row.qc = flows[f].qc
    <3>1. 0 \in Int
      OBVIOUS
    <3>2. /\ [flows[f] EXCEPT !.active = FALSE] \in Row
          /\ [flows[f] EXCEPT !.active = FALSE].edition = flows[f].edition
          /\ [flows[f] EXCEPT !.active = FALSE].orders = flows[f].orders
          /\ [flows[f] EXCEPT !.active = FALSE].qc = flows[f].qc
      BY <1>1, <3>1, RowEdits
    <3> QED
      BY <3>2
  <2>3. Later(f)
    BY <1>1, <2>1, <2>2 DEF Later, FlowInv
  <2>4. /\ Upto(flows[f].orders)
        /\ flows[f].edition > 0 => 1 \in flows[f].orders
        /\ flows[f].edition = -1 => flows[f].orders = {}
    BY <1>1 DEF FlowInv, TypeOK, Exists, Stepped
  <2> HIDE DEF f
  <2> QED
    BY <1>0, <1>1, <2>1, <2>2, <2>3, <2>4, FinishAll, FlowFrame
<1>5. CASE Delete(h) /\ flows' # flows
  <2>1. flows' = [flows EXCEPT ![f] = Deleted] /\ RunsOf(f) = {}
    BY <1>5 DEF Delete, StepsAreFree
  <2>2. PICK row \in Row : row = Deleted /\ row.edition = -1 /\ row.orders = {}
    BY DeletedRow
  <2>3. Upto(row.orders) /\ ~(row.edition > 0)
    BY <2>2, FS_EmptySet DEF Upto
  <2>4. Later(f)
    BY <1>1, <2>1, <2>2 DEF Later, FlowInv
  <2> HIDE DEF f
  <2> QED
    BY <1>0, <1>1, <2>1, <2>2, <2>3, <2>4, FinishAll, FlowFrame
<1> QED
  BY <1>2, <1>3, <1>4, <1>5

-----------------------------------------------------------------------------
(* The start of a run *)

LEMMA StartRunStep ==
  ASSUME FlowInv, NEW h \in Handlers, NEW f \in FlowIds, NEW s \in Serials \cup {NoSerial},
         StartRun(h, f, s)
  PROVE  FlowInv'
<1>1. PICK row \in Row : row = flows[f]
  BY DEF FlowInv
<1>2. PICK q \in Request : q = [pc |-> "steps", flow |-> f, content |-> row, serial |-> s,
                                number |-> NoNumber]
  BY DEF Request, Pc, NoNumber
<1>3. flows[f].edition > 0 /\ requests' = [requests EXCEPT ![h] = q] /\ UNCHANGED <<flows, runs, told, day, faults>>
  BY <1>1, <1>2 DEF StartRun, Arrive, Exists
<1>4. flows[f].edition >= flows[f].edition
  BY <1>1 DEF Row
<1>5. Read(q)
  BY <1>1, <1>2, <1>3, <1>4 DEF Read, Starting
<1> QED
  BY <1>3, <1>5, RequestFrame DEF FlowInv, TypeOK

\* The steps are read later than the flow: unless it was edited, they go together.
LEMMA ReadStepsStep ==
  ASSUME FlowInv, NEW h \in Handlers, ReadSteps(h)
  PROVE  FlowInv'
<1> DEFINE f == requests[h].flow
           pc == IF requests[h].serial = NoSerial THEN "count" ELSE "serial"
<1>1. /\ requests[h] \in Request /\ requests[h].content \in Row /\ f \in FlowIds
      /\ flows[f] \in Row /\ requests[h].pc = "steps" /\ Read(requests[h])
      /\ UNCHANGED <<flows, runs, told, day, faults>>
  BY DEF FlowInv, ReadSteps, At, Read, Request
<1>2. CASE flows[f].orders = {}
  BY <1>1, <1>2, FinishStep DEF ReadSteps, FlowInv, TypeOK
<1>3. CASE flows[f].orders # {}
  <2>1. PICK c \in Row : /\ c = [requests[h].content EXCEPT !.orders = flows[f].orders,
                                                            !.edition = flows[f].edition]
                         /\ c.orders = flows[f].orders /\ c.edition = flows[f].edition
                         /\ c.qc = requests[h].content.qc
    <3>1. /\ [requests[h].content EXCEPT !.orders = flows[f].orders, !.edition = flows[f].edition] \in Row
          /\ [requests[h].content EXCEPT !.orders = flows[f].orders,
                                         !.edition = flows[f].edition].qc = requests[h].content.qc
          /\ [requests[h].content EXCEPT !.orders = flows[f].orders,
                                         !.edition = flows[f].edition].orders = flows[f].orders
          /\ [requests[h].content EXCEPT !.orders = flows[f].orders,
                                         !.edition = flows[f].edition].edition = flows[f].edition
      BY <1>1 DEF Row
    <3> QED
      BY <3>1
  <2>2. PICK p \in {"count", "serial"} : p = pc
    OBVIOUS
  <2>3. PICK q \in Request : /\ q = [requests[h] EXCEPT !.pc = p, !.content = c]
                             /\ q.pc = p /\ q.content = c /\ q.flow = f
    <3>1. /\ [requests[h] EXCEPT !.pc = p, !.content = c] \in Request
          /\ [requests[h] EXCEPT !.pc = p, !.content = c].pc = p
          /\ [requests[h] EXCEPT !.pc = p, !.content = c].content = c
          /\ [requests[h] EXCEPT !.pc = p, !.content = c].flow = f
      BY <1>1 DEF Request, Pc
    <3> QED
      BY <3>1
  <2>4. requests' = [requests EXCEPT ![h] = q]
    BY <1>3, <2>1, <2>2, <2>3 DEF ReadSteps
  <2>5. /\ Upto(flows[f].orders) /\ flows[f].edition \in Int
        /\ flows[f].edition # 0 /\ flows[f].edition > 0 /\ flows[f].edition >= flows[f].edition
    <3>1. Upto(flows[f].orders) /\ flows[f].edition \in Int /\ flows[f].edition # 0
      BY <1>1 DEF FlowInv, TypeOK, Row, Read
    <3>2. flows[f].edition = -1 => flows[f].orders = {}
      BY <1>1 DEF FlowInv, Stepped
    <3> QED
      BY <1>1, <1>3, <3>1, <3>2 DEF Read, Starting, Row
  <2>6. flows[f].edition = 1 => c.qc = flows[f].qc
    BY <1>1, <2>1 DEF Read, Starting
  <2>7. Read(q)
    <3>1. q.flow \in FlowIds /\ flows[q.flow].edition # 0
      BY <1>1, <2>3, <2>5
    <3>2. /\ q.content.edition > 0 /\ flows[q.flow].edition >= q.content.edition
          /\ flows[q.flow].edition = 1 => q.content.qc = flows[q.flow].qc
      BY <2>1, <2>3, <2>5, <2>6
    <3>3. Numbered(q.content.orders) /\ q.content.orders = flows[q.flow].orders
      BY <1>1, <2>1, <2>3, <2>5 DEF Numbered, FlowInv, Stepped
    <3>4. q.pc \in {"count", "serial"}
      BY <2>2, <2>3
    <3> QED
      BY <3>1, <3>2, <3>3, <3>4 DEF Read
  <2> QED
    BY <1>1, <2>4, <2>7, RequestFrame DEF FlowInv, TypeOK
<1> QED
  BY <1>2, <1>3

LEMMA CheckSerialStep ==
  ASSUME FlowInv, NEW h \in Handlers, CheckSerial(h)
  PROVE  FlowInv'
<1>1. CASE Finish(h)
  BY <1>1, FinishStep DEF CheckSerial, FlowInv, TypeOK
<1>2. CASE Goto(h, "count")
  <2>1. /\ requests[h] \in Request /\ requests[h].pc = "serial" /\ Read(requests[h])
        /\ UNCHANGED <<flows, runs, told, day, faults>>
    BY DEF FlowInv, CheckSerial, At
  <2>2. PICK q \in Request : /\ q = [requests[h] EXCEPT !.pc = "count"]
                             /\ q.pc = "count" /\ q.content = requests[h].content /\ q.flow = requests[h].flow
    <3>1. /\ [requests[h] EXCEPT !.pc = "count"] \in Request
          /\ [requests[h] EXCEPT !.pc = "count"].pc = "count"
          /\ [requests[h] EXCEPT !.pc = "count"].content = requests[h].content
          /\ [requests[h] EXCEPT !.pc = "count"].flow = requests[h].flow
      BY <2>1 DEF Request, Pc
    <3> QED
      BY <3>1
  <2>3. Read(q)
    BY <2>1, <2>2 DEF Read, Starting
  <2> QED
    BY <1>2, <2>1, <2>2, <2>3, RequestFrame DEF FlowInv, TypeOK, Goto
<1> QED
  BY <1>1, <1>2 DEF CheckSerial

LEMMA DrawNumberStep ==
  ASSUME FlowInv, NEW h \in Handlers, DrawNumber(h)
  PROVE  FlowInv'
<1> DEFINE n == Cardinality(RunsOn(day)) + 1
<1>1. /\ requests[h] \in Request /\ requests[h].pc = "count" /\ Read(requests[h])
      /\ requests' = [requests EXCEPT ![h].pc = "create", ![h].number = <<day, n>>]
      /\ UNCHANGED <<flows, runs, told, day, faults>>
  BY DEF FlowInv, DrawNumber, At, NextReferenceNo
<1>2. n \in Nat \ {0} /\ n <= Cardinality(RunsOn(day)) + 1 /\ day \in 1 .. MaxDays
  <2>1. RunsOn(day) \subseteq runs
    BY DEF RunsOn
  <2>2. Cardinality(RunsOn(day)) \in Nat
    BY <2>1, FS_Subset, FS_CardinalityType DEF FlowInv
  <2> QED
    BY <2>2 DEF FlowInv, TypeOK
<1> HIDE DEF n
<1>3. PICK q \in Request : /\ q = [requests[h] EXCEPT !.pc = "create", !.number = <<day, n>>]
                           /\ q.pc = "create" /\ q.content = requests[h].content
                           /\ q.flow = requests[h].flow /\ q.number = <<day, n>>
  <2>0. <<day, n>> \in Nat \X Nat
    BY <1>2
  <2>1. /\ [requests[h] EXCEPT !.pc = "create", !.number = <<day, n>>] \in Request
        /\ [requests[h] EXCEPT !.pc = "create", !.number = <<day, n>>].pc = "create"
        /\ [requests[h] EXCEPT !.pc = "create", !.number = <<day, n>>].content = requests[h].content
        /\ [requests[h] EXCEPT !.pc = "create", !.number = <<day, n>>].flow = requests[h].flow
        /\ [requests[h] EXCEPT !.pc = "create", !.number = <<day, n>>].number = <<day, n>>
    BY <1>1, <2>0 DEF Request, Pc
  <2> QED
    BY <2>1
<1>4. q.number \in Numbers /\ q.number[1] = day /\ q.number[2] = n
  BY <1>2, <1>3 DEF Numbers
<1>5. Read(q)
  BY <1>1, <1>2, <1>3, <1>4 DEF Read, Starting, n
<1> QED
  BY <1>1, <1>2, <1>3, <1>5, RequestFrame DEF FlowInv, TypeOK

\* The number that is free and at most one above the others is the next one.
LEMMA NextNumber ==
  ASSUME FlowInv, NEW d \in 1 .. MaxDays, NEW run, run.number[1] = d,
         run.number \in Numbers, run.number[2] <= Cardinality(RunsOn(d)) + 1,
         \A r \in runs : r.number # run.number, runs' = runs \cup {run}
  PROVE  DenseOn(d)'
<1> DEFINE n == Cardinality(RunsOn(d))
<1>1. IsFiniteSet(RunsOn(d)) /\ n \in Nat
  <2>1. RunsOn(d) \subseteq runs
    BY DEF RunsOn
  <2> QED
    BY <2>1, FS_Subset, FS_CardinalityType DEF FlowInv
<1>2. {r.number[2] : r \in RunsOn(d)} = 1 .. n
  BY DEF FlowInv, DenseOn
<1>3. run.number[2] \notin 1 .. n
  <2> SUFFICES ASSUME run.number[2] \in 1 .. n PROVE FALSE
    OBVIOUS
  <2>1. PICK r \in RunsOn(d) : r.number[2] = run.number[2]
    BY <1>2
  <2>2. r \in runs /\ r.number[1] = d /\ r.number \in Numbers
    BY <2>1 DEF RunsOn, FlowInv, TypeOK
  <2>3. r.number = run.number
    BY <2>1, <2>2 DEF Numbers
  <2> QED
    BY <2>2, <2>3
<1>4. run.number[2] = n + 1
  BY <1>1, <1>3 DEF Numbers
<1>5. RunsOn(d)' = RunsOn(d) \cup {run} /\ run \notin RunsOn(d)
  <2>1. run \notin runs
    OBVIOUS
  <2>2. RunsOn(d)' = {r \in runs \cup {run} : r.number[1] = d}
    BY DEF RunsOn
  <2> QED
    BY <2>1, <2>2 DEF RunsOn
<1>6. Cardinality(RunsOn(d)') = n + 1
  <2>1. PICK S : S = RunsOn(d) /\ IsFiniteSet(S) /\ run \notin S
    BY <1>1, <1>5
  <2>2. Cardinality(S \cup {run}) = Cardinality(S) + 1
    BY <2>1, FS_AddElement
  <2> QED
    BY <1>5, <2>1, <2>2
<1>7. {r.number[2] : r \in RunsOn(d)'} = 1 .. n + 1
  BY <1>1, <1>2, <1>4, <1>5
<1> QED
  BY <1>6, <1>7 DEF DenseOn

LEMMA CreateRunStep ==
  ASSUME FlowInv, NEW h \in Handlers, CreateRun(h)
  PROVE  FlowInv'
<1> DEFINE q == requests[h]
<1>1. /\ q \in Request /\ q.pc = "create" /\ Read(q) /\ q.content \in Row
      /\ UNCHANGED <<flows, told, day, faults>>
  BY DEF FlowInv, CreateRun, At, Request
<1>2. CASE Finish(h) /\ UNCHANGED runs
  BY <1>1, <1>2, FinishStep DEF FlowInv, TypeOK
<1>3. CASE runs' = runs \cup {NewRun(q)} /\ Insertable(NewRun(q)) /\ Goto(h, "notify")
  <2>1. PICK run : run = NewRun(q)
    OBVIOUS
  <2>2. /\ run.flow = q.flow /\ run.edition = q.content.edition /\ run.qc = q.content.qc
        /\ run.steps = NewSteps(q.content.orders) /\ run.number = q.number
        /\ run.serial \in Serials \cup {NoSerial}
    BY <1>1, <2>1 DEF NewRun, Request
  <2>3. /\ q.flow \in FlowIds /\ q.content.edition > 0 /\ Numbered(q.content.orders)
        /\ flows[q.flow].edition = q.content.edition
        /\ flows[q.flow].edition = 1 => q.content.qc = flows[q.flow].qc
        /\ q.content.orders = flows[q.flow].orders
        /\ q.number \in Numbers /\ q.number[2] <= Cardinality(RunsOn(q.number[1])) + 1
    BY <1>1, <1>3, <2>1, <2>2 DEF Read, Starting, Insertable
  <2>4. \A r \in runs : r.number # run.number
    BY <1>3, <2>1 DEF Insertable
  <2>5. DOMAIN run.steps = q.content.orders /\ run.steps[1] = "READY" /\ Upto(DOMAIN run.steps)
    <3>1. 1 \in q.content.orders
      BY <2>3 DEF Numbered
    <3> QED
      BY <2>2, <2>3, <3>1 DEF NewSteps, Numbered
  <2>6. PICK p \in Request : p = [q EXCEPT !.pc = "notify"] /\ p.pc = "notify" /\ p.flow = q.flow
                             /\ p.number = q.number
    <3>1. /\ [q EXCEPT !.pc = "notify"] \in Request
          /\ [q EXCEPT !.pc = "notify"].pc = "notify"
          /\ [q EXCEPT !.pc = "notify"].flow = q.flow
          /\ [q EXCEPT !.pc = "notify"].number = q.number
      BY <1>1 DEF Request, Pc
    <3> QED
      BY <3>1
  <2>7. requests' = [requests EXCEPT ![h] = p]
    BY <1>3, <2>6 DEF Goto
  <2> HIDE DEF q
  <2>8. /\ requests' \in [Handlers -> Request]
        /\ \A g \in Handlers : requests'[g] = IF g = h THEN p ELSE requests[g]
    BY <2>7 DEF FlowInv
  <2>9. runs' = runs \cup {run} /\ IsFiniteSet(runs')
    BY <1>3, <2>1, FS_AddElement DEF FlowInv
  <2>10. TypeOK'
    <3>1. \A r \in runs' : /\ r.flow \in FlowIds /\ r.number \in Numbers /\ r.serial \in Serials \cup {NoSerial}
                           /\ Upto(DOMAIN r.steps) /\ r.steps[1] = "READY"
      BY <2>2, <2>3, <2>5, <2>9 DEF FlowInv, TypeOK
    <3>2. \A g \in Handlers : requests'[g].pc \in Pc /\ requests'[g].flow \in FlowIds \cup {NoSerial}
      BY <2>8 DEF Request
    <3> QED
      BY <1>1, <3>1, <3>2 DEF FlowInv, TypeOK, Exists
  <2>11. ASSUME NEW r \in runs' PROVE Frozen(r)'
    <3>1. CASE r = run
      BY <1>1, <2>2, <2>3, <2>5, <3>1 DEF Frozen
    <3>2. CASE r \in runs
      BY <1>1, <3>2 DEF FlowInv, Frozen
    <3> QED
      BY <2>9, <3>1, <3>2
  <2>12. ASSUME NEW d \in 1 .. MaxDays PROVE DenseOn(d)'
    <3>1. CASE d = run.number[1]
      BY <2>2, <2>3, <2>4, <2>9, <3>1, NextNumber
    <3>2. CASE d # run.number[1]
      <4>1. RunsOn(d)' = RunsOn(d)
        BY <2>9, <3>2 DEF RunsOn
      <4> QED
        BY <4>1 DEF FlowInv, DenseOn
    <3> QED
      BY <3>1, <3>2
  <2>13. ASSUME NEW g \in Handlers PROVE Read(requests[g])'
    <3>1. CASE g = h
      <4>1. requests'[g] = p
        BY <2>8, <3>1
      <4>2. flows'[p.flow].edition # 0
        BY <1>1, <2>3, <2>6
      <4> QED
        BY <2>3, <2>6, <4>1, <4>2 DEF Read, Starting
    <3>2. CASE g # h
      <4>1. PICK o \in Request : o = requests[g] /\ Read(o) /\ requests'[g] = o
        BY <2>8, <3>2 DEF FlowInv
      <4>2. Read(o)'
        BY <1>1, <2>9, <4>1, ReadFrame DEF FlowInv, Later
      <4> QED
        BY <4>1, <4>2
    <3> QED
      BY <3>1, <3>2
  <2> QED
    BY <1>1, <2>8, <2>9, <2>10, <2>11, <2>12, <2>13 DEF FlowInv, Stepped
<1> QED
  BY <1>2, <1>3 DEF CreateRun

LEMMA NotifyStep ==
  ASSUME FlowInv, NEW h \in Handlers, NotifyFirst(h)
  PROVE  FlowInv'
<1>1. Finish(h) /\ UNCHANGED <<flows, runs, day>> /\ faults' \in Nat
  BY DEF NotifyFirst, FlowInv, TypeOK
<1>2. told' \subseteq Numbers
  BY DEF NotifyFirst, FlowInv, TypeOK, Read, At
<1> QED
  BY <1>1, <1>2, FinishStep

-----------------------------------------------------------------------------

LEMMA NextFlow == FlowInv /\ [Next]_vars => FlowInv'
<1> SUFFICES ASSUME FlowInv, [Next]_vars PROVE FlowInv'
  OBVIOUS
<1>1. CASE UNCHANGED vars \/ NewDay
  <2>1. UNCHANGED <<flows, runs, told, requests, faults>> /\ day' \in 1 .. MaxDays
    BY <1>1 DEF vars, NewDay, FlowInv, TypeOK
  <2>2. TypeOK' /\ Stepped'
    BY <2>1 DEF FlowInv, TypeOK, Exists, Stepped
  <2>3. \A d \in 1 .. MaxDays : DenseOn(d)'
    BY <2>1 DEF FlowInv, DenseOn, RunsOn
  <2>4. \A r \in runs' : Frozen(r)'
    BY <2>1 DEF FlowInv, Frozen
  <2>5. ASSUME NEW g \in Handlers PROVE Read(requests[g])'
    <3>1. PICK o \in Request : o = requests[g] /\ Read(o) /\ requests'[g] = o
      BY <2>1 DEF FlowInv
    <3>2. Read(o)'
      BY <2>1, <3>1, ReadFrame DEF FlowInv, Later
    <3> QED
      BY <3>1, <3>2
  <2> QED
    BY <2>1, <2>2, <2>3, <2>4, <2>5 DEF FlowInv
<1>2. CASE \E f \in FlowIds, content \in Contents : CreateFlow(f, content)
  BY <1>2, CreateFlowStep
<1>3. ASSUME NEW h \in Handlers, NEW f \in FlowIds,
             \/ \E content \in Contents : UpdateFlow(h, f, content)
             \/ DeleteFlow(h, f)
             \/ \E serial \in Serials \cup {NoSerial} : StartRun(h, f, serial)
      PROVE  FlowInv'
  BY <1>3, UpdateFlowStep, DeleteFlowStep, StartRunStep
<1>4. ASSUME NEW h \in Handlers,
             \/ RewriteSteps(h) \/ Deactivate(h) \/ Delete(h)
             \/ ReadSteps(h) \/ CheckSerial(h) \/ DrawNumber(h) \/ CreateRun(h) \/ NotifyFirst(h)
      PROVE  FlowInv'
  BY <1>4, WriteFlowStep, ReadStepsStep, CheckSerialStep, DrawNumberStep, CreateRunStep, NotifyStep
<1>5. ASSUME NEW h \in Handlers, Die(h) PROVE FlowInv'
  <2>1. Finish(h) /\ UNCHANGED <<flows, runs, told, day>> /\ faults' \in Nat /\ told' \subseteq Numbers
    BY <1>5 DEF Die, FlowInv, TypeOK
  <2> QED
    BY <2>1, FinishStep
<1> QED
  BY <1>1, <1>2, <1>3, <1>4, <1>5 DEF Next

LEMMA AlwaysFlow == Spec => []FlowInv
BY InitFlow, NextFlow, PTL DEF Spec

\* The steps of every flow and of every run are numbered 1..n, and the first step
\* of a new run is open, whatever is edited while it is started.
THEOREM FlowTypes == Spec => []TypeOK
<1>1. FlowInv => TypeOK
  BY DEF FlowInv
<1> QED
  BY <1>1, AlwaysFlow, PTL

\* The flow of a run stays what the run was copied from, for any number of
\* editors and starts at once.
THEOREM FlowsAreFrozen == Spec => []FlowIsFrozen
<1>1. FlowInv => FlowIsFrozen
  BY DEF FlowInv, Frozen, FlowIsFrozen
<1> QED
  BY <1>1, AlwaysFlow, PTL

\* The reference numbers of a day never have a gap, for any number of starts at once.
THEOREM ReferencesAreDense == Spec => []NumbersAreDense
<1>1. FlowInv => NumbersAreDense
  BY DEF FlowInv, DenseOn, NumbersAreDense
<1> QED
  BY <1>1, AlwaysFlow, PTL
=============================================================================
