---------------------------- MODULE ApprovalsProofs ----------------------------
(***************************************************************************)
(* Nothing locks the instance of a submission between the moment a request *)
(* reads it and the moment it writes it, and the policy may be replaced    *)
(* meanwhile.  What saves the order of the approvals is the foreign key of *)
(* ApprovalAction: once an answer is in, the policy can be replaced no     *)
(* more, and while none is, nobody has come further than the first step.   *)
(* Two more arguments follow: while the first policy stands and nobody has *)
(* died, the role whose turn it is has been told or a request is about to  *)
(* tell it; and an answer that blocks a submission is a refused rejection, *)
(* or one of two answers to a step, while a step is missing only when the  *)
(* policy was replaced before anybody had answered the submission.         *)
(***************************************************************************)
EXTENDS Approvals, TLAPS

USE ApprovalsAssumption

\* The requests that have read something.
Active == [pc : {"readStep", "check", "record", "decide", "notify"}, submission : Submissions,
           order : Orders, version : Nat, action : Verdicts, reason : BOOLEAN]

\* s has come to the step numbered order rightfully: the steps before it were
\* endorsed, and if there is one, the policy cannot be replaced any more.
Rightful(s, order) ==
  /\ order > 1 => \E row \in actions : row.submission = s
  /\ \A o \in DOMAIN policy.roles : o < order => Endorsed(s, o)

\* Every answer is to a step of the policy in force, by someone who holds its role.
Current(row) ==
  /\ row.version = policy.version /\ row.order \in DOMAIN policy.roles
  /\ policy.roles[row.order] \in RolesOf[row.approver]

Settled(s) ==
  /\ Rightful(s, instances[s].current)
  /\ instances[s].status = "APPROVED" =>
       /\ \E row \in actions : row.submission = s
       /\ \A o \in DOMAIN policy.roles : Endorsed(s, o)
  /\ creating[s].pc = "create" => creating[s].order = 1

\* What a request has read was right when it read it, and what still matters of
\* it when it writes is right by then.
Grounded(a) ==
  desk[a] # Idle =>
    /\ Rightful(desk[a].submission, desk[a].order)
    /\ desk[a].version <= policy.version
    /\ desk[a].pc \in {"check", "record", "decide", "notify"} /\ desk[a].version = policy.version =>
         desk[a].order \in DOMAIN policy.roles /\ policy.roles[desk[a].order] \in RolesOf[a]
    /\ desk[a].pc \in {"decide", "notify"} => Row(a) \in actions

AppInv ==
  /\ TypeOK /\ policy.roles \in Policies
  /\ \A row \in actions : Current(row)
  /\ \A s \in Submissions : Settled(s)
  /\ \A a \in Approvers : Grounded(a)

-----------------------------------------------------------------------------

\* A request that is under way is a record of the longer kind.
LEMMA ActiveRequest ==
  ASSUME TypeOK, NEW a \in Approvers, desk[a].pc # "idle"
  PROVE  desk[a] \in Active /\ desk[a] # Idle
BY DEF TypeOK, Request, Active, Idle

\* The first step of a policy that has one is number 1.
LEMMA FirstIsOne ==
  ASSUME NEW p \in Policies, DOMAIN p # {}
  PROVE  1 \in DOMAIN p /\ Min(DOMAIN p) = 1
<1>1. PICK n \in 0 .. MaxOrder : DOMAIN p = 1 .. n
  BY PoliciesAreNumbered
<1>2. 1 \in DOMAIN p /\ \A y \in DOMAIN p : 1 =< y
  BY <1>1
<1>3. Min(DOMAIN p) \in DOMAIN p /\ \A y \in DOMAIN p : Min(DOMAIN p) =< y
  BY <1>2 DEF Min
<1>4. Min(DOMAIN p) \in Int
  BY <1>1, <1>3
<1> QED
  BY <1>2, <1>3, <1>4

\* Steps are orders, and one that has no successor is the last.
LEMMA LastStep ==
  ASSUME NEW p \in Policies, NEW o \in DOMAIN p
  PROVE  /\ o \in Orders
         /\ o + 1 \in DOMAIN p => o + 1 \in Orders
         /\ o + 1 \notin DOMAIN p => \A x \in DOMAIN p : x <= o
<1>1. PICK n \in 0 .. MaxOrder : DOMAIN p = 1 .. n
  BY PoliciesAreNumbered
<1> QED
  BY <1>1 DEF Orders

LEMMA InitApp == Init => AppInv
<1> SUFFICES ASSUME Init PROVE AppInv
  OBVIOUS
<1>1. policy.version = 1 /\ policy.roles \in Policies
  BY DEF Init
<1>2. TypeOK
  BY DEF Init, TypeOK, Instance, Creating, Request, Idle, None
<1>3. ASSUME NEW s \in Submissions PROVE Settled(s)
  <2>1. instances[s].current = 0 /\ instances[s].status = "NONE" /\ creating[s].pc = "new"
    BY DEF Init, None
  <2>2. DOMAIN policy.roles \subseteq Orders
    BY <1>1, LastStep
  <2> QED
    BY <2>1, <2>2 DEF Settled, Rightful, Orders
<1>4. \A a \in Approvers : Grounded(a)
  BY DEF Init, Grounded
<1> QED
  BY <1>1, <1>2, <1>3, <1>4 DEF AppInv, Init

-----------------------------------------------------------------------------

\* Most steps leave the policy and the answers alone; then each part of the
\* invariant that speaks of a submission or a request depends on that one only.
LEMMA Framed ==
  ASSUME AppInv, TypeOK', UNCHANGED <<policy, actions>>,
         \A s \in Submissions :
           Settled(s)' \/ (instances[s]' = instances[s] /\ (creating[s].pc = "create" \/ creating[s]'.pc # "create")
                           /\ creating[s]'.order = creating[s].order),
         \A a \in Approvers : desk'[a] = desk[a] \/ Grounded(a)'
  PROVE  AppInv'
<1>1. ASSUME NEW s \in Submissions PROVE Settled(s)'
  BY <1>1 DEF AppInv, Settled, Rightful, Endorsed
<1>2. ASSUME NEW a \in Approvers PROVE Grounded(a)'
  BY <1>2 DEF AppInv, Grounded, Rightful, Endorsed, Row
<1>3. \A row \in actions' : Current(row)'
  BY DEF AppInv, Current
<1> QED
  BY <1>1, <1>2, <1>3 DEF AppInv

\* A step of a request changes at most its own place on the desk.
LEMMA Desks ==
  ASSUME AppInv, NEW a \in Approvers, UNCHANGED <<policy, actions, instances, creating>>,
         TypeOK', NEW d, desk' = [desk EXCEPT ![a] = d], d = Idle \/ Grounded(a)'
  PROVE  AppInv'
<1>1. \A b \in Approvers : desk'[b] = IF b = a THEN d ELSE desk[b]
  BY DEF AppInv, TypeOK
<1>2. ASSUME NEW b \in Approvers PROVE desk'[b] = desk[b] \/ Grounded(b)'
  BY <1>1 DEF Grounded
<1> QED
  BY <1>2, Framed

LEMMA ReplaceStep ==
  ASSUME AppInv, NEW roles \in Policies, ReplacePolicy(roles)
  PROVE  AppInv'
<1> USE DEF ReplacePolicy
<1>1. policy'.version = policy.version + 1 /\ policy'.roles = roles /\ policy.version \in Nat
  BY DEF AppInv, TypeOK
<1>2. TypeOK'
  BY <1>1 DEF AppInv, TypeOK
<1>3. actions = {}
  BY DEF AppInv, Current
<1>4. DOMAIN roles \subseteq Orders
  BY LastStep
<1>5. ASSUME NEW s \in Submissions PROVE Settled(s)'
  <2>1. instances[s].current \in Int /\ ~(instances[s].current > 1)
    BY <1>3 DEF AppInv, Settled, Rightful, TypeOK, Instance, Orders, None
  <2> QED
    BY <1>1, <1>3, <1>4, <2>1 DEF AppInv, Settled, Rightful, Orders
<1>6. ASSUME NEW a \in Approvers PROVE Grounded(a)'
  <2> SUFFICES ASSUME desk[a] # Idle PROVE Grounded(a)'
    BY DEF Grounded
  <2>1. desk[a] \in Active
    BY DEF AppInv, TypeOK, Request, Active
  <2>2. desk[a].order \in Orders /\ ~(desk[a].order > 1)
    BY <1>3, <2>1 DEF AppInv, Grounded, Rightful, Active
  <2>3. Rightful(desk[a].submission, desk[a].order)'
    BY <1>1, <1>3, <1>4, <2>2 DEF Rightful, Orders
  <2>4. desk[a].version \in Nat /\ desk[a].version <= policy.version
    BY <2>1 DEF AppInv, Grounded, Active
  <2>5. desk[a].pc \notin {"decide", "notify"}
    BY <1>3 DEF AppInv, Grounded
  <2> QED
    BY <1>1, <2>3, <2>4, <2>5 DEF Grounded
<1> QED
  BY <1>1, <1>2, <1>3, <1>5, <1>6 DEF AppInv

\* FormSubmissionsService.create starts the approval at step 1.
LEMMA CreatingStep ==
  ASSUME AppInv, NEW s \in Submissions,
         Submit(s) \/ ReadPolicy(s) \/ CreateInstance(s) \/ NotifyFirst(s) \/ DieCreating(s)
  PROVE  AppInv'
<1> USE DEF AppInv, TypeOK
<1>1. CASE Submit(s)
  <2>1. TypeOK'
    BY <1>1 DEF Submit, Creating
  <2> QED
    BY <1>1, <2>1, Framed DEF Submit, Creating
<1>2. CASE ReadPolicy(s)
  <2>1. CASE DOMAIN policy.roles = {}
    <3>1. TypeOK'
      BY <1>2, <2>1 DEF ReadPolicy, Creating
    <3> QED
      BY <1>2, <2>1, <3>1, Framed DEF ReadPolicy, Creating
  <2>2. CASE DOMAIN policy.roles # {}
    <3>1. 1 \in DOMAIN policy.roles /\ Min(DOMAIN policy.roles) = 1
      BY <2>2, FirstIsOne
    <3>2. 1 \in Orders /\ policy.roles[1] \in Roles
      <4>1. policy.roles \in Policy
        OBVIOUS
      <4> QED
        BY <3>1, <4>1 DEF Policy
    <3>3. creating' = [creating EXCEPT ![s] = [pc |-> "create", order |-> 1, role |-> policy.roles[1]]]
      BY <1>2, <2>2, <3>1 DEF ReadPolicy
    <3>4. TypeOK'
      BY <1>2, <3>2, <3>3 DEF ReadPolicy, Creating
    <3>5. Settled(s)'
      BY <1>2, <3>3 DEF ReadPolicy, Settled, Rightful, Endorsed
    <3>6. \A t \in Submissions : t # s => creating'[t] = creating[t]
      BY <3>3
    <3> HIDE DEF AppInv, TypeOK
    <3> QED
      BY <1>2, <3>4, <3>5, <3>6, Framed DEF ReadPolicy
  <2> QED
    BY <2>1, <2>2
<1>3. CASE CreateInstance(s)
  <2>1. creating[s].order = 1 /\ 1 \in Orders
    <3>1. creating[s].order = 1
      BY <1>3 DEF CreateInstance, Settled
    <3> QED
      BY <3>1 DEF Creating, None
  <2>2. instances' = [instances EXCEPT ![s] = [status |-> "PENDING", current |-> 1]]
    BY <1>3, <2>1 DEF CreateInstance
  <2>3. TypeOK'
    <3>1. instances' \in [Submissions -> Instance]
      BY <2>1, <2>2 DEF Instance
    <3>2. creating' \in [Submissions -> Creating]
      BY <1>3 DEF CreateInstance, Creating
    <3> QED
      BY <1>3, <3>1, <3>2 DEF CreateInstance
  <2>4. DOMAIN policy.roles \subseteq Orders
    BY LastStep
  <2>5. instances'[s].current = 1 /\ instances'[s].status = "PENDING"
    BY <2>2
  <2>6. Settled(s)'
    BY <1>3, <2>4, <2>5 DEF CreateInstance, Settled, Rightful, Orders
  <2>7. \A t \in Submissions : t # s => creating'[t] = creating[t] /\ instances'[t] = instances[t]
    BY <1>3, <2>2 DEF CreateInstance
  <2> HIDE DEF AppInv, TypeOK
  <2> QED
    BY <1>3, <2>3, <2>6, <2>7, Framed DEF CreateInstance
<1>4. CASE NotifyFirst(s)
  <2>1. TypeOK'
    BY <1>4 DEF NotifyFirst, Creating
  <2> QED
    BY <1>4, <2>1, Framed DEF NotifyFirst, Creating
<1>5. CASE DieCreating(s)
  <2>1. TypeOK'
    BY <1>5 DEF DieCreating, Creating
  <2> QED
    BY <1>5, <2>1, Framed DEF DieCreating, Creating
<1> QED
  BY <1>1, <1>2, <1>3, <1>4, <1>5

\* What a request reads it acts on later; it writes only its answer.
LEMMA ReadingStep ==
  ASSUME AppInv, NEW a \in Approvers,
         NEW s \in Submissions, NEW order \in Orders, NEW action \in Verdicts, NEW reason \in Reasons,
         ReadInstance(a, s, order, action, reason)
  PROVE  AppInv'
<1> DEFINE d == [pc |-> "readStep", submission |-> s, order |-> order, version |-> 0,
                 action |-> action, reason |-> reason]
<1>1. desk' = [desk EXCEPT ![a] = d] /\ UNCHANGED <<policy, actions, instances, creating>>
  BY DEF ReadInstance
<1>2. d \in Request
  BY DEF Request
<1>3. TypeOK'
  BY <1>1, <1>2 DEF AppInv, TypeOK, ReadInstance
<1>4. desk'[a] = d
  BY <1>1 DEF AppInv, TypeOK
<1>5. Rightful(s, order)
  BY DEF ReadInstance, AppInv, Settled
<1>6. 0 <= policy.version
  BY DEF AppInv, TypeOK
<1>7. Grounded(a)'
  BY <1>1, <1>4, <1>5, <1>6 DEF Grounded, Rightful, Endorsed
<1> QED
  BY <1>1, <1>3, <1>7, Desks

LEMMA RightfulStays ==
  ASSUME NEW s, NEW o, UNCHANGED <<policy, actions>>, Rightful(s, o)
  PROVE  Rightful(s, o)'
BY DEF Rightful, Endorsed

LEMMA StepCheckStep ==
  ASSUME AppInv, NEW a \in Approvers, ReadStep(a) \/ Check(a) \/ Notify(a) \/ Die(a)
  PROVE  AppInv'
<1>1. CASE ReadStep(a) /\ MayAct(a)
  <2>1. desk[a] \in Active /\ desk[a] # Idle
    BY <1>1, ActiveRequest DEF ReadStep, AppInv
  <2> DEFINE d == [desk[a] EXCEPT !.pc = "check", !.version = policy.version]
  <2>2. desk' = [desk EXCEPT ![a] = d] /\ UNCHANGED <<policy, actions, instances, creating>>
    BY <1>1 DEF ReadStep
  <2>3. d \in Request /\ d.submission = desk[a].submission /\ d.order = desk[a].order
        /\ d.version = policy.version /\ d.pc = "check"
    BY <2>1 DEF Active, Request, AppInv, TypeOK
  <2>4. TypeOK' /\ desk'[a] = d
    BY <1>1, <2>2, <2>3 DEF AppInv, TypeOK, ReadStep
  <2>5. policy.version <= policy.version
    BY DEF AppInv, TypeOK
  <2>6. PICK s \in Submissions, o \in Orders : s = desk[a].submission /\ o = desk[a].order
    BY <2>1 DEF Active
  <2>7. Rightful(s, o)'
    BY <2>1, <2>2, <2>6, RightfulStays DEF AppInv, Grounded
  <2> HIDE DEF d
  <2>8. Grounded(a)'
    BY <1>1, <2>2, <2>3, <2>4, <2>5, <2>6, <2>7 DEF Grounded, MayAct
  <2> QED
    BY <2>2, <2>4, <2>8, Desks
<1>2. CASE Check(a) /\ ~Processed(a)
  <2>1. desk[a] \in Active /\ desk[a] # Idle
    BY <1>2, ActiveRequest DEF Check, AppInv
  <2> DEFINE d == [desk[a] EXCEPT !.pc = "record"]
  <2>2. desk' = [desk EXCEPT ![a] = d] /\ UNCHANGED <<policy, actions, instances, creating>>
    BY <1>2 DEF Check, Goto
  <2>3. d \in Request /\ d.submission = desk[a].submission /\ d.order = desk[a].order
        /\ d.version = desk[a].version /\ d.pc = "record"
    BY <2>1 DEF Active, Request
  <2>4. TypeOK' /\ desk'[a] = d
    BY <1>2, <2>2, <2>3 DEF AppInv, TypeOK, Check
  <2>5. Grounded(a)'
    BY <1>2, <2>1, <2>2, <2>3, <2>4 DEF Grounded, Rightful, Endorsed, AppInv, Check
  <2> HIDE DEF d
  <2> QED
    BY <2>2, <2>4, <2>5, Desks
<1>3. CASE Notify(a)
  <2>1. desk[a] \in Active
    BY <1>3, ActiveRequest DEF Notify, AppInv
  <2>2. Note(a) \in {"FORM_WAITING_APPROVAL", "FORM_APPROVED", "FORM_REJECTED"}
                       \X Submissions \X (Roles \cup {NoRole})
    <3>1. ASSUME desk[a].order + 1 \in DOMAIN policy.roles
          PROVE  policy.roles[desk[a].order + 1] \in Roles
      BY <3>1 DEF AppInv, Policy
    <3> QED
      BY <2>1, <3>1 DEF Note, Active
  <2>3. TypeOK'
    BY <1>3, <2>2 DEF AppInv, TypeOK, Notify, Leave, Request
  <2> QED
    BY <1>3, <2>3, Desks DEF Notify, Leave
<1>4. CASE \/ ReadStep(a) /\ ~MayAct(a)
           \/ Check(a) /\ Processed(a)
           \/ Die(a)
  <2>1. Leave(a) /\ UNCHANGED <<policy, actions, instances, creating, notes>> /\ faults' \in Nat
    BY <1>4 DEF ReadStep, Check, Die, AppInv, TypeOK
  <2>2. TypeOK'
    BY <2>1 DEF AppInv, TypeOK, Leave, Request
  <2> QED
    BY <2>1, <2>2, Desks DEF Leave
<1> QED
  BY <1>1, <1>2, <1>3, <1>4

\* Recording an answer: the foreign key makes sure that it is to the policy in force.
LEMMA RecordStep ==
  ASSUME AppInv, NEW a \in Approvers, Record(a)
  PROVE  AppInv'
<1>0. desk[a] \in Active /\ desk[a] # Idle
  BY ActiveRequest DEF Record, AppInv
<1>1. CASE desk[a].version # policy.version
  <2>1. Leave(a) /\ UNCHANGED <<policy, actions, instances, creating, notes, faults>>
    BY <1>1 DEF Record
  <2>2. TypeOK'
    BY <2>1 DEF AppInv, TypeOK, Leave, Request
  <2> QED
    BY <2>1, <2>2, Desks DEF Leave
<1>2. CASE desk[a].version = policy.version
  <2>1. actions' = actions \cup {Row(a)} /\ UNCHANGED <<policy, instances, creating, notes, faults>>
    BY <1>2 DEF Record
  <2>2. PICK d \in Request : /\ desk' = [desk EXCEPT ![a] = d]
                             /\ d # Idle => /\ d = [desk[a] EXCEPT !.pc = "decide"]
                                            /\ d.submission = desk[a].submission /\ d.order = desk[a].order
                                            /\ d.version = desk[a].version /\ d.pc = "decide"
                                            /\ d.action = desk[a].action /\ d.reason = desk[a].reason
    <3>1. Idle \in Request /\ [desk[a] EXCEPT !.pc = "decide"] \in Request
      BY <1>0 DEF Request, Active
    <3>2. \/ desk' = [desk EXCEPT ![a] = Idle]
          \/ desk' = [desk EXCEPT ![a] = [desk[a] EXCEPT !.pc = "decide"]]
      BY <1>2 DEF Record, Leave, Goto
    <3> QED
      BY <1>0, <3>1, <3>2 DEF Active
  <2>3. \A b \in Approvers : desk'[b] = IF b = a THEN d ELSE desk[b]
    BY <2>2 DEF AppInv, TypeOK
  <2>4. TypeOK'
    <3>1. Row(a) \in Action
      BY <1>0 DEF Row, Action, Active
    <3>2. desk' \in [Approvers -> Request]
      BY <2>2 DEF AppInv, TypeOK
    <3> QED
      BY <2>1, <3>1, <3>2 DEF AppInv, TypeOK
  <2>5. ASSUME NEW row, row = Row(a) PROVE Current(row)'
    <3>1. desk[a].order \in DOMAIN policy.roles /\ policy.roles[desk[a].order] \in RolesOf[a]
      BY <1>0, <1>2 DEF AppInv, Grounded, Record
    <3> QED
      BY <1>2, <2>1, <2>5, <3>1 DEF Current, Row
  <2>6. ASSUME NEW s, NEW o, Rightful(s, o) PROVE Rightful(s, o)'
    BY <2>1, <2>6 DEF Rightful, Endorsed
  <2>7. ASSUME NEW s \in Submissions PROVE Settled(s)'
    <3>1. Rightful(s, instances[s].current)'
      <4>1. PICK o \in Orders \cup {None} : o = instances[s].current
        BY DEF AppInv, TypeOK, Instance
      <4>2. Rightful(s, o)'
        BY <4>1, <2>6 DEF AppInv, Settled
      <4> QED
        BY <2>1, <4>1, <4>2
    <3> QED
      BY <2>1, <3>1 DEF AppInv, Settled, Endorsed
  <2>8. ASSUME NEW b \in Approvers PROVE Grounded(b)'
    <3> SUFFICES ASSUME desk'[b] # Idle PROVE Grounded(b)'
      BY DEF Grounded
    <3>1. desk[b] \in Active /\ desk[b] # Idle
      BY <1>0, <2>3 DEF AppInv, TypeOK, Request, Active
    <3>2. desk'[b].submission = desk[b].submission /\ desk'[b].order = desk[b].order
          /\ desk'[b].version = desk[b].version
      BY <2>2, <2>3
    <3>3. PICK s \in Submissions, o \in Orders : s = desk[b].submission /\ o = desk[b].order
      BY <3>1 DEF Active
    <3>4. Rightful(s, o)'
      BY <2>6, <3>1, <3>3 DEF AppInv, Grounded
    <3>5. CASE b = a
      <4>1. d # Idle /\ desk'[a] = d
        BY <2>3, <3>5
      <4>2. Row(a)' = Row(a) /\ Row(a) \in actions'
        BY <2>1, <2>2, <4>1 DEF Row
      <4>3. desk[a].order \in DOMAIN policy.roles /\ policy.roles[desk[a].order] \in RolesOf[a]
            /\ desk[a].version <= policy.version
        BY <1>0, <1>2 DEF AppInv, Grounded, Record
      <4> QED
        BY <2>1, <3>2, <3>3, <3>4, <3>5, <4>2, <4>3 DEF Grounded
    <3>6. CASE b # a
      <4>1. desk'[b] = desk[b]
        BY <2>3, <3>6
      <4>2. Row(b)' = Row(b)
        BY <4>1 DEF Row
      <4> QED
        BY <2>1, <3>1, <3>3, <3>4, <4>1, <4>2 DEF AppInv, Grounded
    <3> QED
      BY <3>5, <3>6
  <2> QED
    <3>1. ASSUME NEW row \in actions' PROVE Current(row)'
      BY <2>1, <2>5 DEF AppInv, Current
    <3> QED
      BY <2>1, <2>4, <2>7, <2>8, <3>1 DEF AppInv
<1> QED
  BY <1>1, <1>2

\* The decision is written from what the request has read long ago: that is safe
\* because its answer is in, which keeps the policy as it is.
LEMMA DecideStep ==
  ASSUME AppInv, NEW a \in Approvers, Decide(a)
  PROVE  AppInv'
<1> DEFINE d == [desk[a] EXCEPT !.pc = "notify"]
           t == desk[a].submission
           o == desk[a].order
<1>0. desk[a] \in Active /\ desk[a] # Idle
  BY ActiveRequest DEF Decide, AppInv
<1>1. desk' = [desk EXCEPT ![a] = d] /\ UNCHANGED <<policy, actions, notes, creating, faults>>
  BY DEF Decide, Goto
<1>2. /\ d \in Request /\ d # Idle /\ d.pc = "notify"
      /\ d.submission = t /\ d.order = o
      /\ d.version = desk[a].version /\ d.action = desk[a].action /\ d.reason = desk[a].reason
  BY <1>0 DEF Active, Request, Idle
<1>3. desk'[a] = d
  BY <1>1 DEF AppInv, TypeOK
<1>4. /\ Rightful(t, o) /\ Row(a) \in actions
      /\ desk[a].version = policy.version /\ o \in DOMAIN policy.roles
      /\ policy.roles[o] \in RolesOf[a]
  BY <1>0 DEF AppInv, Grounded, Current, Row, Decide
<1>5. /\ o \in Orders
      /\ o + 1 \in DOMAIN policy.roles => o + 1 \in Orders
      /\ o + 1 \notin DOMAIN policy.roles => \A x \in DOMAIN policy.roles : x <= o
      /\ DOMAIN policy.roles \subseteq Orders
  BY <1>4, LastStep DEF AppInv
<1>6. instances' = [instances EXCEPT ![t] = Decided(a)] /\ t \in Submissions
  BY <1>0 DEF Decide, Active
<1>7. Decided(a) \in Instance
  BY <1>5, <1>6 DEF Decided, AppInv, TypeOK, Instance
<1>8. TypeOK'
  BY <1>1, <1>2, <1>6, <1>7 DEF AppInv, TypeOK
<1>9. desk[a].action # "REJECTED" => Endorsed(t, o)
  BY <1>4 DEF Endorsed, Row
<1>10. /\ Rightful(t, Decided(a).current)
       /\ Decided(a).status = "APPROVED" =>
            /\ \E row \in actions : row.submission = t
            /\ \A x \in DOMAIN policy.roles : Endorsed(t, x)
  <2>1. \E row \in actions : row.submission = t
    BY <1>4 DEF Row
  <2>2. CASE desk[a].action = "REJECTED"
    BY <1>5, <2>2 DEF Decided, Rightful, None, Orders
  <2>3. CASE desk[a].action # "REJECTED" /\ o + 1 \notin DOMAIN policy.roles
    <3>1. Decided(a) = [status |-> "APPROVED", current |-> None]
      BY <2>3 DEF Decided
    <3>2. ASSUME NEW x \in DOMAIN policy.roles PROVE Endorsed(t, x)
      <4>1. CASE x = o
        BY <1>9, <2>3, <4>1
      <4>2. CASE x < o
        BY <1>4, <4>2 DEF Rightful
      <4> QED
        BY <1>5, <2>3, <4>1, <4>2 DEF Orders
    <3> QED
      BY <1>5, <2>1, <3>1, <3>2 DEF Rightful, None, Orders
  <2>4. CASE desk[a].action # "REJECTED" /\ o + 1 \in DOMAIN policy.roles
    <3>1. Decided(a) = [instances[t] EXCEPT !.current = o + 1]
      BY <2>4 DEF Decided
    <3>2. instances[t] \in Instance
      BY <1>6 DEF AppInv, TypeOK
    <3>3. Decided(a).current = o + 1 /\ Decided(a).status = instances[t].status
      BY <3>1, <3>2 DEF Instance
    <3>4. ASSUME NEW x \in DOMAIN policy.roles, x < o + 1 PROVE Endorsed(t, x)
      <4>1. CASE x = o
        BY <1>9, <2>4, <4>1
      <4>2. CASE x < o
        BY <1>4, <4>2 DEF Rightful
      <4> QED
        BY <1>5, <3>4, <4>1, <4>2 DEF Orders
    <3> QED
      BY <1>6, <2>1, <3>3, <3>4 DEF Rightful, AppInv, Settled
  <2> QED
    BY <2>2, <2>3, <2>4
<1>11. ASSUME NEW s \in Submissions, s = t PROVE Settled(s)'
  <2>1. PICK i \in Instance : i = Decided(a)
    BY <1>7
  <2>2. instances'[s] = i
    BY <1>6, <1>11, <2>1 DEF AppInv, TypeOK
  <2>3. PICK c \in Orders \cup {None} : c = i.current
    BY DEF Instance
  <2>4. Rightful(s, c)'
    BY <1>1, <1>10, <1>11, <2>1, <2>3, RightfulStays
  <2>5. i.status = "APPROVED" => /\ \E row \in actions' : row.submission = s
                                 /\ \A x \in DOMAIN policy'.roles : Endorsed(s, x)'
    BY <1>1, <1>10, <1>11, <2>1 DEF Endorsed
  <2>6. creating[s].pc = "create" => creating[s].order = 1
    BY DEF AppInv, Settled
  <2> QED
    BY <1>1, <2>2, <2>3, <2>4, <2>5, <2>6 DEF Settled
<1>12. Grounded(a)'
  <2>1. PICK s \in Submissions, x \in Orders : s = t /\ x = o
    BY <1>5, <1>6
  <2>2. Rightful(s, x)'
    BY <1>1, <1>4, <2>1, RightfulStays
  <2>3. Row(a)' = Row(a)
    BY <1>2, <1>3 DEF Row
  <2>4. policy.version <= policy.version
    BY DEF AppInv, TypeOK
  <2> HIDE DEF d
  <2> QED
    BY <1>1, <1>2, <1>3, <1>4, <2>1, <2>2, <2>3, <2>4 DEF Grounded
<1>13. \A s \in Submissions : s # t => instances'[s] = instances[s]
  BY <1>6 DEF AppInv, TypeOK
<1>14. \A b \in Approvers : b # a => desk'[b] = desk[b]
  BY <1>1 DEF AppInv, TypeOK
<1> HIDE DEF d, t, o
<1> QED
  BY <1>1, <1>8, <1>11, <1>12, <1>13, <1>14, Framed

-----------------------------------------------------------------------------

LEMMA NextApp == AppInv /\ [Next]_vars => AppInv'
<1> SUFFICES ASSUME AppInv, [Next]_vars PROVE AppInv'
  OBVIOUS
<1>1. CASE UNCHANGED vars
  <2>1. TypeOK'
    BY <1>1 DEF vars, AppInv, TypeOK
  <2> QED
    BY <1>1, <2>1, Framed DEF vars
<1>2. CASE \E roles \in Policies : ReplacePolicy(roles)
  BY <1>2, ReplaceStep
<1>3. CASE \E s \in Submissions :
             Submit(s) \/ ReadPolicy(s) \/ CreateInstance(s) \/ NotifyFirst(s) \/ DieCreating(s)
  BY <1>3, CreatingStep
<1>4. CASE \E a \in Approvers, s \in Submissions, order \in Orders, action \in Verdicts, reason \in Reasons :
             ReadInstance(a, s, order, action, reason)
  BY <1>4, ReadingStep
<1>5. CASE \E a \in Approvers : ReadStep(a) \/ Check(a) \/ Notify(a) \/ Die(a)
  BY <1>5, StepCheckStep
<1>6. CASE \E a \in Approvers : Record(a)
  BY <1>6, RecordStep
<1>7. CASE \E a \in Approvers : Decide(a)
  BY <1>7, DecideStep
<1> QED
  BY <1>1, <1>2, <1>3, <1>4, <1>5, <1>6, <1>7 DEF Next

LEMMA AlwaysApp == Spec => []AppInv
BY InitApp, NextApp, PTL DEF Spec

\* Every request, row and notification of the approvals is what its readers take
\* it for, whatever dies and whatever policy is saved.
THEOREM ApprovalsTypes == Spec => []TypeOK
<1>1. AppInv => TypeOK
  BY DEF AppInv
<1> QED
  BY <1>1, AlwaysApp, PTL

\* approveStep moves a submission on only over endorsed steps, for every number of
\* submissions, approvers, requests at once, policies and faults.
THEOREM ApprovalsInOrder == Spec => []ReachedInOrder
<1>1. AppInv => ReachedInOrder
  BY DEF AppInv, Settled, Rightful, ReachedInOrder
<1> QED
  BY <1>1, AlwaysApp, PTL

\* No submission is ever approved without the endorsement of every step.
THEOREM ApprovalsEarned == Spec => []ApprovedIsEarned
<1>1. AppInv => ApprovedIsEarned
  BY DEF AppInv, Settled, ApprovedIsEarned
<1> QED
  BY <1>1, AlwaysApp, PTL

-----------------------------------------------------------------------------
(* Who waits for the holders of a role has told them, or is about to. *)

Told(s) == <<"FORM_WAITING_APPROVAL", s, policy.roles[instances[s].current]>> \in notes

\* A request under way will tell the holders of the role s waits for.
Telling(s) ==
  \/ creating[s].pc = "notify" /\ creating[s].order = instances[s].current
  \/ \E a \in Approvers : /\ desk[a].pc = "notify" /\ desk[a].submission = s
                          /\ desk[a].action # "REJECTED" /\ desk[a].order + 1 = instances[s].current

Due(s) ==
  /\ creating[s].pc \in {"create", "notify"} =>
       /\ creating[s].order \in DOMAIN policy.roles
       /\ creating[s].role = policy.roles[creating[s].order]
  /\ instances[s].status = "PENDING" =>
       instances[s].current \in DOMAIN policy.roles /\ (Told(s) \/ Telling(s))

DueInv ==
  /\ policy.version >= 1
  /\ faults = 0 /\ policy.version = 1 => \A s \in Submissions : Due(s)

LEMMA InitDue == Init => DueInv
BY DEF Init, DueInv, Due

\* What a step does not touch stays due, and a request that is to tell is kept.
LEMMA DueStays ==
  ASSUME NEW s \in Submissions, Due(s), policy' = policy, notes \subseteq notes',
         instances'[s] = instances[s], creating'[s] = creating[s],
         \A a \in Approvers : desk[a].pc = "notify" => desk'[a] = desk[a]
  PROVE  Due(s)'
BY DEF Due, Told, Telling

LEMMA DueCreating ==
  ASSUME AppInv, NEW s \in Submissions, Due(s),
         Submit(s) \/ ReadPolicy(s) \/ CreateInstance(s) \/ NotifyFirst(s)
  PROVE  Due(s)'
<1> DEFINE c == creating[s]
<1>0. c \in Creating /\ instances[s] \in Instance
  BY DEF AppInv, TypeOK
<1>1. CASE Submit(s)
  <2>1. creating'[s] = [c EXCEPT !.pc = "readPolicy"] /\ UNCHANGED <<policy, instances, notes, desk>>
    BY <1>1 DEF Submit, AppInv, TypeOK
  <2>2. creating'[s].pc = "readPolicy" /\ c.pc = "new"
    BY <1>0, <1>1, <2>1 DEF Submit, Creating
  <2> HIDE DEF c
  <2> QED
    BY <2>1, <2>2 DEF Due, Told, Telling, c
<1>2. CASE ReadPolicy(s)
  <2>1. UNCHANGED <<policy, instances, notes, desk>> /\ c.pc = "readPolicy"
    BY <1>2 DEF ReadPolicy
  <2>2. CASE DOMAIN policy.roles = {}
    <3>1. creating'[s].pc = "done"
      BY <1>0, <1>2, <2>2 DEF ReadPolicy, AppInv, TypeOK, Creating
    <3> QED
      BY <2>1, <3>1 DEF Due, Told, Telling
  <2>3. CASE DOMAIN policy.roles # {}
    <3>1. 1 \in DOMAIN policy.roles /\ Min(DOMAIN policy.roles) = 1
      BY <2>3, FirstIsOne DEF AppInv
    <3>2. creating'[s] = [pc |-> "create", order |-> 1, role |-> policy.roles[1]]
      BY <1>2, <2>3, <3>1 DEF ReadPolicy, AppInv, TypeOK
    <3> QED
      BY <2>1, <3>1, <3>2 DEF Due, Told, Telling
  <2> QED
    BY <2>2, <2>3
<1>3. CASE CreateInstance(s)
  <2>1. UNCHANGED <<policy, notes, desk>> /\ c.pc = "create"
    BY <1>3 DEF CreateInstance
  <2>2. creating'[s] = [c EXCEPT !.pc = "notify"]
        /\ instances'[s] = [status |-> "PENDING", current |-> c.order]
    BY <1>3 DEF CreateInstance, AppInv, TypeOK
  <2>3. creating'[s].pc = "notify" /\ creating'[s].order = c.order /\ creating'[s].role = c.role
        /\ instances'[s].current = c.order
    BY <1>0, <2>2 DEF Creating
  <2>4. c.order \in DOMAIN policy.roles /\ c.role = policy.roles[c.order]
    BY <2>1 DEF Due
  <2> HIDE DEF c
  <2> QED
    BY <2>1, <2>3, <2>4 DEF Due, Told, Telling
<1>4. CASE NotifyFirst(s)
  <2>1. UNCHANGED <<policy, instances, desk>> /\ c.pc = "notify"
        /\ notes' = notes \cup {<<"FORM_WAITING_APPROVAL", s, c.role>>}
    BY <1>4 DEF NotifyFirst
  <2>2. creating'[s].pc = "done"
    BY <1>0, <1>4 DEF NotifyFirst, AppInv, TypeOK, Creating
  <2>3. c.order \in DOMAIN policy.roles /\ c.role = policy.roles[c.order]
    BY <2>1 DEF Due
  <2>4. c.order = instances[s].current => Told(s)'
    BY <2>1, <2>3 DEF Told
  <2> QED
    BY <2>1, <2>2, <2>4 DEF Due, Told, Telling
<1> QED
  BY <1>1, <1>2, <1>3, <1>4

\* The decision on one step makes its own request the one that tells the next role.
LEMMA DueDeciding ==
  ASSUME AppInv, NEW a \in Approvers, Decide(a), NEW s \in Submissions, Due(s)
  PROVE  Due(s)'
<1> DEFINE t == desk[a].submission
<1>0. desk[a] \in Active /\ desk[a].pc = "decide"
  BY ActiveRequest DEF Decide, AppInv
<1>1. UNCHANGED <<policy, notes, creating>>
      /\ instances' = [instances EXCEPT ![t] = Decided(a)]
      /\ desk' = [desk EXCEPT ![a].pc = "notify"]
  BY DEF Decide, Goto
<1>2. CASE s # t
  <2>1. instances'[s] = instances[s]
    BY <1>1, <1>2 DEF AppInv, TypeOK
  <2>2. \A b \in Approvers : desk[b].pc = "notify" => desk'[b] = desk[b]
    BY <1>0, <1>1 DEF AppInv, TypeOK
  <2> QED
    BY <1>1, <2>1, <2>2, DueStays
<1>3. CASE s = t
  <2>1. instances'[s] = Decided(a)
    BY <1>1, <1>3 DEF AppInv, TypeOK
  <2>2. SUFFICES ASSUME Decided(a).status = "PENDING"
                 PROVE  /\ instances'[s].current \in DOMAIN policy'.roles
                        /\ Telling(s)'
    BY <1>1, <2>1 DEF Due
  <2>3. desk[a].action # "REJECTED" /\ desk[a].order + 1 \in DOMAIN policy.roles
        /\ Decided(a) = [instances[t] EXCEPT !.current = desk[a].order + 1]
    BY <2>2 DEF Decided
  <2>4. instances'[s].current = desk[a].order + 1
    BY <1>3, <2>1, <2>3 DEF AppInv, TypeOK, Instance
  <2>5. desk'[a].pc = "notify" /\ desk'[a].submission = s /\ desk'[a].order = desk[a].order
        /\ desk'[a].action = desk[a].action
    BY <1>0, <1>1, <1>3 DEF AppInv, TypeOK, Active
  <2> QED
    BY <1>1, <2>3, <2>4, <2>5 DEF Telling
<1> QED
  BY <1>2, <1>3

LEMMA DueTelling ==
  ASSUME AppInv, NEW a \in Approvers, Notify(a), NEW s \in Submissions, Due(s)
  PROVE  Due(s)'
<1>1. UNCHANGED <<policy, instances, creating>> /\ notes' = notes \cup {Note(a)}
      /\ \A b \in Approvers : b # a => desk'[b] = desk[b]
  BY DEF Notify, Leave, AppInv, TypeOK
<1>2. SUFFICES ASSUME instances[s].status = "PENDING"
               PROVE  Told(s)' \/ Telling(s)'
  BY <1>1 DEF Due
<1>3. instances[s].current \in DOMAIN policy.roles /\ (Told(s) \/ Telling(s))
  BY <1>2 DEF Due
<1>4. CASE desk[a].submission = s /\ desk[a].action # "REJECTED" /\ desk[a].order + 1 = instances[s].current
  <2>1. Note(a) = <<"FORM_WAITING_APPROVAL", s, policy.roles[instances[s].current]>>
    BY <1>3, <1>4 DEF Note
  <2> QED
    BY <1>1, <2>1 DEF Told
<1>5. CASE ~(desk[a].submission = s /\ desk[a].action # "REJECTED" /\ desk[a].order + 1 = instances[s].current)
  BY <1>1, <1>3, <1>5 DEF Told, Telling
<1> QED
  BY <1>4, <1>5

LEMMA NextDue == AppInv /\ DueInv /\ [Next]_vars => DueInv'
<1> SUFFICES ASSUME AppInv, DueInv, [Next]_vars PROVE DueInv'
  OBVIOUS
<1> USE DEF DueInv
<1>0. policy.version \in Nat /\ faults \in Nat
  BY DEF AppInv, TypeOK
<1>1. CASE UNCHANGED vars
  <2>1. UNCHANGED <<policy, instances, notes, creating, desk, faults>>
    BY <1>1 DEF vars
  <2> QED
    BY <2>1, DueStays
<1>2. ASSUME NEW roles \in Policies, ReplacePolicy(roles) PROVE DueInv'
  <2>1. policy'.version = policy.version + 1
    BY <1>2 DEF ReplacePolicy
  <2> QED
    BY <1>0, <2>1
<1>3. ASSUME NEW s \in Submissions, Submit(s) \/ ReadPolicy(s) \/ CreateInstance(s) \/ NotifyFirst(s)
      PROVE DueInv'
  <2>1. UNCHANGED <<policy, faults, desk>> /\ notes \subseteq notes'
        /\ \A r \in Submissions : r # s => instances'[r] = instances[r] /\ creating'[r] = creating[r]
    BY <1>3 DEF Submit, ReadPolicy, CreateInstance, NotifyFirst, AppInv, TypeOK
  <2>2. ASSUME NEW r \in Submissions, Due(r) PROVE Due(r)'
    <3>1. CASE r = s
      BY <1>3, <2>2, <3>1, DueCreating
    <3>2. CASE r # s
      BY <2>1, <2>2, <3>2, DueStays
    <3> QED
      BY <3>1, <3>2
  <2> QED
    BY <2>1, <2>2
<1>4. ASSUME NEW s \in Submissions, DieCreating(s) PROVE DueInv'
  BY <1>0, <1>4 DEF DieCreating
<1>5. ASSUME NEW a \in Approvers, Die(a) PROVE DueInv'
  BY <1>0, <1>5 DEF Die
<1>6. ASSUME NEW a \in Approvers,
             \/ \E s \in Submissions, order \in Orders, action \in Verdicts, reason \in Reasons :
                  ReadInstance(a, s, order, action, reason)
             \/ ReadStep(a) \/ Check(a) \/ Record(a)
      PROVE DueInv'
  <2>1. UNCHANGED <<policy, faults, instances, creating, notes>> /\ desk[a].pc # "notify"
    BY <1>6 DEF ReadInstance, ReadStep, Check, Record, Idle
  <2>2. \A b \in Approvers : b # a => desk'[b] = desk[b]
    BY <1>6 DEF ReadInstance, ReadStep, Check, Record, Leave, Goto, AppInv, TypeOK
  <2> QED
    BY <2>1, <2>2, DueStays
<1>7. ASSUME NEW a \in Approvers, Decide(a) \/ Notify(a) PROVE DueInv'
  <2>1. UNCHANGED <<policy, faults>>
    BY <1>7 DEF Decide, Notify
  <2> QED
    BY <1>7, <2>1, DueDeciding, DueTelling
<1> QED
  BY <1>1, <1>2, <1>3, <1>4, <1>5, <1>6, <1>7 DEF Next

\* Whoever must act next on a pending submission has been told, for every number of
\* submissions, approvers and requests at once, as long as no request dies and no
\* other policy is saved.
THEOREM RolesAreNotified == Spec => []DueRoleIsNotified
<1>1. AppInv /\ DueInv => DueRoleIsNotified
  <2> SUFFICES ASSUME AppInv, DueInv, NEW s \in Submissions,
                      instances[s].status = "PENDING", faults = 0, policy.version = 1,
                      creating[s].pc = "done", \A a \in InFlight : desk[a].submission # s
               PROVE  instances[s].current \in DOMAIN policy.roles /\ Told(s)
    BY DEF DueRoleIsNotified, Told
  <2>1. instances[s].current \in DOMAIN policy.roles /\ (Told(s) \/ Telling(s))
    BY DEF DueInv, Due
  <2>2. ASSUME NEW a \in Approvers, desk[a].pc = "notify" PROVE desk[a].submission # s
    BY <2>2 DEF InFlight, Idle
  <2> QED
    BY <2>1, <2>2 DEF Telling
<1>2. Spec => []DueInv
  BY InitDue, NextDue, AlwaysApp, PTL DEF Spec
<1> QED
  BY <1>1, <1>2, AlwaysApp, PTL

-----------------------------------------------------------------------------
(* What a pending submission waits for.  A step below the current one was   *)
(* answered and decided; an answer to the current one is either about to be *)
(* decided or a rejection that was refused.  A late decision moves the      *)
(* submission back only when its step was decided before, by someone else.  *)

On(s) == {row \in actions : row.submission = s}
Refused(row) == row.action = "REJECTED" /\ ~row.reason
Deciding(row) == desk[row.approver].pc = "decide" /\ Row(row.approver) = row

\* An approver answers a step once, although the check and the answer are apart.
Unrepeated ==
  /\ \A row, other \in actions :
       row.submission = other.submission /\ row.order = other.order /\ row.approver = other.approver
       => row = other
  /\ \A a \in Approvers : desk[a].pc = "record" /\ desk[a].version = policy.version =>
       \A row \in actions :
         ~(row.submission = desk[a].submission /\ row.order = desk[a].order /\ row.approver = a)

\* Nobody answers for a submission before its instance is there.
Fresh(s) ==
  /\ creating[s].pc \in {"new", "readPolicy", "create"} => instances[s].status = "NONE"
  /\ instances[s].status = "NONE" =>
       On(s) = {} /\ \A a \in Approvers : desk[a] # Idle => desk[a].submission # s

Gone(s) ==
  /\ \A row \in On(s) :
       /\ row.order <= instances[s].current
       /\ row.order = instances[s].current => Refused(row) \/ Deciding(row)
  /\ \A o \in Orders : o < instances[s].current => \E row \in On(s) : row.order = o /\ ~Deciding(row)
  /\ \A a \in Approvers : desk[a] # Idle /\ desk[a].submission = s => desk[a].order <= instances[s].current

Undisturbed(s) == faults = 0 /\ instances[s].status = "PENDING" /\ ~AnsweredTwice(s)

StuckInv ==
  /\ Unrepeated
  /\ \A s \in Submissions : Fresh(s) /\ (Undisturbed(s) => Gone(s))

LEMMA InitStuck == Init => StuckInv
<1> SUFFICES ASSUME Init PROVE StuckInv
  OBVIOUS
<1>1. actions = {} /\ \A a \in Approvers : desk[a] = Idle
  BY DEF Init
<1>2. Unrepeated
  BY <1>1 DEF Unrepeated, Idle
<1>3. ASSUME NEW s \in Submissions PROVE Fresh(s) /\ instances[s].status # "PENDING"
  BY <1>1 DEF Init, Fresh, On
<1> QED
  BY <1>2, <1>3 DEF StuckInv, Undisturbed

\* The existing-action check and the foreign key together keep an approver's
\* answers to one step apart.
LEMMA UnrepeatedStays ==
  ASSUME AppInv, Unrepeated, Next
  PROVE  Unrepeated'
<1> USE DEF AppInv, TypeOK
<1>1. CASE \E roles \in Policies : ReplacePolicy(roles)
  <2>1. actions = {} /\ actions' = {}
    BY <1>1 DEF ReplacePolicy, Current
  <2> QED
    BY <2>1 DEF Unrepeated
<1>2. ASSUME NEW a \in Approvers, Check(a), ~Processed(a) PROVE Unrepeated'
  <2>1. UNCHANGED <<policy, actions>> /\ desk' = [desk EXCEPT ![a].pc = "record"]
    BY <1>2 DEF Check, Goto
  <2>2. desk[a] \in Active
    BY <1>2, ActiveRequest DEF Check
  <2>3. desk'[a].submission = desk[a].submission /\ desk'[a].order = desk[a].order
        /\ desk'[a].version = desk[a].version
    BY <2>1, <2>2 DEF Active
  <2>4. \A b \in Approvers : b # a => desk'[b] = desk[b]
    BY <2>1
  <2>5. ASSUME desk[a].version = policy.version, NEW row \in actions
        PROVE  ~(row.submission = desk[a].submission /\ row.order = desk[a].order)
    <3>1. row.version = policy.version
      BY DEF Current
    <3> QED
      BY <1>2, <2>5, <3>1 DEF Processed
  <2> HIDE DEF AppInv, TypeOK
  <2> QED
    BY <2>1, <2>3, <2>4, <2>5 DEF Unrepeated
<1>3. ASSUME NEW a \in Approvers, Record(a) PROVE Unrepeated'
  <2>1. desk[a].pc = "record" /\ policy' = policy /\ \A b \in Approvers : b # a => desk'[b] = desk[b]
    BY <1>3 DEF Record, Leave, Goto
  <2>2. desk'[a].pc # "record"
    <3>1. desk[a] \in Active
      BY <2>1, ActiveRequest
    <3> QED
      BY <1>3, <3>1 DEF Record, Leave, Goto, Idle, Active
  <2>3. CASE desk[a].version # policy.version
    <3>1. actions' = actions
      BY <1>3, <2>3 DEF Record
    <3> HIDE DEF AppInv, TypeOK
    <3> QED
      BY <2>1, <2>2, <3>1 DEF Unrepeated
  <2>4. CASE desk[a].version = policy.version
    <3>1. actions' = actions \cup {Row(a)}
      BY <1>3, <2>4 DEF Record
    <3>2. Row(a).submission = desk[a].submission /\ Row(a).order = desk[a].order /\ Row(a).approver = a
      BY DEF Row
    <3>3. \A row \in actions :
            ~(row.submission = desk[a].submission /\ row.order = desk[a].order /\ row.approver = a)
      BY <2>1, <2>4 DEF Unrepeated
    <3> HIDE DEF AppInv, TypeOK
    <3>4. \A row, other \in actions' :
            row.submission = other.submission /\ row.order = other.order /\ row.approver = other.approver
            => row = other
      BY <3>1, <3>2, <3>3 DEF Unrepeated
    <3>5. ASSUME NEW b \in Approvers, desk'[b].pc = "record", desk'[b].version = policy'.version,
                 NEW row \in actions'
          PROVE  ~(row.submission = desk'[b].submission /\ row.order = desk'[b].order /\ row.approver = b)
      BY <2>1, <2>2, <3>1, <3>2, <3>5 DEF Unrepeated
    <3> QED
      BY <3>4, <3>5 DEF Unrepeated
  <2> QED
    BY <2>3, <2>4
<1>4. ASSUME UNCHANGED <<policy, actions>>,
             \A a \in Approvers : desk'[a] = desk[a] \/ desk'[a].pc # "record"
      PROVE  Unrepeated'
  BY <1>4 DEF Unrepeated
<1>5. CASE \E s \in Submissions :
             Submit(s) \/ ReadPolicy(s) \/ CreateInstance(s) \/ NotifyFirst(s) \/ DieCreating(s)
  <2>1. UNCHANGED <<policy, actions, desk>>
    BY <1>5 DEF Submit, ReadPolicy, CreateInstance, NotifyFirst, DieCreating
  <2> HIDE DEF AppInv, TypeOK
  <2> QED
    BY <1>4, <2>1
<1>6. ASSUME NEW a \in Approvers,
             \/ \E s \in Submissions, order \in Orders, action \in Verdicts, reason \in Reasons :
                  ReadInstance(a, s, order, action, reason)
             \/ ReadStep(a) \/ (Check(a) /\ Processed(a)) \/ Decide(a) \/ Notify(a) \/ Die(a)
      PROVE  Unrepeated'
  <2>1. UNCHANGED <<policy, actions>> /\ \A b \in Approvers : b # a => desk'[b] = desk[b]
    BY <1>6 DEF ReadInstance, ReadStep, Check, Decide, Notify, Die, Leave, Goto
  <2>2. desk'[a].pc # "record"
    <3>1. ASSUME desk[a].pc # "idle" PROVE desk[a] \in Active
      BY <3>1, ActiveRequest
    <3> QED
      BY <1>6, <3>1 DEF ReadInstance, ReadStep, Check, Decide, Notify, Die, Leave, Goto, Idle, Active
  <2> HIDE DEF AppInv, TypeOK
  <2> QED
    BY <1>4, <2>1, <2>2
<1> HIDE DEF AppInv, TypeOK
<1> QED
  BY <1>1, <1>2, <1>3, <1>5, <1>6 DEF Next

\* Answers and requests come after the instance, which never goes away.
LEMMA FreshStays ==
  ASSUME AppInv, Next, NEW s \in Submissions, Fresh(s)
  PROVE  Fresh(s)'
<1> USE DEF AppInv, TypeOK
<1>1. ASSUME UNCHANGED <<instances, actions>>,
             creating'[s] = creating[s] \/ creating'[s].pc = "done"
               \/ (creating[s].pc \in {"new", "readPolicy"} /\ creating'[s].pc \in {"readPolicy", "create"}),
             \A a \in Approvers : \/ desk'[a] = Idle
                                  \/ desk[a] # Idle /\ desk'[a].submission = desk[a].submission
                                  \/ instances[s].status # "NONE"
                                  \/ desk'[a].submission # s
      PROVE  Fresh(s)'
  <2> HIDE DEF AppInv, TypeOK
  <2> QED
    BY <1>1 DEF Fresh, On
<1>2. CASE \E roles \in Policies : ReplacePolicy(roles)
  <2>1. UNCHANGED <<instances, actions, creating, desk>>
    BY <1>2 DEF ReplacePolicy
  <2> HIDE DEF AppInv, TypeOK
  <2> QED
    BY <2>1 DEF Fresh, On
<1>3. ASSUME NEW r \in Submissions, Submit(r) \/ ReadPolicy(r) \/ NotifyFirst(r) \/ DieCreating(r)
      PROVE  Fresh(s)'
  <2>1. UNCHANGED <<instances, actions, desk>>
    BY <1>3 DEF Submit, ReadPolicy, NotifyFirst, DieCreating
  <2>2. creating'[s] = creating[s] \/ creating'[s].pc = "done"
               \/ (creating[s].pc \in {"new", "readPolicy"} /\ creating'[s].pc \in {"readPolicy", "create"})
    BY <1>3 DEF Submit, ReadPolicy, NotifyFirst, DieCreating, Creating
  <2> HIDE DEF AppInv, TypeOK
  <2> QED
    BY <2>1, <2>2 DEF Fresh, On
<1>4. ASSUME NEW r \in Submissions, CreateInstance(r) PROVE Fresh(s)'
  <2>1. UNCHANGED <<actions, desk>>
    BY <1>4 DEF CreateInstance
  <2>2. CASE r = s
    <3>1. creating'[s].pc = "notify" /\ instances'[s].status = "PENDING"
      BY <1>4, <2>2 DEF CreateInstance, Creating
    <3> QED
      BY <3>1 DEF Fresh
  <2>3. CASE r # s
    <3>1. creating'[s] = creating[s] /\ instances'[s] = instances[s]
      BY <1>4, <2>3 DEF CreateInstance
    <3> HIDE DEF AppInv, TypeOK
    <3> QED
      BY <2>1, <3>1 DEF Fresh, On
  <2> QED
    BY <2>2, <2>3
<1>5. ASSUME NEW a \in Approvers,
             \/ \E t \in Submissions, order \in Orders, action \in Verdicts, reason \in Reasons :
                  ReadInstance(a, t, order, action, reason)
             \/ ReadStep(a) \/ Check(a) \/ Notify(a) \/ Die(a)
      PROVE  Fresh(s)'
  <2>1. UNCHANGED <<instances, actions, creating>> /\ \A b \in Approvers : b # a => desk'[b] = desk[b]
    BY <1>5 DEF ReadInstance, ReadStep, Check, Notify, Die, Leave, Goto
  <2>2. \/ desk'[a] = Idle
        \/ desk[a] # Idle /\ desk'[a].submission = desk[a].submission
        \/ instances[s].status # "NONE"
        \/ desk'[a].submission # s
    <3>1. ASSUME desk[a].pc # "idle" PROVE desk[a] \in Active /\ desk[a] # Idle
      BY <3>1, ActiveRequest
    <3>2. CASE \E t \in Submissions, order \in Orders, action \in Verdicts, reason \in Reasons :
                  ReadInstance(a, t, order, action, reason)
      <4>1. PICK t \in Submissions : instances[t].status = "PENDING" /\ desk'[a].submission = t
        BY <3>2 DEF ReadInstance
      <4> QED
        BY <4>1
    <3>3. CASE ReadStep(a) \/ Check(a) \/ Notify(a) \/ Die(a)
      BY <3>1, <3>3 DEF ReadStep, Check, Notify, Die, Leave, Goto, Active, Idle
    <3> QED
      BY <1>5, <3>2, <3>3
  <2> HIDE DEF AppInv, TypeOK
  <2> QED
    BY <1>1, <2>1, <2>2
<1>6. ASSUME NEW a \in Approvers, Record(a) PROVE Fresh(s)'
  <2>1. UNCHANGED <<instances, creating>> /\ \A b \in Approvers : b # a => desk'[b] = desk[b]
    BY <1>6 DEF Record, Leave, Goto
  <2>2. desk[a] \in Active /\ desk[a] # Idle
    BY <1>6, ActiveRequest DEF Record
  <2>3. desk'[a] = Idle \/ desk'[a].submission = desk[a].submission
    BY <1>6, <2>2 DEF Record, Leave, Goto, Active
  <2>4. \A row \in actions' : row \in actions \/ row.submission = desk[a].submission
    BY <1>6 DEF Record, Row
  <2> HIDE DEF AppInv, TypeOK
  <2> QED
    BY <2>1, <2>2, <2>3, <2>4 DEF Fresh, On
<1>7. ASSUME NEW a \in Approvers, Decide(a) PROVE Fresh(s)'
  <2>1. UNCHANGED <<actions, creating>> /\ \A b \in Approvers : b # a => desk'[b] = desk[b]
    BY <1>7 DEF Decide, Goto
  <2>2. desk[a] \in Active /\ desk[a] # Idle
    BY <1>7, ActiveRequest DEF Decide
  <2>3. CASE desk[a].submission # s
    <3>1. instances'[s] = instances[s] /\ desk'[a].submission # s
      BY <1>7, <2>2, <2>3 DEF Decide, Goto, Active
    <3> HIDE DEF AppInv, TypeOK
    <3> QED
      BY <2>1, <3>1 DEF Fresh, On
  <2>4. CASE desk[a].submission = s
    <3>1. instances[s].status # "NONE"
      BY <2>2, <2>4 DEF Fresh
    <3>2. instances'[s].status # "NONE"
      <4>1. instances'[s] = Decided(a) /\ instances[s] \in Instance
        BY <1>7, <2>4 DEF Decide
      <4> QED
        BY <2>4, <3>1, <4>1 DEF Decided, Instance
    <3> HIDE DEF AppInv, TypeOK
    <3> QED
      BY <2>1, <3>1, <3>2 DEF Fresh
  <2> QED
    BY <2>3, <2>4
<1> HIDE DEF AppInv, TypeOK
<1> QED
  BY <1>2, <1>3, <1>4, <1>5, <1>6, <1>7 DEF Next

\* Two answers to one step stay two answers.
LEMMA TwiceStays ==
  ASSUME NEW s, actions \subseteq actions', AnsweredTwice(s)
  PROVE  AnsweredTwice(s)'
BY DEF AnsweredTwice

LEMMA AnswersStay ==
  ASSUME AppInv, Next
  PROVE  actions \subseteq actions'
BY DEF Next, ReplacePolicy, Submit, ReadPolicy, CreateInstance, NotifyFirst, DieCreating,
       ReadInstance, ReadStep, Check, Record, Decide, Notify, Die

\* What no decision is about to change depends on the answers and on the instance.
LEMMA GoneStays ==
  ASSUME NEW s \in Submissions, Gone(s), instances'[s] = instances[s], actions' = actions,
         \A a \in Approvers :
           /\ \/ desk'[a] = desk[a]
              \/ desk[a].pc # "decide" /\ desk'[a].pc # "decide"
              \/ desk[a].submission # s /\ desk'[a].submission # s
           /\ desk'[a] # Idle /\ desk'[a].submission = s => desk'[a].order <= instances[s].current,
         \A row \in actions : row.approver \in Approvers
  PROVE  Gone(s)'
<1>1. ASSUME NEW row \in On(s) PROVE Deciding(row)' <=> Deciding(row)
  <2>1. row.approver \in Approvers /\ row.submission = s
    BY DEF On
  <2>2. CASE desk'[row.approver] = desk[row.approver]
    BY <2>2 DEF Deciding, Row
  <2>3. CASE desk[row.approver].pc # "decide" /\ desk'[row.approver].pc # "decide"
    BY <2>3 DEF Deciding
  <2>4. CASE desk[row.approver].submission # s /\ desk'[row.approver].submission # s
    BY <2>1, <2>4 DEF Deciding, Row
  <2> QED
    BY <2>1, <2>2, <2>3, <2>4
<1>2. On(s)' = On(s)
  BY DEF On
<1> QED
  BY <1>1, <1>2 DEF Gone, Refused

\* An answer to the current step is decided next, unless it is refused.
LEMMA GoneRecording ==
  ASSUME AppInv, Unrepeated, NEW a \in Approvers, Record(a), NEW s \in Submissions, Gone(s)
  PROVE  Gone(s)'
<1>0. desk[a] \in Active /\ desk[a] # Idle /\ desk[a].pc = "record"
  BY ActiveRequest DEF Record, AppInv
<1> PICK R \in Action : R = Row(a)
  BY <1>0 DEF Row, Active, Action
<1>1. UNCHANGED <<policy, instances>> /\ \A b \in Approvers : b # a => desk'[b] = desk[b]
  BY DEF Record, Leave, Goto, AppInv, TypeOK
<1>2. \/ desk'[a] = Idle
      \/ /\ desk'[a].pc = "decide" /\ desk'[a].submission = desk[a].submission /\ desk'[a].order = desk[a].order
         /\ Row(a)' = R /\ desk[a].version = policy.version
  BY <1>0 DEF Record, Leave, Goto, AppInv, TypeOK, Active, Row
<1>3. \A row \in actions : row.approver \in Approvers
  BY DEF AppInv, TypeOK, Action
<1>4. CASE desk[a].version # policy.version
  <2>1. actions' = actions /\ desk'[a] = Idle
    BY <1>4 DEF Record, Leave, AppInv, TypeOK
  <2> QED
    <3>1. \A b \in Approvers :
           /\ desk'[b] = desk[b] \/ (desk[b].pc # "decide" /\ desk'[b].pc # "decide")
           /\ desk'[b] # Idle /\ desk'[b].submission = s => desk'[b].order <= instances[s].current
      BY <1>0, <1>1, <2>1 DEF Gone, Idle
    <3> QED
      BY <1>1, <1>3, <2>1, <3>1, GoneStays
<1>5. CASE desk[a].version = policy.version
  <2>1. actions' = actions \cup {R}
    BY <1>5 DEF Record
  <2>2. R.submission = desk[a].submission /\ R.order = desk[a].order /\ R.approver = a
        /\ R.action = desk[a].action /\ R.reason = desk[a].reason
    BY DEF Row
  <2>3. \A row \in actions :
          ~(row.submission = desk[a].submission /\ row.order = desk[a].order /\ row.approver = a)
    BY <1>0, <1>5 DEF Unrepeated
  <2>4. Refused(R) \/ (desk'[a].pc = "decide" /\ Row(a)' = R)
    <3>1. (desk[a].action = "REJECTED" /\ ~desk[a].reason) \/ desk' = [desk EXCEPT ![a].pc = "decide"]
      BY <1>5 DEF Record, Goto
    <3>2. CASE desk[a].action = "REJECTED" /\ ~desk[a].reason
      BY <2>2, <3>2 DEF Refused
    <3>3. CASE desk' = [desk EXCEPT ![a].pc = "decide"]
      <4>1. desk'[a].pc = "decide"
        BY <1>0, <3>3 DEF AppInv, TypeOK, Active
      <4> QED
        BY <1>2, <4>1 DEF Idle
    <3> QED
      BY <3>1, <3>2, <3>3
  <2>5. ASSUME NEW row \in On(s) PROVE Deciding(row)' <=> Deciding(row)
    <3>1. row \in actions /\ row.approver \in Approvers /\ row.submission = s
      BY <1>3 DEF On
    <3>2. CASE row.approver # a
      BY <1>1, <3>1, <3>2 DEF Deciding, Row
    <3>3. CASE row.approver = a
      <4>1. ~Deciding(row)
        BY <1>0, <3>3 DEF Deciding
      <4>2. ~Deciding(row)'
        BY <1>2, <2>2, <2>3, <3>1, <3>3 DEF Deciding, Idle
      <4> QED
        BY <4>1, <4>2
    <3> QED
      BY <3>2, <3>3
  <2>6. R.submission = s => R.order <= instances[s].current
    BY <1>0, <2>2 DEF Gone
  <2>7. Refused(R) \/ Deciding(R)'
    BY <2>2, <2>4 DEF Deciding
  <2>8. On(s) \subseteq On(s)' /\ \A row \in On(s)' : row \in On(s) \/ (row = R /\ R.submission = s)
    BY <2>1 DEF On
  <2>9. ASSUME NEW row \in On(s)'
        PROVE  /\ row.order <= instances[s].current
               /\ row.order = instances[s].current => Refused(row) \/ Deciding(row)'
    <3>1. CASE row \in On(s)
      BY <2>5, <3>1 DEF Gone
    <3>2. CASE row = R /\ R.submission = s
      BY <2>6, <2>7, <3>2
    <3> QED
      BY <2>8, <3>1, <3>2
  <2>10. ASSUME NEW o \in Orders, o < instances[s].current
         PROVE  \E row \in On(s)' : row.order = o /\ ~Deciding(row)'
    BY <2>5, <2>8, <2>10 DEF Gone
  <2>11. ASSUME NEW b \in Approvers, desk'[b] # Idle, desk'[b].submission = s
         PROVE  desk'[b].order <= instances[s].current
    BY <1>0, <1>1, <1>2, <2>11 DEF Gone
  <2> QED
    BY <1>1, <2>9, <2>10, <2>11 DEF Gone, Refused
<1> QED
  BY <1>4, <1>5

\* A decision on a step that was decided before is a second answer to it: when
\* there is none, the decision is on the current step and moves the submission on.
LEMMA GoneDeciding ==
  ASSUME AppInv, Unrepeated, NEW a \in Approvers, Decide(a), NEW s \in Submissions, Gone(s),
         ~AnsweredTwice(s), instances'[s].status = "PENDING"
  PROVE  Gone(s)'
<1> PICK R \in actions : R = Row(a)
  BY ActiveRequest DEF AppInv, Grounded, Decide
<1> PICK o \in Orders : o = desk[a].order
  BY ActiveRequest DEF Decide, AppInv, Active
<1> PICK c \in Orders \cup {None} : c = instances[s].current
  BY DEF AppInv, TypeOK, Instance
<1>0. desk[a] \in Active /\ desk[a] # Idle /\ desk[a].pc = "decide"
  BY ActiveRequest DEF Decide, AppInv
<1>1. actions' = actions /\ \A b \in Approvers : b # a => desk'[b] = desk[b]
  BY DEF Decide, Goto, AppInv, TypeOK
<1>2. desk'[a].pc = "notify" /\ desk'[a].submission = desk[a].submission /\ desk'[a].order = o
  BY <1>0 DEF Decide, Goto, AppInv, TypeOK, Active
<1>3. \A row \in actions : row.approver \in Approvers /\ row.version = policy.version
  BY DEF AppInv, TypeOK, Action, Current
<1>4. c \in Orders \cup {None} /\ \A row \in actions : row.order \in Orders
  BY DEF AppInv, TypeOK, Instance, Action
<1>5. CASE desk[a].submission # s
  <2>1. instances'[s] = instances[s]
    BY <1>5 DEF Decide, AppInv, TypeOK
  <2>2. \A b \in Approvers :
          /\ desk'[b] = desk[b] \/ (desk[b].submission # s /\ desk'[b].submission # s)
          /\ desk'[b] # Idle /\ desk'[b].submission = s => desk'[b].order <= c
    BY <1>1, <1>2, <1>5 DEF Gone
  <2> QED
    BY <1>1, <1>3, <2>1, <2>2, GoneStays
<1>6. CASE desk[a].submission = s
  <2>1. instances'[s] = Decided(a) /\ instances[s] \in Instance
    BY <1>6 DEF Decide, AppInv, TypeOK
  <2>2. instances'[s].current = o + 1
    <3>1. Decided(a) = [instances[s] EXCEPT !.current = o + 1]
      BY <1>6, <2>1 DEF Decided
    <3> QED
      BY <2>1, <3>1 DEF Instance
  <2>3. R \in actions /\ R.submission = s /\ R.order = o /\ R.approver = a /\ o \in Orders
    BY <1>0, <1>6 DEF AppInv, Grounded, Row, Active
  <2>4. o <= c
    BY <1>0, <1>6 DEF Gone
  <2>5. o = c
    <3>1. SUFFICES ASSUME o < c PROVE FALSE
      BY <1>4, <2>3, <2>4 DEF Orders, None
    <3>2. PICK row \in On(s) : row.order = o /\ ~Deciding(row)
      BY <2>3, <3>1 DEF Gone
    <3>3. row \in actions /\ row.submission = s
      BY <3>2 DEF On
    <3>4. Deciding(R)
      BY <1>0, <2>3 DEF Deciding
    <3>5. row.approver = a
      BY <1>3, <2>3, <3>2, <3>3 DEF AnsweredTwice
    <3>6. row = R
      BY <2>3, <3>2, <3>3, <3>5 DEF Unrepeated
    <3> QED
      BY <3>2, <3>4, <3>6
  <2>6. On(s)' = On(s) /\ R \in On(s)
    BY <1>1, <2>3 DEF On
  <2>7. ~Deciding(R)'
    BY <1>2, <2>3 DEF Deciding
  <2>8. ASSUME NEW row \in On(s), ~Deciding(row) PROVE ~Deciding(row)'
    <3>1. row.approver \in Approvers
      BY <1>3 DEF On
    <3>2. CASE row.approver = a
      BY <1>2, <3>2 DEF Deciding
    <3>3. CASE row.approver # a
      <4>1. desk'[row.approver] = desk[row.approver]
        BY <1>1, <3>1, <3>3
      <4> QED
        BY <2>8, <4>1 DEF Deciding, Row
    <3> QED
      BY <3>2, <3>3
  <2>9. ASSUME NEW row \in On(s) PROVE row.order <= o + 1 /\ row.order # o + 1
    <3>1. row.order \in Orders /\ row.order <= c
      BY <1>4 DEF On, Gone
    <3> QED
      BY <2>3, <2>5, <3>1 DEF Orders
  <2>10. ASSUME NEW p \in Orders, p < o + 1
         PROVE  \E row \in On(s) : row.order = p /\ ~Deciding(row)'
    <3>1. CASE p = o
      BY <2>3, <2>6, <2>7, <3>1
    <3>2. CASE p < c
      <4>1. PICK row \in On(s) : row.order = p /\ ~Deciding(row)
        BY <3>2 DEF Gone
      <4> QED
        BY <2>8, <4>1
    <3> QED
      BY <2>3, <2>5, <2>10, <3>1, <3>2 DEF Orders
  <2>11. ASSUME NEW b \in Approvers, desk'[b] # Idle, desk'[b].submission = s
         PROVE  desk'[b].order <= o + 1
    <3>1. CASE b = a
      BY <1>2, <2>3, <3>1 DEF Orders
    <3>2. CASE b # a
      <4>1. desk[b] \in Active /\ desk[b].order <= c /\ desk'[b] = desk[b]
        BY <1>1, <2>11, <3>2 DEF AppInv, TypeOK, Request, Active, Gone
      <4> QED
        BY <2>3, <2>5, <4>1 DEF Active, Orders
    <3> QED
      BY <3>1, <3>2
  <2> QED
    BY <2>2, <2>6, <2>9, <2>10, <2>11 DEF Gone
<1> QED
  BY <1>5, <1>6

\* The submission enters its first step with nothing said about it.
LEMMA GoneCreating ==
  ASSUME AppInv, NEW s \in Submissions, CreateInstance(s), Fresh(s)
  PROVE  Gone(s)'
<1>1. instances[s].status = "NONE" /\ actions' = actions /\ desk' = desk
  BY DEF CreateInstance, Fresh
<1>2. On(s)' = {} /\ \A a \in Approvers : desk'[a] # Idle => desk'[a].submission # s
  BY <1>1 DEF Fresh, On
<1>3. instances'[s].current = 1
  BY DEF CreateInstance, AppInv, TypeOK, Settled
<1>4. \A o \in Orders : ~(o < 1)
  BY DEF Orders
<1> QED
  BY <1>2, <1>3, <1>4 DEF Gone

LEMMA NextStuck == AppInv /\ StuckInv /\ [Next]_vars => StuckInv'
<1> SUFFICES ASSUME AppInv, StuckInv, [Next]_vars PROVE StuckInv'
  OBVIOUS
<1>1. CASE UNCHANGED vars
  BY <1>1 DEF vars, StuckInv, Unrepeated, Fresh, On, Undisturbed, AnsweredTwice, Gone, Refused, Deciding, Row
<1>2. CASE Next
  <2>1. Unrepeated /\ Unrepeated'
    BY <1>2, UnrepeatedStays DEF StuckInv
  <2>2. SUFFICES ASSUME NEW s \in Submissions, Undisturbed(s)' PROVE Gone(s)'
    BY <1>2, <2>1, FreshStays DEF StuckInv
  <2>3. faults' = 0 /\ instances'[s].status = "PENDING" /\ ~AnsweredTwice(s)
    BY <1>2, <2>2, TwiceStays, AnswersStay DEF Undisturbed
  <2>4. faults \in Nat /\ \A row \in actions : row.approver \in Approvers
    BY DEF AppInv, TypeOK, Action
  <2>5. CASE CreateInstance(s)
    BY <2>5, GoneCreating DEF StuckInv
  <2>6. CASE ~CreateInstance(s)
    <3>1. faults = 0 /\ ~(\E r \in Submissions : DieCreating(r)) /\ ~(\E a \in Approvers : Die(a))
      <4>1. faults' = faults \/ faults' = faults + 1
        BY <1>2 DEF Next, ReplacePolicy, Submit, ReadPolicy, CreateInstance, NotifyFirst, DieCreating,
           ReadInstance, ReadStep, Check, Record, Decide, Notify, Die
      <4>2. ASSUME NEW r \in Submissions PROVE ~DieCreating(r)
        BY <2>3, <2>4 DEF DieCreating
      <4>3. ASSUME NEW a \in Approvers PROVE ~Die(a)
        BY <2>3, <2>4 DEF Die
      <4> QED
        BY <2>3, <2>4, <4>1, <4>2, <4>3
    <3>2. CASE \E roles \in Policies : ReplacePolicy(roles)
      <4>1. UNCHANGED <<instances, actions, desk>>
        BY <3>2 DEF ReplacePolicy
      <4>2. Gone(s)
        BY <2>3, <3>1, <4>1 DEF StuckInv, Undisturbed
      <4>3. \A a \in Approvers : desk'[a] # Idle /\ desk'[a].submission = s => desk'[a].order <= instances[s].current
        BY <4>1, <4>2 DEF Gone
      <4> QED
        BY <2>4, <4>1, <4>2, <4>3, GoneStays
    <3>3. ASSUME NEW r \in Submissions,
                 Submit(r) \/ ReadPolicy(r) \/ NotifyFirst(r) \/ (CreateInstance(r) /\ r # s)
          PROVE  Gone(s)'
      <4>1. UNCHANGED <<actions, desk>> /\ instances'[s] = instances[s]
        BY <3>3 DEF Submit, ReadPolicy, NotifyFirst, CreateInstance, AppInv, TypeOK
      <4>2. Gone(s)
        BY <2>3, <3>1, <4>1 DEF StuckInv, Undisturbed
      <4>3. \A a \in Approvers : desk'[a] # Idle /\ desk'[a].submission = s => desk'[a].order <= instances[s].current
        BY <4>1, <4>2 DEF Gone
      <4> QED
        BY <2>4, <4>1, <4>2, <4>3, GoneStays
    <3>4. ASSUME NEW a \in Approvers,
                 \/ \E t \in Submissions, order \in Orders, action \in Verdicts, reason \in Reasons :
                      ReadInstance(a, t, order, action, reason)
                 \/ ReadStep(a) \/ Check(a) \/ Notify(a)
          PROVE  Gone(s)'
      <4>1. UNCHANGED <<actions, instances>> /\ \A b \in Approvers : b # a => desk'[b] = desk[b]
        BY <3>4 DEF ReadInstance, ReadStep, Check, Notify, Leave, Goto, AppInv, TypeOK
      <4>2. Gone(s)
        BY <2>3, <3>1, <4>1 DEF StuckInv, Undisturbed
      <4>3. /\ desk[a].pc # "decide" /\ desk'[a].pc # "decide"
            /\ desk'[a] # Idle /\ desk'[a].submission = s => desk'[a].order <= instances[s].current
        <5>1. CASE \E t \in Submissions, order \in Orders, action \in Verdicts, reason \in Reasons :
                      ReadInstance(a, t, order, action, reason)
          <6>1. PICK t \in Submissions, order \in Orders, action \in Verdicts, reason \in Reasons :
                      ReadInstance(a, t, order, action, reason)
            BY <5>1
          <6>2. desk'[a].pc = "readStep" /\ desk'[a].submission = t /\ desk'[a].order = order
                /\ instances[t].current = order /\ desk[a] = Idle
            BY <6>1 DEF ReadInstance, AppInv, TypeOK
          <6> QED
            BY <6>1, <6>2 DEF Idle, Orders
        <5>2. CASE ReadStep(a) \/ Check(a) \/ Notify(a)
          <6>1. desk[a] \in Active /\ desk[a] # Idle /\ desk[a].pc # "decide"
            BY <5>2, ActiveRequest DEF ReadStep, Check, Notify, AppInv
          <6>2. desk'[a] = Idle \/ (desk'[a].pc # "decide" /\ desk'[a].submission = desk[a].submission
                                    /\ desk'[a].order = desk[a].order)
            BY <5>2, <6>1 DEF ReadStep, Check, Notify, Leave, Goto, AppInv, TypeOK, Active
          <6> QED
            BY <4>2, <6>1, <6>2 DEF Gone, Idle
        <5> QED
          BY <3>4, <5>1, <5>2
      <4>4. \A b \in Approvers : b # a =>
              (desk'[b] # Idle /\ desk'[b].submission = s => desk'[b].order <= instances[s].current)
        BY <4>1, <4>2 DEF Gone
      <4> QED
        BY <2>4, <4>1, <4>2, <4>3, <4>4, GoneStays
    <3>5. ASSUME NEW a \in Approvers, Record(a) PROVE Gone(s)'
      <4>1. instances' = instances
        BY <3>5 DEF Record
      <4> QED
        BY <2>1, <2>3, <3>1, <3>5, <4>1, GoneRecording DEF StuckInv, Undisturbed
    <3>6. ASSUME NEW a \in Approvers, Decide(a) PROVE Gone(s)'
      <4>1. instances[s].status = "PENDING"
        BY <2>3, <3>6 DEF Decide, Decided, AppInv, TypeOK, Instance
      <4> QED
        BY <2>1, <2>3, <3>1, <3>6, <4>1, GoneDeciding DEF StuckInv, Undisturbed
    <3> QED
      BY <1>2, <2>6, <3>1, <3>2, <3>3, <3>4, <3>5, <3>6 DEF Next
  <2> QED
    BY <2>5, <2>6
<1> QED
  BY <1>1, <1>2

-----------------------------------------------------------------------------
(* The step a pending submission waits for is defined, or was until a policy *)
(* was saved that lacks it: which the answers to it would have prevented.    *)

Placed(s) ==
  /\ creating[s].pc = "create" /\ policy.version = 1 => creating[s].order \in DOMAIN policy.roles
  /\ instances[s].status = "PENDING" =>
       instances[s].current \in DOMAIN policy.roles \/ (policy.version > 1 /\ On(s) = {})
  /\ On(s) = {} => \A a \in Approvers :
       desk[a] # Idle /\ desk[a].submission = s => desk[a].order = instances[s].current

PlacedInv == policy.version >= 1 /\ \A s \in Submissions : Placed(s)

LEMMA InitPlaced == Init => PlacedInv
BY DEF Init, PlacedInv, Placed

\* A step that leaves the policy, the answers and the instance of s alone.
LEMMA PlacedStays ==
  ASSUME NEW s \in Submissions, Placed(s), UNCHANGED <<policy, actions>>,
         instances'[s] = instances[s],
         creating'[s].pc = "create" => creating'[s] = creating[s],
         \A a \in Approvers : \/ desk'[a] = desk[a] \/ desk'[a] = Idle
                              \/ desk'[a].submission = s => desk'[a].order = instances[s].current
                              \/ /\ desk[a] # Idle /\ desk'[a].submission = desk[a].submission
                                 /\ desk'[a].order = desk[a].order
  PROVE  Placed(s)'
BY DEF Placed, On

LEMMA PlacedCreating ==
  ASSUME AppInv, PlacedInv, NEW s \in Submissions, Fresh(s),
         Submit(s) \/ ReadPolicy(s) \/ CreateInstance(s) \/ NotifyFirst(s) \/ DieCreating(s)
  PROVE  Placed(s)'
<1>0. Placed(s) /\ UNCHANGED <<policy, actions, desk>> /\ policy.version >= 1 /\ policy.version \in Nat
  BY DEF PlacedInv, AppInv, TypeOK, Submit, ReadPolicy, CreateInstance, NotifyFirst, DieCreating
<1>1. CASE ReadPolicy(s) /\ DOMAIN policy.roles # {}
  <2>1. /\ creating'[s].order = Min(DOMAIN policy.roles) /\ instances'[s] = instances[s]
    BY <1>1 DEF ReadPolicy, AppInv, TypeOK
  <2>2. Min(DOMAIN policy.roles) \in DOMAIN policy.roles
    BY <1>1, FirstIsOne DEF AppInv
  <2> QED
    BY <1>0, <2>1, <2>2 DEF Placed, On
<1>2. CASE CreateInstance(s)
  <2>1. creating[s].pc = "create" /\ On(s) = {} /\ \A a \in Approvers : desk[a] # Idle => desk[a].submission # s
    BY <1>2 DEF CreateInstance, Fresh
  <2>2. instances'[s].current = creating[s].order /\ creating'[s].pc = "notify"
    BY <1>2 DEF CreateInstance, AppInv, TypeOK, Creating
  <2> QED
    BY <1>0, <2>1, <2>2 DEF Placed, On
<1>3. CASE Submit(s) \/ (ReadPolicy(s) /\ DOMAIN policy.roles = {}) \/ NotifyFirst(s) \/ DieCreating(s)
  <2>1. instances' = instances /\ creating'[s].pc # "create"
    BY <1>3 DEF Submit, ReadPolicy, NotifyFirst, DieCreating, AppInv, TypeOK, Creating
  <2> QED
    BY <1>0, <2>1, PlacedStays
<1> QED
  BY <1>1, <1>2, <1>3

\* The first answer to s is to the step s waits for.
LEMMA PlacedRecording ==
  ASSUME AppInv, PlacedInv, NEW a \in Approvers, Record(a), desk[a].version = policy.version,
         NEW s \in Submissions, s = desk[a].submission
  PROVE  Placed(s)'
<1>1. desk[a].pc = "record" /\ desk[a] \in Active /\ desk[a] # Idle
  BY ActiveRequest DEF Record, AppInv, Active
<1>2. desk[a].order \in DOMAIN policy.roles
  BY <1>1 DEF AppInv, Grounded
<1>3. actions' = actions \cup {Row(a)} /\ Row(a).submission = s
  BY DEF Record, Row
<1>4. UNCHANGED <<policy, instances, creating>>
  BY DEF Record
<1>5. instances[s].status = "PENDING" => instances[s].current \in DOMAIN policy.roles
  <2>1. CASE On(s) = {}
    <3>1. desk[a].order = instances[s].current
      BY <1>1, <2>1 DEF PlacedInv, Placed
    <3> QED
      BY <1>2, <3>1
  <2>2. CASE On(s) # {}
    BY <1>1, <2>2 DEF PlacedInv, Placed
  <2> QED
    BY <2>1, <2>2
<1>6. On(s)' # {}
  BY <1>3 DEF On
<1> QED
  BY <1>4, <1>5, <1>6 DEF PlacedInv, Placed

LEMMA NextPlaced == AppInv /\ StuckInv /\ PlacedInv /\ [Next]_vars => PlacedInv'
<1> SUFFICES ASSUME AppInv, StuckInv, PlacedInv, [Next]_vars PROVE PlacedInv'
  OBVIOUS
<1>1. CASE UNCHANGED vars
  BY <1>1 DEF vars, PlacedInv, Placed, On
<1>2. CASE \E roles \in Policies : ReplacePolicy(roles)
  <2>1. actions = {} /\ UNCHANGED <<actions, instances, creating, desk>>
    BY <1>2 DEF ReplacePolicy, AppInv, Current
  <2>2. policy'.version > 1
    BY <1>2 DEF ReplacePolicy, PlacedInv, AppInv, TypeOK
  <2>3. \A s \in Submissions : On(s) = {} /\ On(s)' = {}
    BY <2>1 DEF On
  <2>4. ASSUME NEW s \in Submissions PROVE Placed(s)'
    BY <2>1, <2>2, <2>3 DEF PlacedInv, Placed
  <2>5. policy'.version >= 1
    BY <1>2 DEF ReplacePolicy, PlacedInv, AppInv, TypeOK
  <2> QED
    BY <2>4, <2>5 DEF PlacedInv
<1>3. ASSUME NEW s \in Submissions,
             Submit(s) \/ ReadPolicy(s) \/ CreateInstance(s) \/ NotifyFirst(s) \/ DieCreating(s)
      PROVE  PlacedInv'
  <2>1. UNCHANGED <<policy, actions, desk>>
        /\ \A r \in Submissions : r # s => instances'[r] = instances[r] /\ creating'[r] = creating[r]
    BY <1>3 DEF Submit, ReadPolicy, CreateInstance, NotifyFirst, DieCreating, AppInv, TypeOK
  <2>2. ASSUME NEW r \in Submissions, r # s PROVE Placed(r)'
    BY <2>1, <2>2, PlacedStays DEF PlacedInv
  <2>3. Placed(s)'
    BY <1>3, PlacedCreating DEF StuckInv
  <2> QED
    BY <2>1, <2>2, <2>3 DEF PlacedInv
<1>4. ASSUME NEW a \in Approvers, NEW t \in Submissions, NEW order \in Orders, NEW action \in Verdicts,
             NEW reason \in Reasons, ReadInstance(a, t, order, action, reason)
      PROVE  PlacedInv'
  <2>1. UNCHANGED <<policy, actions, instances, creating>> /\ \A b \in Approvers : b # a => desk'[b] = desk[b]
    BY <1>4 DEF ReadInstance, AppInv, TypeOK
  <2>2. desk'[a].submission = t /\ desk'[a].order = instances[t].current
    BY <1>4 DEF ReadInstance, AppInv, TypeOK
  <2>3. ASSUME NEW s \in Submissions PROVE Placed(s)'
    BY <2>1, <2>2, PlacedStays DEF PlacedInv
  <2> QED
    BY <2>1, <2>3 DEF PlacedInv
<1>5. ASSUME NEW a \in Approvers, ReadStep(a) \/ Check(a) \/ Notify(a) \/ Die(a)
                                  \/ (Record(a) /\ desk[a].version # policy.version)
      PROVE  PlacedInv'
  <2>1. UNCHANGED <<policy, actions, instances, creating>> /\ \A b \in Approvers : b # a => desk'[b] = desk[b]
    BY <1>5 DEF ReadStep, Check, Notify, Die, Record, Leave, Goto, AppInv, TypeOK
  <2>2. \/ desk'[a] = Idle
        \/ desk[a] # Idle /\ desk'[a].submission = desk[a].submission /\ desk'[a].order = desk[a].order
    <3>1. CASE desk'[a] = Idle
      BY <3>1
    <3>2. CASE desk'[a] # Idle
      <4>1. desk[a].pc \in {"readStep", "check"}
        BY <1>5, <3>2 DEF ReadStep, Check, Notify, Die, Record, Leave, AppInv, TypeOK
      <4>2. desk[a] \in Active /\ desk[a] # Idle
        BY <4>1, ActiveRequest DEF AppInv
      <4> QED
        BY <1>5, <3>2, <4>1, <4>2 DEF ReadStep, Check, Notify, Die, Record, Leave, Goto, AppInv, TypeOK, Active
    <3> QED
      BY <3>1, <3>2
  <2>3. ASSUME NEW s \in Submissions PROVE Placed(s)'
    BY <2>1, <2>2, PlacedStays DEF PlacedInv
  <2> QED
    BY <2>1, <2>3 DEF PlacedInv
<1>6. ASSUME NEW a \in Approvers, Record(a), desk[a].version = policy.version PROVE PlacedInv'
  <2>3. desk[a] \in Active
    BY <1>6, ActiveRequest DEF Record, AppInv
  <2>0. PICK t \in Submissions : t = desk[a].submission
    BY <2>3 DEF Active
  <2>1. UNCHANGED <<policy, instances, creating>> /\ \A b \in Approvers : b # a => desk'[b] = desk[b]
    BY <1>6 DEF Record, Leave, Goto, AppInv, TypeOK
  <2>2. actions' = actions \cup {Row(a)} /\ Row(a).submission = t
    BY <1>6, <2>0 DEF Record, Row
  <2>4. desk'[a] = Idle \/ desk'[a].submission = t
    BY <1>6, <2>0, <2>3 DEF Record, Leave, Goto, AppInv, TypeOK, Active
  <2>5. Placed(t)'
    BY <1>6, <2>0, PlacedRecording
  <2>6. ASSUME NEW s \in Submissions, s # t PROVE Placed(s)'
    <3>1. On(s)' = On(s)
      BY <2>2, <2>6 DEF On
    <3> QED
      BY <2>1, <2>4, <2>6, <3>1 DEF PlacedInv, Placed
  <2>7. \A s \in Submissions : Placed(s)'
    BY <2>5, <2>6
  <2> QED
    BY <2>1, <2>7 DEF PlacedInv
<1>7. ASSUME NEW a \in Approvers, Decide(a) PROVE PlacedInv'
  <2>1. desk[a].pc = "decide" /\ desk[a] \in Active /\ desk[a] # Idle
    BY <1>7, ActiveRequest DEF Decide, AppInv
  <2>0. PICK t \in Submissions : t = desk[a].submission
    BY <2>1 DEF Active
  <2>2. UNCHANGED <<policy, actions, creating>> /\ \A b \in Approvers : b # a => desk'[b] = desk[b]
    BY <1>7 DEF Decide, Goto, AppInv, TypeOK
  <2>3. Row(a) \in actions /\ Row(a).submission = t
    BY <2>0, <2>1 DEF AppInv, Grounded, Active, Row
  <2>4. desk'[a].submission = t
    BY <1>7, <2>0, <2>1 DEF Decide, Goto, AppInv, TypeOK, Active
  <2>5. /\ \A s \in Submissions : s # t => instances'[s] = instances[s]
        /\ instances'[t].status = "PENDING" => instances'[t].current \in DOMAIN policy.roles
    BY <1>7, <2>0 DEF Decide, Decided, AppInv, TypeOK, Instance
  <2>6. On(t)' # {}
    BY <2>2, <2>3 DEF On
  <2>7. Placed(t)'
    BY <2>2, <2>3, <2>5, <2>6 DEF PlacedInv, Placed
  <2>8. ASSUME NEW s \in Submissions, s # t PROVE Placed(s)'
    <3>1. On(s)' = On(s)
      BY <2>2 DEF On
    <3> QED
      BY <2>2, <2>4, <2>5, <2>8, <3>1 DEF PlacedInv, Placed
  <2> QED
    BY <2>2, <2>7, <2>8 DEF PlacedInv
<1> QED
  BY <1>1, <1>2, <1>3, <1>4, <1>5, <1>6, <1>7 DEF Next

\* A pending submission that no request works on can be answered, but for the four
\* reasons named: no other interleaving of the approvers leaves it stuck, for every
\* number of them and every policy saved meanwhile.
THEOREM StuckHasAReason == Spec => []StuckIsExplained
<1>1. AppInv /\ StuckInv /\ PlacedInv => StuckIsExplained
  <2> SUFFICES ASSUME AppInv, StuckInv, PlacedInv, NEW s \in Submissions,
                      instances[s].status = "PENDING", faults = 0,
                      \A a \in InFlight : desk[a].submission # s
               PROVE  /\ \/ instances[s].current \in DOMAIN policy.roles
                         \/ policy.version > 1 /\ \A row \in actions : row.submission # s
                      /\ \A row \in Blocking(s) : Refused(row) \/ AnsweredTwice(s)
    BY DEF StuckIsExplained, Refused
  <2>1. \/ instances[s].current \in DOMAIN policy.roles
        \/ policy.version > 1 /\ \A row \in actions : row.submission # s
    BY DEF PlacedInv, Placed, On
  <2>2. ASSUME NEW row \in Blocking(s), ~AnsweredTwice(s) PROVE Refused(row)
    <3>1. row \in On(s) /\ row.order = instances[s].current /\ row.approver \in Approvers
      BY DEF Blocking, On, AppInv, TypeOK, Action
    <3>2. Refused(row) \/ Deciding(row)
      BY <2>2, <3>1 DEF StuckInv, Undisturbed, Gone
    <3>3. ASSUME Deciding(row) PROVE FALSE
      <4>1. desk[row.approver].pc = "decide" /\ desk[row.approver].submission = s
        BY <3>1, <3>3 DEF Deciding, Row, On
      <4> QED
        BY <3>1, <4>1 DEF InFlight, Idle
    <3> QED
      BY <3>2, <3>3
  <2> QED
    BY <2>1, <2>2
<1>2. Spec => []StuckInv
  BY InitStuck, NextStuck, AlwaysApp, PTL DEF Spec
<1>3. Spec => []PlacedInv
  BY <1>2, InitPlaced, NextPlaced, AlwaysApp, PTL DEF Spec
<1> QED
  BY <1>1, <1>2, <1>3, AlwaysApp, PTL
=============================================================================
