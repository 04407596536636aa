-------------------------- MODULE CommunicationProofs --------------------------
(***************************************************************************)
(* What is proved of the three ways in which a user hears of something:    *)
(* the threads, the WebSocket that pushes their events, and the delivery   *)
(* of notifications to the messenger.                                      *)
(*                                                                         *)
(* First the members, assignments and notices of a thread (Communication). *)
(* The unique key of the messages gives each of them one request that      *)
(* stores it and then tells the others of it, in two steps that never tell *)
(* anybody twice.                                                          *)
(***************************************************************************)
EXTENDS Communication, Realtime, BaleDelivery, SequenceTheorems, FiniteSetTheorems, WellFoundedInduction, TLAPS

USE CommunicationAssumption

Telling(h) == At(h, "send", "tellMentioned") \/ At(h, "send", "tellMembers")
Tells(h, k) == Telling(h) /\ handlers[h].key = k

\* The owner of a thread is never removed.
OwnerStays == \A h \in Handlers : handlers[h] # Idle /\ handlers[h].op = "remove" => handlers[h].who # Creator

\* The notices of a message, by how far the request that stored it has come.
Announced(k) ==
  /\ \A u \in Users : Len(notices[k][u]) <= 1
  /\ notices[k][SenderOf[k]] = << >>
  /\ ~Sent(k) => audience[k] = {} /\ \A u \in Users : notices[k][u] = << >>
  /\ audience[k] \subseteq members \ {SenderOf[k]}
  /\ \A h \in Handlers : Tells(h, k) =>
       /\ Sent(k)
       /\ At(h, "send", "tellMentioned") => \A u \in Users : notices[k][u] = << >>
       /\ At(h, "send", "tellMembers") =>
            \A u \in Users : (u \in MentionsOf[k]) <=> (notices[k][u] # << >>)
       /\ \A g \in Handlers : Tells(g, k) => g = h
  /\ \/ faults > 0
     \/ \E h \in Handlers : Tells(h, k)
     \/ \A u \in audience[k] : notices[k][u] # << >>

ComInv ==
  /\ TypeOK /\ OwnerStays
  /\ AssigneesAreMembers /\ AssigneesAreTold
  /\ \A k \in Keys : Announced(k)

-----------------------------------------------------------------------------
(* What a request holds *)

Work == [op : {"add"}, pc : {"tx", "tell"}, who : Users]
        \cup [op : {"remove", "assign"}, pc : {"check", "tx"}, who : Users]
Create == [op : {"create"}, pc : {"tellAssignees", "tellAdded"}, owed : SUBSET Assignments, added : SUBSET Users]
Tell == [op : {"assign"}, pc : {"tell"}, owed : SUBSET Assignments]
Search == [op : {"unassign"}, pc : {"check"}, who : Users]
Done == [op : {"unassign"}, pc : {"tx"}, who : Users, id : Ids]
SendRequest == [op : {"send"}, pc : {"lookup", "mention", "insert", "tellMentioned", "tellMembers"},
                key : Keys]

LEMMA Held ==
  ASSUME TypeOK, NEW h \in Handlers, handlers[h] # Idle
  PROVE  /\ handlers[h].op \in {"add", "remove"} => handlers[h] \in Work
         /\ handlers[h].op = "assign" => handlers[h] \in Work \cup Tell
         /\ handlers[h].op = "assign" /\ handlers[h].pc # "tell" => handlers[h] \in Work
         /\ handlers[h].op = "assign" /\ handlers[h].pc = "tell" => handlers[h] \in Tell
         /\ handlers[h].op = "create" => handlers[h] \in Create
         /\ handlers[h].op = "unassign" => handlers[h] \in Search \cup Done
         /\ handlers[h].op = "unassign" /\ handlers[h].pc = "tx" => handlers[h] \in Done
         /\ handlers[h].op = "send" => handlers[h] \in SendRequest
BY DEF TypeOK, Request, Work, Create, Tell, Search, Done, SendRequest

LEMMA InitCom == Init => ComInv
<1> SUFFICES ASSUME Init PROVE ComInv
  OBVIOUS
<1>0. PICK chosen, assigned \in SUBSET (Users \ {Creator}), h \in Handlers :
        \E row \in [assigned -> 1 .. issued] :
          /\ Cardinality(assigned) = issued /\ \A id \in 1 .. issued : \E u \in assigned : row[u] = id
          /\ members = chosen \cup assigned \cup {Creator}
          /\ open = [u \in Users |-> IF u \in assigned THEN {row[u]} ELSE {}]
          /\ handlers = [g \in Handlers |->
               IF g # h THEN Idle
               ELSE [op |-> "create", pc |-> "tellAssignees",
                     owed |-> {<<u, row[u]>> : u \in assigned}, added |-> chosen \ assigned]]
  BY DEF Init
<1>a. PICK row \in [assigned -> 1 .. issued] :
          /\ members = chosen \cup assigned \cup {Creator}
          /\ open = [u \in Users |-> IF u \in assigned THEN {row[u]} ELSE {}]
          /\ handlers = [g \in Handlers |->
               IF g # h THEN Idle
               ELSE [op |-> "create", pc |-> "tellAssignees",
                     owed |-> {<<u, row[u]>> : u \in assigned}, added |-> chosen \ assigned]]
  BY <1>0
<1> DEFINE owed == {<<u, row[u]>> : u \in assigned}
           x == [op |-> "create", pc |-> "tellAssignees", owed |-> owed, added |-> chosen \ assigned]
<1>b. /\ issued \in 0 .. MaxAssignments /\ messages = << >>
      /\ notices = [k \in Keys |-> [u \in Users |-> << >>]] /\ told = {} /\ announced = {} /\ lost = {}
      /\ audience = [k \in Keys |-> {}] /\ faults = 0
  BY DEF Init
<1>c. owed \subseteq Assignments
  BY <1>b DEF Assignments, Ids
<1>d. x \in Request /\ x # Idle /\ x.op = "create" /\ x.pc = "tellAssignees" /\ x.owed = owed
  BY <1>c DEF Request, Idle
<1>e. /\ \A g \in Handlers : handlers[g] = IF g = h THEN x ELSE Idle
      /\ handlers \in [Handlers -> Request]
  BY <1>a, <1>d DEF Request
<1>f. \A u \in assigned : <<u, row[u]>> \in owed
  OBVIOUS
<1> HIDE DEF x, owed
<1>1. TypeOK
  <2>1. members \subseteq Users /\ Creator \in members /\ issued \in 0 .. MaxAssignments
    BY <1>a, <1>b
  <2>2. open \in [Users -> SUBSET (1 .. issued)]
    BY <1>a
  <2>3. messages \in Seq(Keys) /\ notices \in [Keys -> [Users -> Seq({"MENTION", "MESSAGE"})]]
    BY <1>b
  <2>4. /\ told \subseteq Users /\ announced \subseteq Assignments /\ lost \subseteq Assignments
        /\ audience \in [Keys -> SUBSET Users] /\ faults \in 0 .. MaxFaults
    BY <1>b
  <2> QED
    BY <1>e, <2>1, <2>2, <2>3, <2>4 DEF TypeOK
<1>2. OwnerStays
  BY <1>d, <1>e DEF OwnerStays
<1>3. AssigneesAreMembers /\ AssigneesAreTold
  <2>1. Owed(h) = owed
    BY <1>d, <1>e DEF Owed, At
  <2>2. AssigneesAreMembers
    BY <1>a DEF AssigneesAreMembers
  <2>3. AssigneesAreTold
    BY <1>a, <1>f, <2>1 DEF AssigneesAreTold
  <2> QED
    BY <2>2, <2>3
<1>4. ASSUME NEW k \in Keys PROVE Announced(k)
  <2>1. \A g \in Handlers : ~Tells(g, k)
    BY <1>d, <1>e DEF Tells, Telling, At
  <2>2. ~Sent(k)
    BY <1>b DEF Sent
  <2>3. /\ audience[k] = {} /\ \A u \in Users : notices[k][u] = << >>
    BY <1>b
  <2> QED
    BY <2>1, <2>2, <2>3 DEF Announced
<1> QED
  BY <1>1, <1>2, <1>3, <1>4 DEF ComInv

-----------------------------------------------------------------------------
(* Frames: what a step that lets a part alone leaves true of it *)

Removing(x) == x # Idle /\ x.op = "remove" /\ x.who = Creator
Announcing(x) == x # Idle /\ x.op = "send" /\ x.pc \in {"tellMentioned", "tellMembers"}

LEMMA HandlersMove ==
  ASSUME TypeOK, NEW h \in Handlers, NEW x \in Request, handlers' = [handlers EXCEPT ![h] = x]
  PROVE  /\ handlers' \in [Handlers -> Request]
         /\ \A g \in Handlers : handlers'[g] = IF g = h THEN x ELSE handlers[g]
BY DEF TypeOK

LEMMA OwnerFrame ==
  ASSUME OwnerStays, TypeOK, NEW h \in Handlers, NEW x \in Request, ~Removing(x),
         handlers' = [handlers EXCEPT ![h] = x]
  PROVE  OwnerStays'
BY HandlersMove DEF OwnerStays, Removing

\* A step of a request that is not about to tell of the message k, and does not come to be.
LEMMA KeyFrame ==
  ASSUME ComInv, NEW k \in Keys, NEW h \in Handlers, NEW x \in Request,
         handlers' = [handlers EXCEPT ![h] = x], ~Tells(h, k), ~(Announcing(x) /\ x.key = k),
         notices'[k] = notices[k], faults' = faults, Sent(k)' <=> Sent(k),
         audience'[k] \subseteq audience[k], audience'[k] \subseteq members' \ {SenderOf[k]}
  PROVE  Announced(k)'
<1>1. \A g \in Handlers : /\ Tells(g, k)' <=> Tells(g, k)
                          /\ Tells(g, k) => /\ At(g, "send", "tellMentioned")' <=> At(g, "send", "tellMentioned")
                                            /\ At(g, "send", "tellMembers")' <=> At(g, "send", "tellMembers")
  BY HandlersMove DEF ComInv, Telling, Tells, At, Announcing
<1>2. Announced(k)
  BY DEF ComInv
<1> QED
  BY <1>1, <1>2 DEF Announced

LEMMA AnnouncedFrame ==
  ASSUME ComInv, NEW k \in Keys, NEW h \in Handlers, NEW x \in Request,
         handlers' = [handlers EXCEPT ![h] = x], ~Telling(h), ~Announcing(x),
         UNCHANGED <<messages, notices>>, faults' = faults,
         audience'[k] \subseteq audience[k], audience'[k] \subseteq members' \ {SenderOf[k]}
  PROVE  Announced(k)'
BY KeyFrame DEF Tells, Sent

\* What a request in the state x is about to tell of.
OwedBy(x) == IF x # Idle /\ ((x.op = "assign" /\ x.pc = "tell") \/ (x.op = "create" /\ x.pc = "tellAssignees"))
             THEN x.owed ELSE {}

\* A step that tells of what its request owed, or leaves it owed, or gives it up with the request.
LEMMA ToldFrame ==
  ASSUME ComInv, NEW h \in Handlers, NEW x \in Request, handlers' = [handlers EXCEPT ![h] = x],
         Owed(h) \subseteq announced' \cup lost' \cup OwedBy(x),
         announced \cup lost \subseteq announced' \cup lost',
         \A u \in Users : \A id \in open'[u] : id \in open[u] \/ <<u, id>> \in OwedBy(x)
  PROVE  AssigneesAreTold'
<1>1. \A g \in Handlers : Owed(g)' = IF g = h THEN OwedBy(x) ELSE Owed(g)
  BY HandlersMove DEF ComInv, Owed, OwedBy, At
<1>2. ASSUME NEW u \in Users, NEW id \in open'[u], <<u, id>> \notin announced' \cup lost'
      PROVE  \E g \in Handlers : <<u, id>> \in Owed(g)'
  <2>1. CASE <<u, id>> \in OwedBy(x)
    BY <1>1, <2>1
  <2>2. CASE <<u, id>> \notin OwedBy(x)
    <3>1. PICK g \in Handlers : <<u, id>> \in Owed(g)
      BY <1>2, <2>2 DEF ComInv, AssigneesAreTold
    <3> QED
      BY <1>1, <1>2, <2>2, <3>1
  <2> QED
    BY <2>1, <2>2
<1> QED
  BY <1>2 DEF AssigneesAreTold

\* Most steps only move their request.
LEMMA MoveFrame ==
  ASSUME ComInv, NEW h \in Handlers, NEW x \in Request,
         handlers' = [handlers EXCEPT ![h] = x],
         ~Telling(h), ~Announcing(x), ~Removing(x), Owed(h) \subseteq OwedBy(x),
         UNCHANGED <<members, issued, open, messages, notices, told, announced, lost, audience, faults>>
  PROVE  ComInv'
<1>1. TypeOK'
  BY HandlersMove DEF ComInv, TypeOK
<1>2. OwnerStays'
  BY OwnerFrame DEF ComInv
<1>3. AssigneesAreMembers'
  BY DEF ComInv, AssigneesAreMembers
<1>4. AssigneesAreTold'
  BY ToldFrame
<1>5. ASSUME NEW k \in Keys PROVE Announced(k)'
  <2>1. audience[k] \subseteq members \ {SenderOf[k]}
    BY DEF ComInv, Announced
  <2> QED
    BY <2>1, AnnouncedFrame
<1> QED
  BY <1>1, <1>2, <1>3, <1>4, <1>5 DEF ComInv

-----------------------------------------------------------------------------
(* Steps that only move their request *)

LEMMA IdleStep ==
  ASSUME ComInv, NEW h \in Handlers, Leave(h), ~Telling(h), Owed(h) = {},
         UNCHANGED <<members, issued, open, messages, notices, told, announced, lost, audience, faults>>
  PROVE  ComInv'
<1>1. Idle \in Request /\ ~Announcing(Idle) /\ ~Removing(Idle)
  BY DEF Request, Announcing, Removing
<1> QED
  BY <1>1, MoveFrame DEF Leave

LEMMA ManageStep ==
  ASSUME ComInv, NEW h \in Handlers, NEW u \in Users, NEW who \in Users,
         NEW op \in {"add", "remove", "assign", "unassign"}, Manage(h, u, op, who)
  PROVE  ComInv'
<1> DEFINE x == [op |-> op, pc |-> IF op = "add" THEN "tx" ELSE "check", who |-> who]
<1>1. x \in Request
  BY DEF Request
<1>2. ~Announcing(x) /\ ~Removing(x)
  BY DEF Announcing, Removing, Manage
<1>3. ~Telling(h) /\ Owed(h) = {}
  BY DEF Manage, Telling, Owed, At
<1>4. handlers' = [handlers EXCEPT ![h] = x]
      /\ UNCHANGED <<members, issued, open, messages, notices, told, announced, lost, audience, faults>>
  BY DEF Manage, threadVars, workVars
<1> HIDE DEF x
<1> QED
  BY <1>1, <1>2, <1>3, <1>4, MoveFrame

LEMMA CheckStep ==
  ASSUME ComInv, NEW h \in Handlers, CheckRemove(h) \/ CheckAssign(h) \/ CheckUnassign(h)
  PROVE  ComInv'
<1>1. ~Telling(h) /\ Owed(h) = {}
      /\ UNCHANGED <<members, issued, open, messages, notices, told, announced, lost, audience, faults>>
  BY DEF CheckRemove, CheckAssign, CheckUnassign, Telling, Owed, At, threadVars, workVars
<1>2. CASE Leave(h)
  BY <1>1, <1>2, IdleStep
<1>3. CASE (CheckRemove(h) \/ CheckAssign(h)) /\ Goto(h, "tx")
  <2> DEFINE x == [handlers[h] EXCEPT !.pc = "tx"]
  <2>1. handlers[h] \in Work /\ handlers[h] # Idle
    BY <1>3, Held DEF CheckRemove, CheckAssign, At, ComInv
  <2>0. handlers[h].op \in {"remove", "assign"}
    BY <1>3 DEF CheckRemove, CheckAssign, At
  <2>2. x \in Request /\ x.op = handlers[h].op /\ x.who = handlers[h].who
    BY <2>0, <2>1 DEF Work, Request
  <2>3. ~Announcing(x) /\ ~Removing(x)
    BY <2>1, <2>2 DEF Announcing, Removing, ComInv, OwnerStays, Work
  <2>4. handlers' = [handlers EXCEPT ![h] = x]
    BY <1>3 DEF Goto
  <2> HIDE DEF x
  <2> QED
    BY <1>1, <2>2, <2>3, <2>4, MoveFrame
<1>4. CASE CheckUnassign(h) /\ ~Leave(h)
  <2>1. PICK id \in open[handlers[h].who] :
          handlers' = [handlers EXCEPT ![h] =
            [op |-> "unassign", pc |-> "tx", who |-> handlers[h].who, id |-> id]]
    BY <1>4 DEF CheckUnassign
  <2> DEFINE x == [op |-> "unassign", pc |-> "tx", who |-> handlers[h].who, id |-> id]
  <2>2. handlers[h].who \in Users
    BY <1>4, Held DEF CheckUnassign, At, ComInv, Search, Done
  <2>3. id \in Ids
    BY <2>1, <2>2 DEF ComInv, TypeOK, Ids
  <2>4. x \in Request /\ ~Announcing(x) /\ ~Removing(x)
    BY <2>2, <2>3 DEF Request, Announcing, Removing
  <2> HIDE DEF x
  <2> QED
    BY <1>1, <2>1, <2>4, MoveFrame DEF x
<1> QED
  BY <1>2, <1>3, <1>4 DEF CheckRemove, CheckAssign

LEMMA SendStep ==
  ASSUME ComInv, NEW h \in Handlers,
         (\E k \in Keys : Send(h, k)) \/ LookUp(h) \/ CheckMentions(h)
  PROVE  ComInv'
<1>1. ~Telling(h) /\ Owed(h) = {}
      /\ UNCHANGED <<members, issued, open, messages, notices, told, announced, lost, audience, faults>>
  BY DEF Send, LookUp, CheckMentions, Telling, Owed, At, threadVars, workVars
<1>2. CASE Leave(h)
  BY <1>1, <1>2, IdleStep
<1>3. CASE \E k \in Keys : Send(h, k)
  <2>1. PICK k \in Keys : Send(h, k)
    BY <1>3
  <2> DEFINE x == [op |-> "send", pc |-> "lookup", key |-> k]
  <2>2. x \in Request /\ ~Announcing(x) /\ ~Removing(x)
    BY DEF Request, Announcing, Removing
  <2>3. handlers' = [handlers EXCEPT ![h] = x]
    BY <2>1 DEF Send
  <2> HIDE DEF x
  <2> QED
    BY <1>1, <2>2, <2>3, MoveFrame
<1>4. ASSUME NEW pc \in {"mention", "insert"}, At(h, "send", "lookup") \/ At(h, "send", "mention"),
             Goto(h, pc)
      PROVE  ComInv'
  <2> DEFINE x == [handlers[h] EXCEPT !.pc = pc]
  <2>1. handlers[h] \in SendRequest
    BY <1>4, Held DEF At, ComInv
  <2>2. x \in Request /\ ~Announcing(x) /\ ~Removing(x)
    BY <2>1 DEF Request, Announcing, Removing, SendRequest
  <2>3. handlers' = [handlers EXCEPT ![h] = x]
    BY <1>4 DEF Goto
  <2> HIDE DEF x
  <2> QED
    BY <1>1, <2>2, <2>3, MoveFrame
<1> QED
  BY <1>2, <1>3, <1>4 DEF LookUp, CheckMentions

-----------------------------------------------------------------------------
(* Steps that change the members and their work *)

\* The request of an addition, and what becomes of it.
LEMMA WorkStep ==
  ASSUME ComInv, NEW h \in Handlers, At(h, "add", "tx")
  PROVE  /\ handlers[h].who \in Users
         /\ [handlers[h] EXCEPT !.pc = "tell"] \in Request
         /\ ~Announcing([handlers[h] EXCEPT !.pc = "tell"])
         /\ ~Removing([handlers[h] EXCEPT !.pc = "tell"])
<1> DEFINE x == [handlers[h] EXCEPT !.pc = "tell"]
<1>1. handlers[h] \in Work /\ handlers[h].op = "add"
  BY Held DEF At, ComInv
<1>2. x \in [op : {"add"}, pc : {"tx", "tell"}, who : Users] /\ handlers[h].who \in Users
  BY <1>1 DEF Work
<1> QED
  BY <1>2 DEF Request, Announcing, Removing

LEMMA AddStep ==
  ASSUME ComInv, NEW h \in Handlers, AddParticipant(h)
  PROVE  ComInv'
<1> DEFINE x == [handlers[h] EXCEPT !.pc = "tell"]
<1>1. /\ handlers' = [handlers EXCEPT ![h] = x]
      /\ members' = members \cup {handlers[h].who}
      /\ UNCHANGED <<issued, open, messages, notices, told, announced, lost, audience, faults>>
  BY DEF AddParticipant, Goto, threadVars, workVars
<1>2. handlers[h].who \in Users /\ x \in Request /\ ~Announcing(x) /\ ~Removing(x)
  BY WorkStep DEF AddParticipant
<1>3. ~Telling(h) /\ Owed(h) = {}
  BY DEF AddParticipant, Telling, Owed, At
<1> HIDE DEF x
<1>4. TypeOK'
  BY <1>1, <1>2, HandlersMove DEF ComInv, TypeOK
<1>5. OwnerStays'
  BY <1>1, <1>2, OwnerFrame DEF ComInv
<1>6. AssigneesAreMembers'
  BY <1>1 DEF ComInv, AssigneesAreMembers
<1>7. AssigneesAreTold'
  BY <1>1, <1>2, <1>3, ToldFrame
<1>8. ASSUME NEW k \in Keys PROVE Announced(k)'
  <2>1. audience[k] \subseteq members \ {SenderOf[k]}
    BY DEF ComInv, Announced
  <2> QED
    BY <1>1, <1>2, <1>3, <2>1, AnnouncedFrame
<1> QED
  BY <1>4, <1>5, <1>6, <1>7, <1>8 DEF ComInv

LEMMA AssignStep ==
  ASSUME ComInv, NEW h \in Handlers, Assign(h)
  PROVE  ComInv'
<1> DEFINE v == handlers[h].who
           x == [op |-> "assign", pc |-> "tell", owed |-> {<<v, issued + 1>>}]
<1>1. /\ handlers' = [handlers EXCEPT ![h] = x]
      /\ members' = members \cup {v} /\ issued < MaxAssignments
      /\ issued' = issued + 1 /\ open' = [open EXCEPT ![v] = @ \cup {issued + 1}]
      /\ UNCHANGED <<messages, notices, told, announced, lost, audience, faults>>
  BY DEF Assign, workVars
<1>2. /\ v \in Users /\ x \in Request /\ ~Announcing(x) /\ ~Removing(x)
      /\ OwedBy(x) = {<<v, issued + 1>>}
  <2>1. v \in Users
    BY Held DEF Assign, At, ComInv, Work
  <2>2. {<<v, issued + 1>>} \in SUBSET Assignments
    BY <1>1, <2>1 DEF ComInv, TypeOK, Assignments, Ids
  <2> QED
    BY <2>1, <2>2 DEF Request, Announcing, Removing, OwedBy, Idle
<1>3. ~Telling(h) /\ Owed(h) = {}
  BY DEF Assign, Telling, Owed, At
<1> HIDE DEF x, v
<1>4. TypeOK'
  <2>1. issued' \in 0 .. MaxAssignments /\ open' \in [Users -> SUBSET (1 .. issued')]
    BY <1>1, <1>2 DEF ComInv, TypeOK
  <2> QED
    BY <1>1, <1>2, <2>1, HandlersMove DEF ComInv, TypeOK
<1>5. OwnerStays'
  BY <1>1, <1>2, OwnerFrame DEF ComInv
<1>6. \A u \in Users : u # v => open'[u] = open[u]
  BY <1>1 DEF ComInv, TypeOK
<1>7. AssigneesAreMembers'
  BY <1>1, <1>6 DEF ComInv, AssigneesAreMembers
<1>8. AssigneesAreTold'
  <2>1. \A u \in Users : \A id \in open'[u] : id \in open[u] \/ (u = v /\ id = issued + 1)
    BY <1>1, <1>2, <1>6 DEF ComInv, TypeOK
  <2> QED
    BY <1>1, <1>2, <1>3, <2>1, ToldFrame
<1>9. ASSUME NEW k \in Keys PROVE Announced(k)'
  <2>1. audience[k] \subseteq members \ {SenderOf[k]}
    BY DEF ComInv, Announced
  <2> QED
    BY <1>1, <1>2, <1>3, <2>1, AnnouncedFrame
<1> QED
  BY <1>4, <1>5, <1>7, <1>8, <1>9 DEF ComInv

LEMMA IdleType == Idle \in Request /\ ~Announcing(Idle) /\ ~Removing(Idle)
BY DEF Request, Announcing, Removing

\* What the requests that tell leave alone.
LEMMA TellFrame ==
  ASSUME ComInv, NEW h \in Handlers, NEW x \in Request, handlers' = [handlers EXCEPT ![h] = x],
         ~Telling(h), ~Announcing(x), ~Removing(x), TypeOK', AssigneesAreTold',
         UNCHANGED <<members, open, messages, notices, audience, faults>>
  PROVE  ComInv'
<1>1. OwnerStays'
  BY OwnerFrame DEF ComInv
<1>2. AssigneesAreMembers'
  BY DEF ComInv, AssigneesAreMembers
<1>3. ASSUME NEW k \in Keys PROVE Announced(k)'
  <2>1. audience[k] \subseteq members \ {SenderOf[k]}
    BY DEF ComInv, Announced
  <2> QED
    BY <2>1, AnnouncedFrame
<1> QED
  BY <1>1, <1>2, <1>3 DEF ComInv

LEMMA TellAssignedStep ==
  ASSUME ComInv, NEW h \in Handlers, TellAssigned(h)
  PROVE  ComInv'
<1> DEFINE next == [handlers[h] EXCEPT !.pc = "tellAdded"]
<1>1. /\ announced' = announced \cup Owed(h)
      /\ UNCHANGED <<members, issued, open, messages, notices, told, lost, audience, faults>>
  BY DEF TellAssigned, threadVars
<1>2. ~Telling(h)
  BY DEF TellAssigned, Telling, At
<1>3. Owed(h) \subseteq Assignments
  BY Held DEF Owed, At, ComInv, Tell, Create
<1>4. PICK x \in Request : handlers' = [handlers EXCEPT ![h] = x] /\ ~Announcing(x) /\ ~Removing(x)
  <2>1. CASE Leave(h)
    BY <2>1, IdleType DEF Leave
  <2>2. CASE At(h, "create", "tellAssignees") /\ Goto(h, "tellAdded")
    <3>1. handlers[h] \in Create
      BY <2>2, Held DEF At, ComInv
    <3>2. next \in Request /\ ~Announcing(next) /\ ~Removing(next)
      BY <3>1 DEF Create, Request, Announcing, Removing
    <3> QED
      BY <2>2, <3>2 DEF Goto
  <2> QED
    BY <2>1, <2>2 DEF TellAssigned
<1>5. TypeOK'
  BY <1>1, <1>3, <1>4, HandlersMove DEF ComInv, TypeOK
<1>6. AssigneesAreTold'
  BY <1>1, <1>4, ToldFrame
<1> QED
  BY <1>1, <1>2, <1>4, <1>5, <1>6, TellFrame

LEMMA TellAddedStep ==
  ASSUME ComInv, NEW h \in Handlers, TellAdded(h)
  PROVE  ComInv'
<1>1. /\ handlers' = [handlers EXCEPT ![h] = Idle]
      /\ UNCHANGED <<members, issued, open, messages, notices, announced, lost, audience, faults>>
  BY DEF TellAdded, Leave, threadVars
<1>2. ~Telling(h) /\ Owed(h) = {}
  BY DEF TellAdded, Telling, Owed, At
<1>3. told' \subseteq Users
  BY Held DEF TellAdded, At, ComInv, TypeOK, Work, Create
<1>4. TypeOK'
  BY <1>1, <1>3, IdleType, HandlersMove DEF ComInv, TypeOK
<1>5. AssigneesAreTold'
  BY <1>1, <1>2, IdleType, ToldFrame
<1> QED
  BY <1>1, <1>2, <1>4, <1>5, IdleType, TellFrame

LEMMA RemoveStep ==
  ASSUME ComInv, NEW h \in Handlers, RemoveParticipant(h)
  PROVE  ComInv'
<1> DEFINE v == handlers[h].who
<1>1. /\ handlers' = [handlers EXCEPT ![h] = Idle] /\ members' = members \ {v}
      /\ open' = [open EXCEPT ![v] = {}]
      /\ audience' = [k \in Keys |-> audience[k] \ {v}]
      /\ UNCHANGED <<issued, messages, notices, told, announced, lost, faults>>
  BY DEF RemoveParticipant, Leave, threadVars, workVars
<1>2. v \in Users /\ v # Creator
  BY Held DEF RemoveParticipant, At, Work, ComInv, OwnerStays
<1>3. ~Telling(h) /\ Owed(h) = {}
  BY DEF RemoveParticipant, Telling, Owed, At
<1> HIDE DEF v
<1>4. \A u \in Users : open'[u] = IF u = v THEN {} ELSE open[u]
  BY <1>1 DEF ComInv, TypeOK
<1>5. TypeOK'
  BY <1>1, <1>2, IdleType, HandlersMove DEF ComInv, TypeOK
<1>6. OwnerStays'
  BY <1>1, IdleType, OwnerFrame DEF ComInv
<1>7. AssigneesAreMembers'
  BY <1>1, <1>4 DEF ComInv, AssigneesAreMembers
<1>8. AssigneesAreTold'
  BY <1>1, <1>3, <1>4, IdleType, ToldFrame
<1>9. ASSUME NEW k \in Keys PROVE Announced(k)'
  <2>1. audience[k] \subseteq members \ {SenderOf[k]} /\ audience'[k] = audience[k] \ {v}
    BY <1>1 DEF ComInv, Announced
  <2> QED
    BY <1>1, <1>3, <2>1, IdleType, AnnouncedFrame
<1> QED
  BY <1>5, <1>6, <1>7, <1>8, <1>9 DEF ComInv

LEMMA UnassignStep ==
  ASSUME ComInv, NEW h \in Handlers, Unassign(h)
  PROVE  ComInv'
<1> DEFINE v == handlers[h].who
           left == open[v] \ {handlers[h].id}
<1>1. /\ handlers' = [handlers EXCEPT ![h] = Idle] /\ open' = [open EXCEPT ![v] = left]
      /\ UNCHANGED <<members, issued, messages, notices, told, announced, lost, audience, faults>>
  BY DEF Unassign, Leave, threadVars, workVars
<1>2. ~Telling(h) /\ Owed(h) = {}
  BY DEF Unassign, Telling, Owed, At
<1>3. left \subseteq open[v]
  OBVIOUS
<1> HIDE DEF v, left
<1>4. \A u \in Users : open'[u] = IF u = v THEN left ELSE open[u]
  BY <1>1 DEF ComInv, TypeOK
<1>5. TypeOK'
  <2>1. open' \in [Users -> SUBSET (1 .. issued)]
    BY <1>1, <1>3 DEF ComInv, TypeOK
  <2>2. handlers' \in [Handlers -> Request]
    BY <1>1, IdleType, HandlersMove DEF ComInv
  <2> QED
    BY <1>1, <2>1, <2>2 DEF ComInv, TypeOK
<1>6. OwnerStays'
  BY <1>1, IdleType, OwnerFrame DEF ComInv
<1>7. AssigneesAreMembers'
  BY <1>1, <1>3, <1>4 DEF ComInv, AssigneesAreMembers
<1>8. AssigneesAreTold'
  BY <1>1, <1>2, <1>3, <1>4, IdleType, ToldFrame
<1>9. ASSUME NEW k \in Keys PROVE Announced(k)'
  <2>1. audience[k] \subseteq members \ {SenderOf[k]}
    BY DEF ComInv, Announced
  <2> QED
    BY <1>1, <1>2, <2>1, IdleType, AnnouncedFrame
<1> QED
  BY <1>5, <1>6, <1>7, <1>8, <1>9 DEF ComInv

-----------------------------------------------------------------------------
(* Steps that store and announce a message *)

\* What no such step touches.
LEMMA WorkFrame ==
  ASSUME ComInv, NEW h \in Handlers, NEW x \in Request, handlers' = [handlers EXCEPT ![h] = x],
         Owed(h) = {}, ~Removing(x), UNCHANGED <<members, open, announced, lost>>
  PROVE  OwnerStays' /\ AssigneesAreMembers' /\ AssigneesAreTold'
<1>1. OwnerStays'
  BY OwnerFrame DEF ComInv
<1>2. AssigneesAreMembers'
  BY DEF ComInv, AssigneesAreMembers
<1>3. AssigneesAreTold'
  BY ToldFrame
<1> QED
  BY <1>1, <1>2, <1>3

\* A request moves on to the next step of announcing its message.
LEMMA NextPc ==
  ASSUME ComInv, NEW h \in Handlers, NEW pc \in {"tellMentioned", "tellMembers"},
         handlers[h] # Idle, handlers[h].op = "send"
  PROVE  /\ handlers[h].key \in Keys
         /\ [handlers[h] EXCEPT !.pc = pc] \in Request
         /\ ~Removing([handlers[h] EXCEPT !.pc = pc])
         /\ [handlers[h] EXCEPT !.pc = pc] # Idle
         /\ [handlers[h] EXCEPT !.pc = pc].op = "send"
         /\ [handlers[h] EXCEPT !.pc = pc].pc = pc
         /\ [handlers[h] EXCEPT !.pc = pc].key = handlers[h].key
<1> DEFINE x == [handlers[h] EXCEPT !.pc = pc]
<1>1. handlers[h] \in SendRequest
  BY Held DEF ComInv
<1>2. x \in SendRequest /\ x.op = "send" /\ x.pc = pc /\ x.key = handlers[h].key
  BY <1>1 DEF SendRequest
<1> QED
  BY <1>1, <1>2 DEF SendRequest, Request, Removing, Idle

LEMMA InsertStep ==
  ASSUME ComInv, NEW h \in Handlers, Insert(h)
  PROVE  ComInv'
<1>1. ~Telling(h) /\ Owed(h) = {} /\ handlers[h] # Idle /\ handlers[h].op = "send"
  BY DEF Insert, Telling, Owed, At
<1>2. CASE Sent(handlers[h].key)
  BY <1>1, <1>2, IdleStep DEF Insert, workVars
<1>3. CASE ~Sent(handlers[h].key)
  <2> DEFINE x == [handlers[h] EXCEPT !.pc = "tellMentioned"]
             k == handlers[h].key
  <2>1. /\ handlers' = [handlers EXCEPT ![h] = x] /\ messages' = Append(messages, k)
        /\ audience' = [audience EXCEPT ![k] = members \ {SenderOf[k]}]
        /\ UNCHANGED <<members, issued, open, notices, told, announced, lost, faults>>
    BY <1>3 DEF Insert, Goto, workVars
  <2>2. /\ k \in Keys /\ x \in Request /\ ~Removing(x)
        /\ x # Idle /\ x.op = "send" /\ x.pc = "tellMentioned" /\ x.key = k
    BY <1>1, NextPc
  <2>3. ~Sent(k)
    BY <1>3
  <2> HIDE DEF x, k
  <2>4. handlers' \in [Handlers -> Request] /\ \A g \in Handlers : handlers'[g] = IF g = h THEN x ELSE handlers[g]
    BY <2>1, <2>2, HandlersMove DEF ComInv
  <2>5. messages' \in Seq(Keys) /\ \A c \in Keys : Sent(c)' <=> (Sent(c) \/ c = k)
    <3>1. messages \in Seq(Keys)
      BY DEF ComInv, TypeOK
    <3>2. /\ messages' \in Seq(Keys) /\ Len(messages') = Len(messages) + 1 /\ Len(messages) \in Nat
          /\ messages'[Len(messages) + 1] = k
          /\ \A i \in 1 .. Len(messages) : messages'[i] = messages[i]
      BY <2>1, <2>2, <3>1
    <3>3. DOMAIN messages = 1 .. Len(messages) /\ DOMAIN messages' = 1 .. Len(messages) + 1
      BY <3>1, <3>2
    <3>4. \A c : (\E i \in DOMAIN messages' : messages'[i] = c)
                   <=> ((\E i \in DOMAIN messages : messages[i] = c) \/ c = k)
      BY <3>2, <3>3
    <3> QED
      BY <3>2, <3>4 DEF Sent
  <2>6. TypeOK'
    BY <2>1, <2>2, <2>4, <2>5 DEF ComInv, TypeOK
  <2>7. OwnerStays' /\ AssigneesAreMembers' /\ AssigneesAreTold'
    BY <1>1, <2>1, <2>2, WorkFrame
  <2>8. ASSUME NEW c \in Keys, c # k PROVE Announced(c)'
    <3>1. audience'[c] = audience[c] /\ audience[c] \subseteq members \ {SenderOf[c]}
      BY <2>1, <2>8 DEF ComInv, TypeOK, Announced
    <3>2. ~Tells(h, c) /\ ~(Announcing(x) /\ x.key = c)
      BY <1>1, <2>2, <2>8 DEF Tells
    <3> QED
      BY <2>1, <2>2, <2>5, <2>8, <3>1, <3>2, KeyFrame
  <2>9. ASSUME NEW c \in Keys, c = k PROVE Announced(c)'
    <3>1. Announced(c) /\ ~Sent(c)
      BY <2>3, <2>9 DEF ComInv
    <3>2. \A g \in Handlers : ~Tells(g, c)
      BY <3>1 DEF Announced
    <3>3. Tells(h, c)' /\ At(h, "send", "tellMentioned")' /\ ~At(h, "send", "tellMembers")'
      BY <2>2, <2>4, <2>9 DEF Tells, Telling, At
    <3>4. \A g \in Handlers : Tells(g, c)' => g = h
      BY <2>4, <3>2 DEF Tells, Telling, At
    <3>5. audience'[c] = members' \ {SenderOf[c]} /\ notices'[c] = notices[c] /\ Sent(c)'
      BY <2>1, <2>2, <2>5, <2>9 DEF ComInv, TypeOK
    <3> QED
      BY <2>1, <3>1, <3>3, <3>4, <3>5 DEF Announced
  <2> QED
    BY <2>6, <2>7, <2>8, <2>9 DEF ComInv
<1> QED
  BY <1>2, <1>3

\* Notify adds one notice for each of the users.
LEMMA NotifyType ==
  ASSUME TypeOK, NEW k \in Keys, NEW users, NEW kind \in {"MENTION", "MESSAGE"}, Notify(k, users, kind)
  PROVE  /\ notices' \in [Keys -> [Users -> Seq({"MENTION", "MESSAGE"})]]
         /\ \A c \in Keys : c # k => notices'[c] = notices[c]
         /\ \A u \in Users : notices'[k][u] = IF u \in users THEN Append(notices[k][u], kind)
                                                            ELSE notices[k][u]
<1>1. [u \in Users |-> IF u \in users THEN Append(notices[k][u], kind) ELSE notices[k][u]]
        \in [Users -> Seq({"MENTION", "MESSAGE"})]
  BY DEF TypeOK
<1> QED
  BY <1>1 DEF TypeOK, Notify

LEMMA One ==
  ASSUME NEW kind
  PROVE  Len(Append(<< >>, kind)) = 1 /\ Append(<< >>, kind) # << >>
OBVIOUS

LEMMA TellMentionedStep ==
  ASSUME ComInv, NEW h \in Handlers, TellMentioned(h)
  PROVE  ComInv'
<1> DEFINE x == [handlers[h] EXCEPT !.pc = "tellMembers"]
           k == handlers[h].key
<1>0. At(h, "send", "tellMentioned") /\ Owed(h) = {} /\ ~At(h, "send", "tellMembers")
  BY DEF TellMentioned, Owed, At
<1>1. /\ handlers' = [handlers EXCEPT ![h] = x] /\ Notify(k, MentionsOf[k], "MENTION")
      /\ UNCHANGED <<members, issued, open, messages, told, announced, lost, audience, faults>>
  BY DEF TellMentioned, Goto, threadVars, workVars
<1>2. /\ k \in Keys /\ x \in Request /\ ~Removing(x)
      /\ x # Idle /\ x.op = "send" /\ x.pc = "tellMembers" /\ x.key = k
  BY <1>0, NextPc DEF At
<1>3. Tells(h, k)
  BY <1>0 DEF Tells, Telling
<1> HIDE DEF x, k
<1>4. handlers' \in [Handlers -> Request] /\ \A g \in Handlers : handlers'[g] = IF g = h THEN x ELSE handlers[g]
  BY <1>1, <1>2, HandlersMove DEF ComInv
<1>5. /\ notices' \in [Keys -> [Users -> Seq({"MENTION", "MESSAGE"})]]
      /\ \A c \in Keys : c # k => notices'[c] = notices[c]
      /\ \A u \in Users : notices'[k][u] = IF u \in MentionsOf[k] THEN Append(notices[k][u], "MENTION")
                                                                  ELSE notices[k][u]
  BY <1>1, <1>2, NotifyType DEF ComInv
<1>6. TypeOK'
  BY <1>1, <1>4, <1>5 DEF ComInv, TypeOK
<1>7. OwnerStays' /\ AssigneesAreMembers' /\ AssigneesAreTold'
  BY <1>0, <1>1, <1>2, WorkFrame
<1>8. ASSUME NEW c \in Keys, c # k PROVE Announced(c)'
  <2>1. audience'[c] = audience[c] /\ audience[c] \subseteq members \ {SenderOf[c]} /\ (Sent(c)' <=> Sent(c))
    BY <1>1 DEF ComInv, Announced, Sent
  <2>2. ~Tells(h, c) /\ ~(Announcing(x) /\ x.key = c)
    BY <1>2, <1>8 DEF Tells, k
  <2> QED
    BY <1>1, <1>2, <1>5, <1>8, <2>1, <2>2, KeyFrame
<1>9. ASSUME NEW c \in Keys, c = k PROVE Announced(c)'
  <2>1. Announced(c) /\ Tells(h, c)
    BY <1>3, <1>9 DEF ComInv
  <2>2. Sent(c) /\ \A u \in Users : notices[c][u] = << >>
    BY <1>0, <2>1 DEF Announced
  <2>3. \A g \in Handlers : Tells(g, c) => g = h
    BY <2>1 DEF Announced
  <2>4. ASSUME NEW u \in Users
        PROVE  Len(notices'[c][u]) <= 1 /\ (u \in MentionsOf[c] <=> notices'[c][u] # << >>)
    <3>1. CASE u \in MentionsOf[c]
      <4>1. notices'[c][u] = Append(<< >>, "MENTION")
        BY <1>5, <1>9, <2>2, <3>1
      <4> QED
        BY <3>1, <4>1, One
    <3>2. CASE u \notin MentionsOf[c]
      <4>1. notices'[c][u] = << >>
        BY <1>5, <1>9, <2>2, <3>2
      <4> QED
        BY <3>2, <4>1
    <3> QED
      BY <3>1, <3>2
  <2>5. Sent(c)' /\ audience'[c] \subseteq members' \ {SenderOf[c]}
    BY <1>1, <2>1, <2>2 DEF Announced, Sent
  <2>6. Tells(h, c)' /\ ~At(h, "send", "tellMentioned")'
    BY <1>2, <1>4, <1>9 DEF Tells, Telling, At
  <2>7. \A g \in Handlers : Tells(g, c)' => g = h
    BY <1>4, <2>3 DEF Tells, Telling, At
  <2>8. notices'[c][SenderOf[c]] = << >>
    BY <2>4
  <2> QED
    BY <2>4, <2>5, <2>6, <2>7, <2>8 DEF Announced
<1> QED
  BY <1>6, <1>7, <1>8, <1>9 DEF ComInv

LEMMA TellMembersStep ==
  ASSUME ComInv, NEW h \in Handlers, TellMembers(h)
  PROVE  ComInv'
<1> DEFINE k == handlers[h].key
<1>0. At(h, "send", "tellMembers") /\ Owed(h) = {}
  BY DEF TellMembers, Owed, At
<1>1. /\ handlers' = [handlers EXCEPT ![h] = Idle] /\ Notify(k, Recipients(k), "MESSAGE")
      /\ UNCHANGED <<members, issued, open, messages, told, announced, lost, audience, faults>>
  BY DEF TellMembers, Leave, threadVars, workVars
<1>2. k \in Keys
  BY <1>0, NextPc DEF At
<1>3. Tells(h, k)
  BY <1>0 DEF Tells, Telling
<1> HIDE DEF k
<1>4. handlers' \in [Handlers -> Request] /\ \A g \in Handlers : handlers'[g] = IF g = h THEN Idle ELSE handlers[g]
  BY <1>1, IdleType, HandlersMove DEF ComInv
<1>5. /\ notices' \in [Keys -> [Users -> Seq({"MENTION", "MESSAGE"})]]
      /\ \A c \in Keys : c # k => notices'[c] = notices[c]
      /\ \A u \in Users : notices'[k][u] = IF u \in Recipients(k) THEN Append(notices[k][u], "MESSAGE")
                                                                  ELSE notices[k][u]
  BY <1>1, <1>2, NotifyType DEF ComInv
<1>6. TypeOK'
  BY <1>1, <1>4, <1>5 DEF ComInv, TypeOK
<1>7. OwnerStays' /\ AssigneesAreMembers' /\ AssigneesAreTold'
  BY <1>0, <1>1, IdleType, WorkFrame
<1>8. ASSUME NEW c \in Keys, c # k PROVE Announced(c)'
  <2>1. audience'[c] = audience[c] /\ audience[c] \subseteq members \ {SenderOf[c]} /\ (Sent(c)' <=> Sent(c))
    BY <1>1 DEF ComInv, Announced, Sent
  <2>2. ~Tells(h, c)
    BY <1>8 DEF Tells, k
  <2> QED
    BY <1>1, <1>5, <1>8, <2>1, <2>2, IdleType, KeyFrame
<1>9. ASSUME NEW c \in Keys, c = k PROVE Announced(c)'
  <2>1. Announced(c) /\ Tells(h, c)
    BY <1>3, <1>9 DEF ComInv
  <2>2. Sent(c) /\ \A u \in Users : (u \in MentionsOf[c]) <=> (notices[c][u] # << >>)
    BY <1>0, <2>1 DEF Announced
  <2>3. \A g \in Handlers : ~Tells(g, c)'
    BY <1>4, <2>1 DEF Tells, Telling, At, Announced
  <2>4. ASSUME NEW u \in Users
        PROVE  /\ Len(notices'[c][u]) <= 1
               /\ u \in members \ {SenderOf[c]} => notices'[c][u] # << >>
    <3>1. CASE u \in Recipients(k)
      <4>1. notices[c][u] = << >>
        BY <1>9, <2>2, <3>1 DEF Recipients
      <4>2. notices'[c][u] = Append(<< >>, "MESSAGE")
        BY <1>5, <1>9, <3>1, <4>1
      <4> QED
        BY <4>2, One
    <3>2. CASE u \notin Recipients(k)
      <4>1. notices'[c][u] = notices[c][u] /\ Len(notices[c][u]) <= 1
        BY <1>5, <1>9, <2>1, <3>2 DEF Announced
      <4> QED
        BY <1>9, <2>2, <3>2, <4>1 DEF Recipients
    <3> QED
      BY <3>1, <3>2
  <2>5. Sent(c)' /\ audience'[c] \subseteq members' \ {SenderOf[c]} /\ audience' = audience /\ members \subseteq Users
    BY <1>1, <2>1, <2>2 DEF Announced, Sent, ComInv, TypeOK
  <2>6. notices'[c][SenderOf[c]] = << >>
    BY <1>5, <1>9, <2>1 DEF Announced, Recipients
  <2>7. \A u \in audience'[c] : notices'[c][u] # << >>
    BY <1>1, <2>4, <2>5
  <2> QED
    BY <2>3, <2>4, <2>5, <2>6, <2>7 DEF Announced
<1> QED
  BY <1>6, <1>7, <1>8, <1>9 DEF ComInv

\* A request that dies keeps nothing from being told that another one tells, and
\* excuses what it does not tell itself.
LEMMA DieStep ==
  ASSUME ComInv, NEW h \in Handlers, Die(h)
  PROVE  ComInv'
<1>1. /\ handlers' = [handlers EXCEPT ![h] = Idle]
      /\ faults' = faults + 1 /\ faults < MaxFaults
      /\ UNCHANGED <<members, issued, open, messages, notices, told, announced, audience>>
      /\ lost' = lost \cup Owed(h)
  BY DEF Die, Leave, threadVars
<1>2. faults' \in 0 .. MaxFaults /\ faults' > 0
  BY <1>1 DEF ComInv, TypeOK
<1>a. Owed(h) \subseteq Assignments
  BY Held DEF Owed, At, ComInv, Tell, Create
<1>3. TypeOK'
  BY <1>1, <1>2, <1>a, IdleType, HandlersMove DEF ComInv, TypeOK
<1>4. OwnerStays'
  BY <1>1, IdleType, OwnerFrame DEF ComInv
<1>5. AssigneesAreMembers' /\ AssigneesAreTold'
  <2>1. AssigneesAreMembers'
    BY <1>1 DEF ComInv, AssigneesAreMembers
  <2>2. AssigneesAreTold'
    BY <1>1, IdleType, ToldFrame
  <2> QED
    BY <2>1, <2>2
<1>6. ASSUME NEW k \in Keys PROVE Announced(k)'
  <2>1. \A g \in Handlers : Tells(g, k)' => /\ Tells(g, k)
                                            /\ At(g, "send", "tellMentioned")' => At(g, "send", "tellMentioned")
                                            /\ At(g, "send", "tellMembers")' => At(g, "send", "tellMembers")
    BY <1>1, IdleType, HandlersMove DEF ComInv, Tells, Telling, At
  <2>2. Announced(k) /\ (Sent(k)' <=> Sent(k))
    BY <1>1 DEF ComInv, Sent
  <2> QED
    BY <1>1, <1>2, <2>1, <2>2 DEF Announced
<1> QED
  BY <1>3, <1>4, <1>5, <1>6 DEF ComInv

-----------------------------------------------------------------------------

LEMMA NextCom == ComInv /\ [Next]_vars => ComInv'
<1> SUFFICES ASSUME ComInv, [Next]_vars PROVE ComInv'
  OBVIOUS
<1>1. CASE UNCHANGED vars
  <2>1. TypeOK' /\ OwnerStays' /\ AssigneesAreMembers' /\ AssigneesAreTold'
    BY <1>1 DEF vars, ComInv, TypeOK, OwnerStays, AssigneesAreMembers, AssigneesAreTold, Owed, At, threadVars, workVars
  <2>2. \A h \in Handlers, k \in Keys : /\ Tells(h, k)' <=> Tells(h, k)
                                        /\ At(h, "send", "tellMentioned")' <=> At(h, "send", "tellMentioned")
                                        /\ At(h, "send", "tellMembers")' <=> At(h, "send", "tellMembers")
    BY <1>1 DEF vars, Tells, Telling, At
  <2>3. \A k \in Keys : Announced(k) /\ (Sent(k)' <=> Sent(k))
    BY <1>1 DEF vars, threadVars, ComInv, Sent
  <2>4. ASSUME NEW k \in Keys PROVE Announced(k)'
    BY <1>1, <2>2, <2>3 DEF vars, threadVars, Announced
  <2> QED
    BY <2>1, <2>4 DEF ComInv
<1>2. CASE Next
  <2> PICK h \in Handlers :
        \/ \E u, who \in Users, op \in {"add", "remove", "assign", "unassign"} : Manage(h, u, op, who)
        \/ AddParticipant(h) \/ CheckRemove(h) \/ RemoveParticipant(h)
        \/ CheckAssign(h) \/ Assign(h) \/ CheckUnassign(h) \/ Unassign(h)
        \/ TellAssigned(h) \/ TellAdded(h)
        \/ \E k \in Keys : Send(h, k)
        \/ LookUp(h) \/ CheckMentions(h) \/ Insert(h) \/ TellMentioned(h) \/ TellMembers(h)
        \/ Die(h)
    BY <1>2 DEF Next
  <2> QED
    BY ManageStep, AddStep, CheckStep, RemoveStep, AssignStep, UnassignStep, TellAssignedStep, TellAddedStep, SendStep,
       InsertStep, TellMentionedStep, TellMembersStep, DieStep
<1> QED
  BY <1>1, <1>2

LEMMA AlwaysCom == Spec => []ComInv
BY InitCom, NextCom, PTL DEF Spec

\* The rows of a thread and the requests on it are well formed; its owner stays in it.
THEOREM CommunicationTypes == Spec => []TypeOK
<1>1. ComInv => TypeOK
  BY DEF ComInv
<1> QED
  BY <1>1, AlwaysCom, PTL

\* Work is only ever open for members, whatever users, requests and assignments there are.
THEOREM WorkHasMembers == Spec => []AssigneesAreMembers
<1>1. ComInv => AssigneesAreMembers
  BY DEF ComInv
<1> QED
  BY <1>1, AlwaysCom, PTL

\* Nobody has work that he was not told of, unless the request that gave it to him is about
\* to tell him or died before it did: for any number of users, requests and deaths.
THEOREM WorkIsTold == Spec => []AssigneesAreTold
<1>1. ComInv => AssigneesAreTold
  BY DEF ComInv
<1> QED
  BY <1>1, AlwaysCom, PTL

\* No message is announced twice to anybody, for any number of retries at once.
THEOREM MessagesOnce == Spec => []AnnouncedOnce
<1>1. ComInv => AnnouncedOnce
  BY DEF ComInv, Announced, AnnouncedOnce
<1> QED
  BY <1>1, AlwaysCom, PTL

\* And it is announced to all who were there and stayed, unless a request died.
THEOREM MessagesReachAll == Spec => []EveryoneIsTold
<1>1. ComInv => EveryoneIsTold
  BY DEF ComInv, Announced, EveryoneIsTold, Tells, Telling
<1> QED
  BY <1>1, AlwaysCom, PTL

HIDE CommunicationAssumption

-----------------------------------------------------------------------------
(* The WebSocket of the page (Realtime).  A socket that closed has in the    *)
(* registry what a handler, still awaiting when it closed, put there         *)
(* (LateInv).  A connected tab is registered, and its last join is on its    *)
(* way, awaited, done or refused, with no leave of that thread behind it     *)
(* (RegisterInv).                                                            *)

USE RealtimeAssumption

\* Only the tab's own socket is open, and only while it has one is the tab connected.
TabInv ==
  /\ LiveTypeOK /\ hello \subseteq Sockets
  /\ tab.connected => tab.socket \in Sockets
  /\ \A s \in Sockets : link[s] = "up" => s = tab.socket

Links == {"unused", "up", "expired", "broken", "left"}

LEMMA SocketFacts ==
  ASSUME TabInv
  PROVE  /\ NoSocket \notin Sockets
         /\ tab.socket # NoSocket => tab.socket \in Sockets
         /\ \A s \in Sockets : server[s] \in Server /\ inbox[s] \in Seq(Message)
         /\ tab.selected # NoThread => tab.selected \in Threads
         /\ tab.held # NoThread => tab.held \in Threads
  BY DEF TabInv, LiveTypeOK, Sockets, NoSocket, Tab

LEMMA TabFacts ==
  ASSUME TabInv
  PROVE  /\ tab \in Tab /\ tab.timers \in Nat /\ tab.renewals \in Nat
         /\ tab.timers > 0 => tab.timers - 1 \in Nat
         /\ tab.renewals > 0 => tab.renewals - 1 \in Nat
  <1>1. tab \in Tab
    BY DEF TabInv, LiveTypeOK
  <1>2. tab.timers \in Nat /\ tab.renewals \in Nat
    BY <1>1 DEF Tab
  <1> QED
    BY <1>1, <1>2

LEMMA Messages ==
  ASSUME NEW thread \in Threads
  PROVE  Join(thread) \in Message /\ LeaveMsg(thread) \in Message
  BY DEF Join, LeaveMsg, Message

LEMMA Sends ==
  ASSUME NEW thread \in Threads \cup {NoThread}
  PROVE  Joins(thread) \in Seq(Message) /\ Leaves(thread) \in Seq(Message)
  BY Messages DEF Joins, Leaves

LEMMA PostTypes ==
  ASSUME TabInv, NEW s \in Sockets, NEW msgs \in Seq(Message), Post(s, msgs)
  PROVE  /\ inbox' \in [Sockets -> Seq(Message)]
         /\ link[s] = "up" => inbox'[s] = inbox[s] \o msgs
         /\ \A r \in Sockets : r # s => inbox'[r] = inbox[r]
  <1>1. inbox \in [Sockets -> Seq(Message)] /\ inbox[s] \o msgs \in Seq(Message)
    BY DEF TabInv, LiveTypeOK
  <1> QED
    BY <1>1 DEF Post

\* The server's side of socket s has become r.
Serves(s, r) == server'[s] = r /\ \A q \in Sockets : q # s => server'[q] = server[q]

LEMMA ServerMoves ==
  ASSUME TabInv, NEW s \in Sockets, NEW r \in Server, server' = [server EXCEPT ![s] = r]
  PROVE  server' \in [Sockets -> Server] /\ Serves(s, r)
  BY DEF TabInv, LiveTypeOK, Serves

\* The tab has a new socket, and is not yet connected.
Opened ==
  /\ hello' = {} /\ ~ tab'.connected
  /\ \E s \in Sockets : server'[s].served /\ \A q \in Sockets : q # s => server'[q] = server[q]

LEMMA ConnectsDoes ==
  ASSUME TabInv, hello' = {}, UNCHANGED <<registry, switches, outages>>, reloads' \in 0 .. MaxReloads,
         \E t \in Tab, l \in [Sockets -> Links] :
           /\ t.socket = NoSocket /\ ~ t.connected /\ Connects(t, l)
           /\ \A q \in Sockets : l[q] # "up"
  PROVE  TabInv' /\ Opened
  <1>0. PICK t \in Tab, l \in [Sockets -> Links] :
          /\ t.socket = NoSocket /\ ~ t.connected /\ Connects(t, l)
          /\ \A q \in Sockets : l[q] # "up"
    OBVIOUS
  <1>1. PICK s \in Sockets :
          /\ tab' = [t EXCEPT !.socket = s, !.gaveUp = FALSE]
          /\ link' = [l EXCEPT ![s] = "up"]
          /\ inbox' = [inbox EXCEPT ![s] = <<[type |-> "auth"]>>]
          /\ server' = [server EXCEPT ![s] = NewServer]
    BY <1>0 DEF Connects
  <1>2. tab' \in Tab /\ tab'.socket = s /\ ~ tab'.connected
    BY <1>0, <1>1 DEF Tab
  <1>3. NewServer \in Server /\ NewServer.served
    BY DEF NewServer, Server
  <1>4. server' \in [Sockets -> Server] /\ Serves(s, NewServer)
    BY <1>1, <1>3, ServerMoves
  <1>5. <<[type |-> "auth"]>> \in Seq(Message)
    BY DEF Message
  <1>6. inbox' \in [Sockets -> Seq(Message)]
    BY <1>1, <1>5 DEF TabInv, LiveTypeOK
  <1>7. link' \in [Sockets -> Links] /\ \A q \in Sockets : link'[q] = "up" => q = s
    BY <1>0, <1>1 DEF Links
  <1>8. LiveTypeOK'
    BY <1>2, <1>4, <1>6, <1>7 DEF TabInv, LiveTypeOK, registry, Links
  <1>9. TabInv'
    BY <1>2, <1>7, <1>8 DEF TabInv
  <1> QED
    BY <1>2, <1>3, <1>4, <1>9 DEF Opened, Serves

LEMMA ReloadDoes ==
  ASSUME TabInv, Reload
  PROVE  TabInv' /\ Opened /\ UNCHANGED registry
  <1> DEFINE l == [s \in Sockets |-> IF s = tab.socket /\ link[s] = "up" THEN "left" ELSE link[s]]
  <1>1. /\ Connects(Disconnected, l) /\ hello' = {} /\ UNCHANGED <<registry, switches, outages>>
        /\ reloads < MaxReloads /\ reloads' = reloads + 1
    BY DEF Reload
  <1>2. reloads' \in 0 .. MaxReloads
    BY <1>1 DEF TabInv, LiveTypeOK
  <1>3. Disconnected \in Tab /\ Disconnected.socket = NoSocket /\ ~ Disconnected.connected
    <2> DEFINE n == IF tab.timers > 0 THEN tab.timers - 1 ELSE 0
    <2>1. tab \in Tab /\ n \in Nat
      BY TabFacts
    <2>2. Disconnected = [tab EXCEPT !.socket = NoSocket, !.connected = FALSE, !.muted = FALSE,
                                     !.timers = n]
      BY <2>1 DEF Disconnected, Tab
    <2> HIDE DEF n
    <2> QED
      BY <2>1, <2>2 DEF Tab
  <1>4. l \in [Sockets -> Links] /\ \A q \in Sockets : l[q] # "up"
    BY DEF TabInv, LiveTypeOK, Links
  <1> HIDE DEF l
  <1>5. TabInv' /\ Opened
    BY <1>1, <1>2, <1>3, <1>4, ConnectsDoes
  <1> QED
    BY <1>1, <1>5

\* The tab still has its socket.
TabStays ==
  /\ tab'.socket = tab.socket /\ tab'.connected = tab.connected /\ tab'.selected = tab.selected
  /\ UNCHANGED <<link, inbox, hello, server>>

\* A reconnect timer, or the renewal of the token.
LEMMA ReconnectDoes ==
  ASSUME TabInv, Reconnect \/ Renewed
  PROVE  TabInv' /\ UNCHANGED registry /\ (Opened \/ TabStays)
  <1>1. UNCHANGED <<hello, registry, counts>>
    BY DEF Reconnect, Renewed
  <1>2. UNCHANGED <<registry, switches, outages>> /\ reloads' \in 0 .. MaxReloads
    BY <1>1 DEF counts, TabInv, LiveTypeOK
  <1>3. ASSUME \E t \in Tab : /\ Connects(t, link) /\ t.socket = tab.socket
                              /\ t.connected = tab.connected /\ t.selected = tab.selected
        PROVE  TabInv' /\ (Opened \/ TabStays)
    <2>1. CASE tab.socket = NoSocket
      <3>1. hello' = {} /\ ~ tab.connected /\ \A q \in Sockets : link[q] # "up"
        BY <1>1, <2>1, SocketFacts DEF TabInv, LiveTypeOK
      <3>2. link \in [Sockets -> Links]
        BY DEF TabInv, LiveTypeOK, Links
      <3> QED
        BY <1>2, <1>3, <2>1, <3>1, <3>2, ConnectsDoes
    <2>2. CASE tab.socket # NoSocket
      <3>1. PICK t \in Tab : /\ Connects(t, link) /\ t.socket = tab.socket
                             /\ t.connected = tab.connected /\ t.selected = tab.selected
        BY <1>3
      <3>2. tab' = t /\ UNCHANGED <<link, inbox, server>>
        BY <2>2, <3>1 DEF Connects
      <3> QED
        BY <1>1, <3>1, <3>2 DEF TabInv, LiveTypeOK, TabStays, registry, counts
    <2> QED
      BY <2>1, <2>2
  <1>4. CASE Reconnect
    <2> DEFINE t == [tab EXCEPT !.timers = @ - 1]
    <2>1. Connects(t, link) /\ tab.timers > 0
      BY <1>4 DEF Reconnect
    <2>2. /\ t \in Tab /\ t.socket = tab.socket /\ t.connected = tab.connected
          /\ t.selected = tab.selected
      BY <2>1, TabFacts DEF Tab
    <2> HIDE DEF t
    <2> QED
      BY <1>1, <1>3, <2>1, <2>2
  <1>5. ASSUME tab.renewals > 0, Connects([tab EXCEPT !.renewals = @ - 1], link)
        PROVE  TabInv' /\ (Opened \/ TabStays)
    <2> DEFINE t == [tab EXCEPT !.renewals = @ - 1]
    <2>1. /\ t \in Tab /\ t.socket = tab.socket /\ t.connected = tab.connected
          /\ t.selected = tab.selected
      BY <1>5, TabFacts DEF Tab
    <2>2. Connects(t, link)
      BY <1>5
    <2> HIDE DEF t
    <2> QED
      BY <1>3, <2>1, <2>2
  <1>6. ASSUME tab.renewals > 0, UNCHANGED <<link, inbox, server>>,
               tab' = [tab EXCEPT !.renewals = @ - 1, !.gaveUp = tab.socket = NoSocket]
        PROVE  TabInv' /\ TabStays
    <2>1. /\ tab' \in Tab /\ tab'.socket = tab.socket /\ tab'.connected = tab.connected
          /\ tab'.selected = tab.selected
      BY <1>6, TabFacts DEF Tab
    <2> QED
      BY <1>1, <1>6, <2>1 DEF TabInv, LiveTypeOK, TabStays, registry, counts
  <1> QED
    BY <1>1, <1>4, <1>5, <1>6 DEF Renewed

LEMMA OnConnectedDoes ==
  ASSUME TabInv, OnConnected
  PROVE  /\ TabInv' /\ UNCHANGED <<link, server, userClients, threadClients, outlived>>
         /\ tab.socket \in hello /\ tab.socket \in Sockets /\ hello' = hello \ {tab.socket}
         /\ tab'.socket = tab.socket /\ tab'.selected = tab.selected
         /\ Post(tab.socket, Joins(tab.selected)) /\ Joins(tab.selected) \in Seq(Message)
  <1>1. /\ tab.socket \in hello /\ hello' = hello \ {tab.socket}
        /\ tab' = [tab EXCEPT !.connected = TRUE] /\ Post(tab.socket, Joins(tab.selected))
        /\ UNCHANGED <<link, server, userClients, threadClients, outlived, switches, reloads, outages>>
    BY DEF OnConnected, registry, counts
  <1>2. tab.socket \in Sockets
    BY <1>1 DEF TabInv
  <1>3. tab' \in Tab /\ tab'.socket = tab.socket /\ tab'.selected = tab.selected
    BY <1>1 DEF TabInv, LiveTypeOK, Tab
  <1>4. Joins(tab.selected) \in Seq(Message)
    BY Sends DEF TabInv, LiveTypeOK, Tab
  <1>5. inbox' \in [Sockets -> Seq(Message)]
    BY <1>1, <1>2, <1>4, PostTypes
  <1>6. TabInv'
    BY <1>1, <1>2, <1>3, <1>5 DEF TabInv, LiveTypeOK
  <1> QED
    BY <1>1, <1>2, <1>3, <1>4, <1>6

\* What a switch of threads sends.
Switched(thread) == Leaves(tab.held) \o Joins(thread)

LEMMA SelectDoes ==
  ASSUME TabInv, NEW thread \in Threads \cup {NoThread}, Select(thread)
  PROVE  /\ TabInv' /\ UNCHANGED <<link, hello, server, userClients, threadClients, outlived>>
         /\ tab'.socket = tab.socket /\ tab'.connected = tab.connected /\ tab'.selected = thread
         /\ tab.connected => Post(tab.socket, Switched(thread))
         /\ Switched(thread) \in Seq(Message)
         /\ thread # NoThread => /\ Len(Switched(thread)) >= 1
                                 /\ Switched(thread)[Len(Switched(thread))] = Join(thread)
  <1>1. /\ tab' = [tab EXCEPT !.selected = thread,
                              !.held = IF tab.connected THEN thread ELSE NoThread]
        /\ IF tab.connected THEN Post(tab.socket, Switched(thread)) ELSE UNCHANGED inbox
        /\ switches < MaxSwitches /\ switches' = switches + 1
        /\ UNCHANGED <<link, hello, server, userClients, threadClients, outlived, reloads, outages>>
    BY DEF Select, Switched, registry
  <1>2. /\ tab' \in Tab /\ tab'.socket = tab.socket /\ tab'.connected = tab.connected
        /\ tab'.selected = thread
    BY <1>1 DEF TabInv, LiveTypeOK, Tab
  <1>3. /\ Switched(thread) \in Seq(Message)
        /\ thread # NoThread => /\ Len(Switched(thread)) >= 1
                                /\ Switched(thread)[Len(Switched(thread))] = Join(thread)
    <2>1. Leaves(tab.held) \in Seq(Message) /\ Joins(thread) \in Seq(Message)
      BY Sends DEF TabInv, LiveTypeOK, Tab
    <2>2. thread # NoThread => Joins(thread) = <<Join(thread)>>
      BY DEF Joins
    <2>3. ASSUME thread # NoThread
          PROVE  /\ Len(Switched(thread)) >= 1
                 /\ Switched(thread)[Len(Switched(thread))] = Join(thread)
      <3>1. Switched(thread) = Leaves(tab.held) \o <<Join(thread)>> /\ Join(thread) \in Message
        BY <2>2, <2>3, Messages DEF Switched
      <3> HIDE DEF Switched
      <3> QED
        BY <2>1, <3>1
    <2>4. Switched(thread) \in Seq(Message)
      BY <2>1 DEF Switched
    <2> QED
      BY <2>3, <2>4
  <1>4. inbox' \in [Sockets -> Seq(Message)]
    <2>1. CASE tab.connected
      BY <1>1, <1>3, <2>1, PostTypes DEF TabInv
    <2>2. CASE ~ tab.connected
      BY <1>1, <2>2 DEF TabInv, LiveTypeOK
    <2> QED
      BY <2>1, <2>2
  <1>5. switches' \in 0 .. MaxSwitches
    BY <1>1 DEF TabInv, LiveTypeOK
  <1>6. LiveTypeOK'
    BY <1>1, <1>2, <1>4, <1>5 DEF TabInv, LiveTypeOK
  <1>7. TabInv'
    BY <1>1, <1>2, <1>6 DEF TabInv
  <1> QED
    BY <1>1, <1>2, <1>3, <1>7

LEMMA OnCloseDoes ==
  ASSUME TabInv, NEW s \in Sockets, OnClose(s)
  PROVE  /\ TabInv' /\ UNCHANGED <<link, inbox, server, userClients, threadClients, outlived>>
         /\ ~ tab'.connected /\ hello' \subseteq hello
  <1>1. /\ link[s] # "up" /\ hello' = hello \ {s}
        /\ tab' = IF link[s] = "expired" THEN [Closed(s) EXCEPT !.renewals = @ + 1]
                                         ELSE [Closed(s) EXCEPT !.timers = @ + 1]
        /\ UNCHANGED <<link, inbox, server, userClients, threadClients, outlived, switches, reloads, outages>>
    BY DEF OnClose, registry, counts
  <1>2. /\ Closed(s) \in Tab /\ ~ Closed(s).connected
        /\ Closed(s).socket = IF tab.socket = s THEN NoSocket ELSE tab.socket
    BY DEF TabInv, LiveTypeOK, Tab, Closed
  <1>3. tab' \in Tab /\ ~ tab'.connected /\ tab'.socket = IF tab.socket = s THEN NoSocket ELSE tab.socket
    BY <1>1, <1>2 DEF Tab
  <1>4. hello' \subseteq {tab'.socket} /\ \A q \in Sockets : link'[q] = "up" => q = tab'.socket
    BY <1>1, <1>3 DEF TabInv, LiveTypeOK
  <1> QED
    BY <1>1, <1>3, <1>4 DEF TabInv, LiveTypeOK

\* What the server does to socket s: nothing in the tab moves.
LEMMA ServerTypes ==
  ASSUME TabInv, NEW s \in Sockets, NEW r \in Server, server' = [server EXCEPT ![s] = r],
         tab' = tab, switches' = switches, reloads' = reloads, outages' \in 0 .. MaxOutages,
         link' \in [Sockets -> Links],
         \A q \in Sockets : link'[q] = "up" => link[q] = "up",
         inbox' \in [Sockets -> Seq(Message)], hello' \subseteq {tab.socket} \cap Sockets,
         userClients' \subseteq Sockets, threadClients' \subseteq Threads \X Sockets,
         outlived' \in [Sockets -> [auth : BOOLEAN, joins : SUBSET Threads]]
  PROVE  TabInv' /\ Serves(s, r)
  <1>1. server' \in [Sockets -> Server] /\ Serves(s, r)
    BY ServerMoves
  <1>2. LiveTypeOK'
    BY <1>1 DEF TabInv, LiveTypeOK, Links
  <1> QED
    BY <1>1, <1>2 DEF TabInv

\* The timers, the failures, and the first of the two awaits of a log-in.
Quiet(s) == Verified(s) \/ AuthFails(s) \/ AuthTimeout(s) \/ TokenExpires(s) \/ Drop(s)

LEMMA QuietDoes ==
  ASSUME TabInv, NEW s \in Sockets, Quiet(s)
  PROVE  /\ TabInv' /\ UNCHANGED <<tab, inbox, hello, userClients, threadClients, outlived>>
         /\ \A q \in Sockets : link'[q] = "up" => link[q] = "up"
         /\ \A q \in Sockets : /\ server'[q].served = server[q].served
                               /\ server'[q].joins = server[q].joins
                               /\ server'[q].refused = server[q].refused
                               /\ server'[q].auth # "none" => server[q].auth # "none"
  <1> DEFINE r == IF Verified(s) THEN [server[s] EXCEPT !.auth = "load"]
                  ELSE IF AuthFails(s) THEN [server[s] EXCEPT !.auth = "none"]
                  ELSE IF AuthTimeout(s) THEN [server[s] EXCEPT !.timer = FALSE]
                  ELSE IF TokenExpires(s) THEN [server[s] EXCEPT !.expiry = FALSE]
                  ELSE server[s]
  <1>1. server[s] \in Server /\ server \in [Sockets -> Server]
    BY DEF TabInv, LiveTypeOK
  <1>2. UNCHANGED <<tab, inbox, hello, userClients, threadClients, outlived, switches, reloads>>
    BY DEF Quiet, Verified, AuthFails, AuthTimeout, TokenExpires, Drop, Outage, registry, counts
  <1>3. outages' \in 0 .. MaxOutages
    BY DEF Quiet, Verified, AuthFails, AuthTimeout, TokenExpires, Drop, Outage, counts, TabInv, LiveTypeOK
  <1>4. /\ link' \in [Sockets -> Links]
        /\ \A q \in Sockets : link'[q] = "up" => link[q] = "up"
    BY DEF Quiet, Verified, AuthFails, AuthTimeout, TokenExpires, Drop, CloseExpired, TabInv, LiveTypeOK, Links
  <1>5. /\ r \in Server /\ server' = [server EXCEPT ![s] = r]
        /\ r.served = server[s].served /\ r.joins = server[s].joins
        /\ r.refused = server[s].refused
        /\ r.auth # "none" => server[s].auth # "none"
    <2>1. CASE Verified(s)
      BY <1>1, <2>1 DEF Verified, Server
    <2>2. CASE ~ Verified(s) /\ AuthFails(s)
      BY <1>1, <2>2 DEF AuthFails, Server
    <2>3. CASE ~ Verified(s) /\ ~ AuthFails(s) /\ AuthTimeout(s)
      BY <1>1, <2>3 DEF AuthTimeout, Server
    <2>4. CASE ~ Verified(s) /\ ~ AuthFails(s) /\ ~ AuthTimeout(s) /\ TokenExpires(s)
      BY <1>1, <2>4 DEF TokenExpires, Server
    <2>5. CASE ~ Verified(s) /\ ~ AuthFails(s) /\ ~ AuthTimeout(s) /\ ~ TokenExpires(s) /\ Drop(s)
      BY <1>1, <2>5 DEF Drop
    <2> QED
      BY <2>1, <2>2, <2>3, <2>4, <2>5 DEF Quiet
  <1> HIDE DEF r
  <1>6. TabInv' /\ Serves(s, r)
    BY <1>2, <1>3, <1>4, <1>5, ServerTypes DEF TabInv, LiveTypeOK, Links
  <1> QED
    BY <1>2, <1>4, <1>5, <1>6 DEF Serves

LEMMA LoadedDoes ==
  ASSUME TabInv, NEW s \in Sockets, Loaded(s)
  PROVE  /\ TabInv' /\ UNCHANGED <<tab, link, inbox, threadClients, outlived>>
         /\ server[s].auth = "load" /\ userClients' = userClients \cup {s}
         /\ hello' = IF link[s] = "up" THEN hello \cup {s} ELSE hello
         /\ \A q \in Sockets : /\ server'[q].served = server[q].served
                               /\ server'[q].joins = server[q].joins
                               /\ server'[q].refused = server[q].refused
                               /\ server'[q].auth # "none" => server[q].auth # "none"
  <1> DEFINE r == [server[s] EXCEPT !.auth = "none", !.authed = TRUE, !.timer = FALSE,
                                    !.expiry = TRUE]
  <1>1. /\ server[s].auth = "load" /\ userClients' = userClients \cup {s}
        /\ hello' = IF link[s] = "up" THEN hello \cup {s} ELSE hello
        /\ server' = [server EXCEPT ![s] = r]
        /\ UNCHANGED <<tab, link, inbox, threadClients, outlived, switches, reloads, outages>>
    BY DEF Loaded, counts, TabInv, LiveTypeOK
  <1>2. /\ r \in Server /\ r.served = server[s].served /\ r.joins = server[s].joins
        /\ r.refused = server[s].refused /\ r.auth = "none"
    <2>1. server[s] \in Server
      BY DEF TabInv, LiveTypeOK
    <2> QED
      BY <2>1 DEF Server
  <1> HIDE DEF r
  <1>3. hello' \subseteq {tab.socket} \cap Sockets
    BY <1>1 DEF TabInv, LiveTypeOK
  <1>4. TabInv' /\ Serves(s, r)
    BY <1>1, <1>2, <1>3, ServerTypes DEF TabInv, LiveTypeOK, Links
  <1> QED
    BY <1>1, <1>2, <1>4 DEF Serves

LEMMA JoinedDoes ==
  ASSUME TabInv, NEW s \in Sockets, Joined(s)
  PROVE  /\ TabInv' /\ UNCHANGED <<tab, link, inbox, hello, userClients, outlived>>
         /\ \A q \in Sockets : /\ server'[q].served = server[q].served
                               /\ server'[q].auth = server[q].auth
                               /\ server'[q].refused = server[q].refused
         /\ \A q \in Sockets : q # s => server'[q].joins = server[q].joins
         /\ \E thread \in server[s].joins :
              /\ server'[s].joins = server[s].joins \ {thread}
              /\ threadClients' = threadClients \cup {<<thread, s>>}
  <1>1. PICK thread \in server[s].joins :
          /\ server' = [server EXCEPT ![s].joins = @ \ {thread}]
          /\ threadClients' = threadClients \cup {<<thread, s>>}
          /\ UNCHANGED <<tab, link, inbox, hello, userClients, outlived, switches, reloads, outages>>
    BY DEF Joined, counts
  <1> DEFINE r == [server[s] EXCEPT !.joins = @ \ {thread}]
  <1>2. server[s] \in Server
    BY DEF TabInv, LiveTypeOK
  <1>3. server' = [server EXCEPT ![s] = r]
    BY <1>1 DEF TabInv, LiveTypeOK
  <1>4. /\ r \in Server /\ r.served = server[s].served /\ r.auth = server[s].auth
        /\ r.joins = server[s].joins \ {thread} /\ r.refused = server[s].refused
    BY <1>2 DEF Server
  <1>5. thread \in Threads
    BY <1>2 DEF Server
  <1> HIDE DEF r
  <1>6. threadClients' \subseteq Threads \X Sockets
    BY <1>1, <1>5 DEF TabInv, LiveTypeOK
  <1>7. TabInv' /\ Serves(s, r)
    BY <1>1, <1>3, <1>4, <1>6, ServerTypes DEF TabInv, LiveTypeOK, Links
  <1> QED
    BY <1>1, <1>4, <1>7 DEF Serves

LEMMA JoinFailsDoes ==
  ASSUME TabInv, NEW s \in Sockets, JoinFails(s)
  PROVE  /\ TabInv' /\ UNCHANGED <<tab, link, inbox, hello, userClients, threadClients, outlived>>
         /\ \A q \in Sockets : server'[q].served = server[q].served /\ server'[q].auth = server[q].auth
         /\ \A q \in Sockets : q # s => server'[q] = server[q]
         /\ \E thread \in server[s].joins :
              /\ server'[s].joins = server[s].joins \ {thread}
              /\ server'[s].refused = server[s].refused \cup {thread}
  <1>1. PICK thread \in server[s].joins :
          /\ server' = [server EXCEPT ![s].joins = @ \ {thread}, ![s].refused = @ \cup {thread}]
          /\ UNCHANGED <<tab, link, inbox, hello, userClients, threadClients, outlived, switches, reloads, outages>>
    BY DEF JoinFails, registry, counts
  <1> DEFINE r == [server[s] EXCEPT !.joins = @ \ {thread}, !.refused = @ \cup {thread}]
  <1>2. server[s] \in Server
    BY DEF TabInv, LiveTypeOK
  <1>3. server' = [server EXCEPT ![s] = r]
    BY <1>1 DEF TabInv, LiveTypeOK
  <1>4. /\ r \in Server /\ r.served = server[s].served /\ r.auth = server[s].auth
        /\ r.joins = server[s].joins \ {thread} /\ r.refused = server[s].refused \cup {thread}
    BY <1>2 DEF Server
  <1> HIDE DEF r
  <1>5. TabInv' /\ Serves(s, r)
    BY <1>1, <1>3, <1>4, ServerTypes DEF TabInv, LiveTypeOK, Links
  <1> QED
    BY <1>1, <1>4, <1>5 DEF Serves

LEMMA OnServerCloseDoes ==
  ASSUME TabInv, NEW s \in Sockets, OnServerClose(s)
  PROVE  /\ TabInv' /\ UNCHANGED <<tab, link, inbox, hello>> /\ link[s] # "up"
         /\ userClients' = userClients \ {s}
         /\ threadClients' = {e \in threadClients : e[2] # s}
         /\ \A q \in Sockets : /\ server'[q].joins = server[q].joins
                               /\ server'[q].refused = server[q].refused
                               /\ server'[q].auth = server[q].auth
         /\ \A q \in Sockets : q # s => /\ server'[q].served = server[q].served
                                        /\ outlived'[q] = outlived[q]
         /\ outlived'[s].auth = (server[s].auth # "none") /\ outlived'[s].joins = server[s].joins
  <1> DEFINE r == [server[s] EXCEPT !.served = FALSE, !.timer = FALSE, !.expiry = FALSE]
             pending == server[s].auth # "none"
             o == [auth |-> pending, joins |-> server[s].joins]
  <1>1. /\ link[s] # "up"
        /\ userClients' = userClients \ {s}
        /\ threadClients' = {e \in threadClients : e[2] # s}
        /\ server' = [server EXCEPT ![s] = r] /\ outlived' = [outlived EXCEPT ![s] = o]
        /\ UNCHANGED <<tab, link, inbox, hello, switches, reloads, outages>>
    BY DEF OnServerClose, counts, TabInv, LiveTypeOK
  <1>2. server[s] \in Server
    BY DEF TabInv, LiveTypeOK
  <1>3. /\ r \in Server /\ r.joins = server[s].joins /\ r.auth = server[s].auth
        /\ r.refused = server[s].refused
    BY <1>2 DEF Server
  <1>4. pending \in BOOLEAN /\ server[s].joins \in SUBSET Threads
    BY <1>2 DEF Server
  <1> HIDE DEF r, pending
  <1>5. /\ outlived' \in [Sockets -> [auth : BOOLEAN, joins : SUBSET Threads]]
        /\ outlived'[s].auth = pending /\ outlived'[s].joins = server[s].joins
        /\ \A q \in Sockets : q # s => outlived'[q] = outlived[q]
    BY <1>1, <1>4 DEF TabInv, LiveTypeOK
  <1>6. TabInv' /\ Serves(s, r)
    BY <1>1, <1>3, <1>5, ServerTypes DEF TabInv, LiveTypeOK, Links
  <1>7. outlived'[s].auth = (server[s].auth # "none")
    BY <1>5 DEF pending
  <1> QED
    BY <1>1, <1>3, <1>5, <1>6, <1>7 DEF Serves

LEMMA ReceiveDoes ==
  ASSUME TabInv, NEW s \in Sockets, Receive(s)
  PROVE  LET m == Head(inbox[s]) IN
         /\ TabInv' /\ UNCHANGED <<tab, link, hello, userClients, outlived>>
         /\ server[s].served /\ server'[s].served /\ \A q \in Sockets : q # s => server'[q] = server[q]
         /\ inbox[s] # << >> /\ inbox'[s] = Tail(inbox[s])
         /\ \A q \in Sockets : q # s => inbox'[q] = inbox[q]
         /\ threadClients' \subseteq threadClients /\ server[s].joins \subseteq server'[s].joins
         /\ \A thread \in Threads : m = Join(thread) => thread \in server'[s].joins
         /\ server[s].refused \subseteq server'[s].refused \cup server'[s].joins
         /\ \A e \in threadClients : e \in threadClients' \/ m = LeaveMsg(e[1])
         /\ \A e \in threadClients : e[2] # s => e \in threadClients'
  <1> DEFINE m == Head(inbox[s])
  <1>1. /\ server[s].served /\ inbox[s] # << >> /\ inbox' = [inbox EXCEPT ![s] = Tail(inbox[s])]
        /\ UNCHANGED <<tab, link, hello, userClients, outlived, switches, reloads, outages>>
    BY DEF Receive, counts, TabInv, LiveTypeOK
  <1>2. /\ server[s] \in Server /\ server \in [Sockets -> Server]
        /\ inbox[s] \in Seq(Message) /\ m \in Message /\ Tail(inbox[s]) \in Seq(Message)
        /\ threadClients \subseteq Threads \X Sockets
    BY <1>1 DEF TabInv, LiveTypeOK
  <1>3. inbox' \in [Sockets -> Seq(Message)] /\ inbox'[s] = Tail(inbox[s])
        /\ \A q \in Sockets : q # s => inbox'[q] = inbox[q]
    BY <1>1, <1>2 DEF TabInv, LiveTypeOK
  <1>4. \E r \in Server :
          /\ server' = [server EXCEPT ![s] = r] /\ r.served
          /\ server[s].joins \subseteq r.joins /\ threadClients' \subseteq threadClients
          /\ \A thread \in Threads : m = Join(thread) => thread \in r.joins
          /\ server[s].refused \subseteq r.refused \cup r.joins
          /\ \A e \in threadClients : e \in threadClients' \/ m = LeaveMsg(e[1])
          /\ \A e \in threadClients : e[2] # s => e \in threadClients'
    <2>1. CASE /\ m.type = "auth" /\ threadClients' = threadClients
               /\ server' = [server EXCEPT ![s].auth = "verify"]
      <3> DEFINE r == [server[s] EXCEPT !.auth = "verify"]
      <3>1. /\ r \in Server /\ r.served = server[s].served /\ r.joins = server[s].joins
            /\ r.refused = server[s].refused
        BY <1>2 DEF Server
      <3>2. server' = [server EXCEPT ![s] = r] /\ \A thread \in Threads : m # Join(thread)
        BY <1>2, <2>1 DEF Join
      <3> HIDE DEF r
      <3> QED
        BY <1>1, <2>1, <3>1, <3>2
    <2>2. CASE /\ m.type = "join" /\ threadClients' = threadClients
               /\ server' = [server EXCEPT ![s].joins = @ \cup {m.thread},
                                           ![s].refused = @ \ {m.thread}]
      <3> DEFINE r == [server[s] EXCEPT !.joins = @ \cup {m.thread}, !.refused = @ \ {m.thread}]
      <3>1. m.thread \in Threads
        BY <1>2, <2>2 DEF Message
      <3>2. /\ r \in Server /\ r.served = server[s].served
            /\ r.joins = server[s].joins \cup {m.thread} /\ r.refused = server[s].refused \ {m.thread}
        BY <1>2, <3>1 DEF Server
      <3>3. server' = [server EXCEPT ![s] = r]
        BY <1>2, <2>2
      <3>4. \A thread \in Threads : m = Join(thread) => thread = m.thread
        BY DEF Join
      <3> HIDE DEF r, m
      <3> QED
        BY <1>1, <2>2, <3>2, <3>3, <3>4
    <2>3. CASE /\ m.type = "leave" /\ threadClients' = threadClients \ {<<m.thread, s>>}
               /\ server' = server
      <3>1. m = LeaveMsg(m.thread) /\ \A thread \in Threads : m # Join(thread)
        BY <1>2, <2>3 DEF Message, LeaveMsg, Join
      <3>2. server' = [server EXCEPT ![s] = server[s]]
        BY <1>2, <2>3
      <3> HIDE DEF m
      <3>3. \A e \in threadClients : e \notin threadClients' => e[1] = m.thread /\ e[2] = s
        BY <2>3
      <3> QED
        BY <1>1, <1>2, <2>3, <3>1, <3>2, <3>3
    <2> QED
      BY <2>1, <2>2, <2>3 DEF Receive
  <1> HIDE DEF m
  <1>5. PICK r \in Server :
          /\ server' = [server EXCEPT ![s] = r] /\ r.served
          /\ server[s].joins \subseteq r.joins /\ threadClients' \subseteq threadClients
          /\ \A thread \in Threads : m = Join(thread) => thread \in r.joins
          /\ server[s].refused \subseteq r.refused \cup r.joins
          /\ \A e \in threadClients : e \in threadClients' \/ m = LeaveMsg(e[1])
          /\ \A e \in threadClients : e[2] # s => e \in threadClients'
    BY <1>4
  <1>6. threadClients' \subseteq Threads \X Sockets
    BY <1>2, <1>5
  <1>7. TabInv' /\ Serves(s, r)
    BY <1>1, <1>3, <1>5, <1>6, ServerTypes DEF TabInv, LiveTypeOK, Links
  <1> QED
    BY <1>1, <1>3, <1>5, <1>7 DEF Serves, m

LEMMA TabSteps ==
  ASSUME [LiveNext]_liveVars
  PROVE  \/ Reload \/ Reconnect \/ Renewed \/ OnConnected
         \/ \E thread \in Threads \cup {NoThread} : Select(thread)
         \/ \E s \in Sockets :
              \/ OnClose(s) \/ Quiet(s) \/ Loaded(s) \/ Receive(s)
              \/ Joined(s) \/ JoinFails(s) \/ OnServerClose(s)
         \/ UNCHANGED liveVars
  BY DEF LiveNext, Works, Quiet

LEMMA StutterDoes ==
  ASSUME TabInv, UNCHANGED liveVars
  PROVE  /\ TabInv'
         /\ UNCHANGED <<tab, link, inbox, hello, server, userClients, threadClients, outlived>>
  BY DEF liveVars, registry, counts, TabInv, LiveTypeOK

LEMMA InitTab == LiveInit => TabInv
  <1> SUFFICES ASSUME LiveInit PROVE TabInv
    OBVIOUS
  <1>1. NewServer \in Server /\ [NewServer EXCEPT !.served = FALSE, !.timer = FALSE] \in Server
    BY DEF NewServer, Server
  <1>2. 1 \in Sockets
    BY DEF Sockets
  <1>3. tab \in Tab /\ ~ tab.connected /\ tab.socket = 1
    BY <1>2 DEF LiveInit, Tab
  <1>4. <<[type |-> "auth"]>> \in Seq(Message) /\ << >> \in Seq(Message)
    BY DEF Message
  <1>5. inbox \in [Sockets -> Seq(Message)]
    BY <1>4 DEF LiveInit
  <1>6. server \in [Sockets -> Server]
    BY <1>1 DEF LiveInit
  <1> QED
    BY <1>3, <1>5, <1>6 DEF LiveInit, TabInv, LiveTypeOK

LEMMA NextTab == TabInv /\ [LiveNext]_liveVars => TabInv'
  BY TabSteps, ReloadDoes, ReconnectDoes, OnConnectedDoes, OnCloseDoes, SelectDoes, QuietDoes,
     LoadedDoes, ReceiveDoes, JoinedDoes, JoinFailsDoes, OnServerCloseDoes, StutterDoes

\* Sockets, tab and registry are well formed, whatever connections are lost or refused.
THEOREM RealtimeTypes == LiveSpec => []LiveTypeOK
  <1>1. TabInv => LiveTypeOK
    BY DEF TabInv
  <1> QED
    BY <1>1, InitTab, NextTab, PTL DEF LiveSpec

-----------------------------------------------------------------------------
(* Leftovers. *)

LateInv ==
  \A s \in Sockets : ~ server[s].served =>
    /\ server[s].auth # "none" => outlived[s].auth
    /\ server[s].joins \subseteq outlived[s].joins
    /\ s \in userClients => outlived[s].auth
    /\ \A thread \in Threads : <<thread, s>> \in threadClients => thread \in outlived[s].joins

LEMMA LateKept ==
  ASSUME LateInv, outlived' = outlived, userClients' \subseteq userClients,
         threadClients' \subseteq threadClients,
         \A s \in Sockets : ~ server'[s].served =>
           /\ ~ server[s].served
           /\ server'[s].auth # "none" => server[s].auth # "none"
           /\ server'[s].joins \subseteq server[s].joins
  PROVE  LateInv'
  BY DEF LateInv

LEMMA NextLate == TabInv /\ LateInv /\ [LiveNext]_liveVars => LateInv'
  <1> SUFFICES ASSUME TabInv, LateInv, [LiveNext]_liveVars PROVE LateInv'
    OBVIOUS
  <1>1. CASE Reload \/ Reconnect \/ Renewed
    <2>1. UNCHANGED registry /\ (Opened \/ TabStays)
      BY <1>1, ReloadDoes, ReconnectDoes
    <2> QED
      BY <2>1, LateKept DEF registry, Opened, TabStays
  <1>2. CASE \/ OnConnected \/ \E s \in Sockets : OnClose(s)
             \/ \E thread \in Threads \cup {NoThread} : Select(thread)
    <2>1. UNCHANGED <<server, userClients, threadClients, outlived>>
      BY <1>2, OnConnectedDoes, OnCloseDoes, SelectDoes
    <2> QED
      BY <2>1, LateKept
  <1>3. ASSUME NEW s \in Sockets, Quiet(s) PROVE LateInv'
    BY <1>3, QuietDoes, LateKept
  <1>4. ASSUME NEW s \in Sockets, Loaded(s) PROVE LateInv'
    BY <1>4, LoadedDoes DEF LateInv
  <1>5. ASSUME NEW s \in Sockets, Receive(s) PROVE LateInv'
    <2>1. /\ UNCHANGED <<userClients, outlived>> /\ server'[s].served
          /\ \A q \in Sockets : q # s => server'[q] = server[q]
          /\ threadClients' \subseteq threadClients
      BY <1>5, ReceiveDoes
    <2> QED
      BY <2>1, LateKept
  <1>6. ASSUME NEW s \in Sockets, Joined(s) PROVE LateInv'
    <2>1. PICK thread \in server[s].joins :
            /\ server'[s].joins = server[s].joins \ {thread}
            /\ threadClients' = threadClients \cup {<<thread, s>>}
      BY <1>6, JoinedDoes
    <2>2. /\ UNCHANGED <<userClients, outlived>>
          /\ \A q \in Sockets : server'[q].served = server[q].served /\ server'[q].auth = server[q].auth
          /\ \A q \in Sockets : q # s => server'[q].joins = server[q].joins
      BY <1>6, JoinedDoes
    <2>3. \A q \in Sockets, t \in Threads : <<t, q>> \in threadClients' =>
            <<t, q>> \in threadClients \/ (q = s /\ t \in server[s].joins)
      BY <2>1
    <2> QED
      BY <2>1, <2>2, <2>3 DEF LateInv
  <1>9. ASSUME NEW s \in Sockets, JoinFails(s) PROVE LateInv'
    <2>1. /\ UNCHANGED <<userClients, threadClients, outlived>>
          /\ \A q \in Sockets : /\ server'[q].served = server[q].served
                                /\ server'[q].auth = server[q].auth
                                /\ server'[q].joins \subseteq server[q].joins
      BY <1>9, JoinFailsDoes
    <2> QED
      BY <2>1, LateKept
  <1>7. ASSUME NEW s \in Sockets, OnServerClose(s) PROVE LateInv'
    <2>1. /\ userClients' = userClients \ {s}
          /\ \A q \in Sockets : server'[q].joins = server[q].joins /\ server'[q].auth = server[q].auth
          /\ \A q \in Sockets : q # s => server'[q].served = server[q].served /\ outlived'[q] = outlived[q]
          /\ outlived'[s].auth = (server[s].auth # "none") /\ outlived'[s].joins = server[s].joins
      BY <1>7, OnServerCloseDoes
    <2>2. \A t \in Threads, q \in Sockets : <<t, q>> \in threadClients' =>
            q # s /\ <<t, q>> \in threadClients
      BY <1>7, OnServerCloseDoes
    <2> QED
      BY <2>1, <2>2 DEF LateInv
  <1>8. CASE UNCHANGED liveVars
    BY <1>8, StutterDoes, LateKept
  <1> QED
    BY TabSteps, <1>1, <1>2, <1>3, <1>4, <1>5, <1>6, <1>7, <1>8, <1>9

\* The registry forgets closed sockets, for any threads and any number of connections:
\* what is left of one was added by a handler that was awaiting when it closed.
THEOREM OnlyLateOnesAreLeft == LiveSpec => []LeftoversAreLate
  <1>1. LiveInit => LateInv
    <2>1. /\ [NewServer EXCEPT !.served = FALSE, !.timer = FALSE].auth = "none"
          /\ [NewServer EXCEPT !.served = FALSE, !.timer = FALSE].joins = {} /\ NewServer.served
      BY DEF NewServer
    <2> QED
      BY <2>1 DEF LiveInit, LateInv
  <1>2. LateInv => LeftoversAreLate
    BY DEF LateInv, LeftoversAreLate
  <1> QED
    BY <1>1, <1>2, InitTab, NextTab, NextLate, PTL DEF LiveSpec

-----------------------------------------------------------------------------
(* Registration. *)

\* A join of the thread is under way that no leave of it follows.
LastJoin(q, thread) ==
  \E i \in DOMAIN q : q[i] = Join(thread) /\ \A j \in DOMAIN q : j > i => q[j] # LeaveMsg(thread)
NoLeave(q, thread) == \A i \in DOMAIN q : q[i] # LeaveMsg(thread)

Joining(s, thread) ==
  \/ LastJoin(inbox[s], thread)
  \/ /\ NoLeave(inbox[s], thread)
     /\ \/ <<thread, s>> \in threadClients
        \/ thread \in server[s].joins \/ thread \in server[s].refused

RegisterInv ==
  \A s \in Sockets : link[s] = "up" =>
    /\ s \in hello \/ (tab.socket = s /\ tab.connected) => s \in userClients
    /\ tab.socket = s /\ tab.connected /\ tab.selected # NoThread => Joining(s, tab.selected)

LEMMA JoinIsLast ==
  ASSUME NEW q \in Seq(Message), NEW more \in Seq(Message), NEW thread \in Threads,
         Len(more) >= 1, more[Len(more)] = Join(thread)
  PROVE  LastJoin(q \o more, thread)
  <1> DEFINE longer == q \o more
  <1>1. /\ Len(longer) = Len(q) + Len(more) /\ longer[Len(longer)] = Join(thread)
        /\ Len(longer) \in DOMAIN longer /\ DOMAIN longer = 1 .. Len(longer)
        /\ Len(q) \in Nat /\ Len(more) \in Nat
    BY ConcatProperties
  <1> HIDE DEF longer
  <1>2. LastJoin(longer, thread)
    BY <1>1 DEF LastJoin
  <1> QED
    BY <1>2 DEF longer

LEMMA TailJoins ==
  ASSUME NEW q \in Seq(Message), q # << >>, NEW thread \in Threads
  PROVE  /\ NoLeave(q, thread) => NoLeave(Tail(q), thread) /\ Head(q) # LeaveMsg(thread)
         /\ LastJoin(q, thread) =>
              \/ LastJoin(Tail(q), thread)
              \/ Head(q) = Join(thread) /\ NoLeave(Tail(q), thread)
  <1> DEFINE rest == Tail(q)
  <1>1. /\ Head(q) = q[1] /\ Len(q) \in Nat \ {0} /\ DOMAIN q = 1 .. Len(q)
        /\ DOMAIN rest = 1 .. Len(q) - 1 /\ \A i \in 1 .. Len(q) - 1 : rest[i] = q[i + 1]
    BY HeadTailProperties
  <1> HIDE DEF rest
  <1>2. NoLeave(q, thread) => NoLeave(rest, thread) /\ Head(q) # LeaveMsg(thread)
    BY <1>1 DEF NoLeave
  <1>3. ASSUME LastJoin(q, thread)
        PROVE  LastJoin(rest, thread) \/ (Head(q) = Join(thread) /\ NoLeave(rest, thread))
    <2>1. PICK i \in DOMAIN q : /\ q[i] = Join(thread)
                                /\ \A j \in DOMAIN q : j > i => q[j] # LeaveMsg(thread)
      BY <1>3 DEF LastJoin
    <2>2. CASE i = 1
      BY <1>1, <2>1, <2>2 DEF NoLeave
    <2>3. CASE i # 1
      <3>1. i - 1 \in DOMAIN rest /\ rest[i - 1] = Join(thread)
        BY <1>1, <2>1, <2>3
      <3>2. \A j \in DOMAIN rest : j > i - 1 => rest[j] # LeaveMsg(thread)
        BY <1>1, <2>1
      <3> QED
        BY <3>1, <3>2 DEF LastJoin
    <2> QED
      BY <2>2, <2>3
  <1> QED
    BY <1>2, <1>3 DEF rest

\* What neither the tab nor a message changes.
LEMMA RegisterKept ==
  ASSUME TabInv, RegisterInv, inbox' = inbox, tab'.socket = tab.socket,
         tab'.connected = tab.connected, tab'.selected = tab.selected,
         \A s \in Sockets : link'[s] = "up" =>
           /\ link[s] = "up" /\ (s \in userClients => s \in userClients')
           /\ s \in hello' => s \in hello \/ s \in userClients'
           /\ server[s].joins \subseteq server'[s].joins
           /\ server[s].refused \subseteq server'[s].refused
           /\ \A thread \in Threads : <<thread, s>> \in threadClients => <<thread, s>> \in threadClients'
  PROVE  RegisterInv'
  <1> SUFFICES ASSUME NEW s \in Sockets, link'[s] = "up"
               PROVE  /\ s \in hello' \/ (tab'.socket = s /\ tab'.connected) => s \in userClients'
                      /\ tab'.socket = s /\ tab'.connected /\ tab'.selected # NoThread =>
                           Joining(s, tab.selected)'
    BY DEF RegisterInv
  <1>1. tab.selected # NoThread => tab.selected \in Threads
    BY SocketFacts
  <1> QED
    BY <1>1 DEF RegisterInv, Joining

LEMMA NextRegister == TabInv /\ RegisterInv /\ [LiveNext]_liveVars => RegisterInv'
  <1> SUFFICES ASSUME TabInv, RegisterInv, [LiveNext]_liveVars PROVE RegisterInv'
    OBVIOUS
  <1>1. CASE Reload \/ Reconnect \/ Renewed
    <2>1. UNCHANGED registry /\ (Opened \/ TabStays)
      BY <1>1, ReloadDoes, ReconnectDoes
    <2>2. CASE Opened
      BY <2>2 DEF Opened, RegisterInv
    <2>3. CASE TabStays
      BY <2>1, <2>3, RegisterKept DEF TabStays, registry
    <2> QED
      BY <2>1, <2>2, <2>3
  <1>2. CASE OnConnected
    <2> DEFINE t == tab.socket
    <2>1. /\ TabInv' /\ UNCHANGED <<link, server, userClients, threadClients>>
          /\ t \in hello /\ t \in Sockets /\ hello' \subseteq hello
          /\ tab'.socket = t /\ tab'.selected = tab.selected
          /\ Post(t, Joins(tab.selected)) /\ Joins(tab.selected) \in Seq(Message)
      BY <1>2, OnConnectedDoes
    <2> SUFFICES ASSUME NEW s \in Sockets, link'[s] = "up"
                 PROVE  /\ s \in hello' \/ (tab'.socket = s /\ tab'.connected) => s \in userClients'
                        /\ tab'.socket = s /\ tab'.connected /\ tab'.selected # NoThread =>
                             Joining(s, tab.selected)'
      BY DEF RegisterInv
    <2>2. s = t /\ s \in userClients'
      BY <2>1 DEF TabInv, RegisterInv
    <2>3. ASSUME tab.selected # NoThread PROVE LastJoin(inbox'[s], tab.selected)
      <3>1. Joins(tab.selected) = <<Join(tab.selected)>> /\ tab.selected \in Threads
        BY <2>3, SocketFacts DEF Joins
      <3>2. Len(Joins(tab.selected)) >= 1 /\ Joins(tab.selected)[Len(Joins(tab.selected))] = Join(tab.selected)
        BY <3>1
      <3>3. inbox[s] \in Seq(Message) /\ inbox'[s] = inbox[s] \o Joins(tab.selected)
        BY <2>1, <2>2, PostTypes, SocketFacts
      <3> QED
        BY <2>1, <3>1, <3>2, <3>3, JoinIsLast
    <2> QED
      BY <2>1, <2>2, <2>3 DEF Joining
  <1>3. ASSUME NEW s \in Sockets, OnClose(s) PROVE RegisterInv'
    BY <1>3, OnCloseDoes DEF RegisterInv
  <1>5. ASSUME NEW thread \in Threads \cup {NoThread}, Select(thread) PROVE RegisterInv'
    <2>1. /\ UNCHANGED <<link, hello, server, userClients, threadClients>>
          /\ tab'.socket = tab.socket /\ tab'.connected = tab.connected /\ tab'.selected = thread
          /\ tab.connected => Post(tab.socket, Switched(thread))
          /\ Switched(thread) \in Seq(Message)
          /\ thread # NoThread => /\ Len(Switched(thread)) >= 1
                                  /\ Switched(thread)[Len(Switched(thread))] = Join(thread)
      BY <1>5, SelectDoes
    <2>2. ASSUME NEW s \in Sockets, link'[s] = "up", tab.socket = s, tab.connected, thread # NoThread
          PROVE  LastJoin(inbox'[s], thread)
      <3>1. inbox[s] \in Seq(Message) /\ inbox'[s] = inbox[s] \o Switched(thread)
        BY <2>1, <2>2, PostTypes, SocketFacts
      <3> QED
        BY <2>1, <2>2, <3>1, JoinIsLast
    <2> QED
      BY <2>1, <2>2 DEF RegisterInv, Joining
  <1>6. ASSUME NEW s \in Sockets, Quiet(s) PROVE RegisterInv'
    BY <1>6, QuietDoes, RegisterKept
  <1>7. ASSUME NEW s \in Sockets, Loaded(s) PROVE RegisterInv'
    BY <1>7, LoadedDoes, RegisterKept
  <1>8. ASSUME NEW s \in Sockets, Receive(s) PROVE RegisterInv'
    <2> DEFINE m == Head(inbox[s])
    <2>1. /\ UNCHANGED <<tab, link, hello, userClients>>
          /\ \A q \in Sockets : q # s => server'[q] = server[q] /\ inbox'[q] = inbox[q]
          /\ inbox[s] # << >> /\ inbox'[s] = Tail(inbox[s])
          /\ server[s].joins \subseteq server'[s].joins
          /\ \A thread \in Threads : m = Join(thread) => thread \in server'[s].joins
          /\ server[s].refused \subseteq server'[s].refused \cup server'[s].joins
          /\ \A e \in threadClients : e \in threadClients' \/ m = LeaveMsg(e[1])
          /\ \A e \in threadClients : e[2] # s => e \in threadClients'
      BY <1>8, ReceiveDoes
    <2>2. inbox[s] \in Seq(Message)
      BY SocketFacts
    <2> HIDE DEF m
    <2>3. ASSUME NEW q \in Sockets, NEW thread \in Threads, Joining(q, thread)
          PROVE  Joining(q, thread)'
      <3>1. CASE q # s
        BY <2>1, <2>3, <3>1 DEF Joining
      <3>2. CASE q = s /\ LastJoin(inbox[s], thread)
        BY <2>1, <2>2, <3>2, TailJoins DEF Joining, m
      <3>3. CASE q = s /\ NoLeave(inbox[s], thread)
                  /\ \/ <<thread, s>> \in threadClients
                     \/ thread \in server[s].joins \/ thread \in server[s].refused
        <4>1. NoLeave(inbox'[s], thread) /\ m # LeaveMsg(thread)
          BY <2>1, <2>2, <3>3, TailJoins DEF m
        <4>2. \/ <<thread, s>> \in threadClients'
              \/ thread \in server'[s].joins \/ thread \in server'[s].refused
          BY <2>1, <3>3, <4>1
        <4> QED
          BY <3>3, <4>1, <4>2 DEF Joining
      <3> QED
        BY <2>3, <3>1, <3>2, <3>3 DEF Joining
    <2> QED
      BY <2>1, <2>3, SocketFacts DEF RegisterInv
  <1>9. ASSUME NEW s \in Sockets, Joined(s) PROVE RegisterInv'
    <2>1. PICK t \in server[s].joins :
            /\ server'[s].joins = server[s].joins \ {t}
            /\ threadClients' = threadClients \cup {<<t, s>>}
      BY <1>9, JoinedDoes
    <2>2. /\ UNCHANGED <<tab, link, inbox, hello, userClients>>
          /\ \A q \in Sockets : q # s => server'[q].joins = server[q].joins
          /\ \A q \in Sockets : server'[q].refused = server[q].refused
      BY <1>9, JoinedDoes
    <2>3. ASSUME NEW q \in Sockets, NEW thread \in Threads, Joining(q, thread)
          PROVE  Joining(q, thread)'
      BY <2>1, <2>2, <2>3 DEF Joining
    <2> QED
      BY <2>2, <2>3, SocketFacts DEF RegisterInv
  <1>4. ASSUME NEW s \in Sockets, JoinFails(s) PROVE RegisterInv'
    <2>1. PICK t \in server[s].joins :
            /\ server'[s].joins = server[s].joins \ {t}
            /\ server'[s].refused = server[s].refused \cup {t}
      BY <1>4, JoinFailsDoes
    <2>2. /\ UNCHANGED <<tab, link, inbox, hello, userClients, threadClients>>
          /\ \A q \in Sockets : q # s => server'[q] = server[q]
      BY <1>4, JoinFailsDoes
    <2>3. ASSUME NEW q \in Sockets, NEW thread \in Threads, Joining(q, thread)
          PROVE  Joining(q, thread)'
      BY <2>1, <2>2, <2>3 DEF Joining
    <2> QED
      BY <2>2, <2>3, SocketFacts DEF RegisterInv
  <1>10. ASSUME NEW s \in Sockets, OnServerClose(s) PROVE RegisterInv'
    <2>1. /\ UNCHANGED <<tab, link, inbox, hello>> /\ link[s] # "up"
          /\ userClients' = userClients \ {s}
          /\ threadClients' = {e \in threadClients : e[2] # s}
          /\ \A q \in Sockets : server'[q].joins = server[q].joins /\ server'[q].refused = server[q].refused
      BY <1>10, OnServerCloseDoes
    <2> QED
      BY <2>1, RegisterKept
  <1>11. CASE UNCHANGED liveVars
    BY <1>11, StutterDoes, RegisterKept
  <1> QED
    BY TabSteps, <1>1, <1>2, <1>3, <1>4, <1>5, <1>6, <1>7, <1>8, <1>9, <1>10, <1>11

\* A connected tab whose messages were dealt with gets the events of its user, and of the
\* thread it shows unless the server refused it the last join, however it switched threads
\* and filters and however often it lost its connection.
THEOREM ConnectedTabsAreServed == LiveSpec => []ConnectedIsRegistered
  <1>1. LiveInit => RegisterInv
    BY DEF LiveInit, RegisterInv
  <1>2. TabInv /\ RegisterInv => ConnectedIsRegistered
    <2> SUFFICES ASSUME TabInv, RegisterInv, tab.socket # NoSocket, tab.connected,
                        link[tab.socket] = "up", inbox[tab.socket] = << >>,
                        server[tab.socket].joins = {}
                 PROVE  tab.socket \in userClients /\ ShownIsJoined(tab.socket)
      BY DEF ConnectedIsRegistered
    <2>1. tab.socket \in Sockets /\ DOMAIN inbox[tab.socket] = {}
      BY SocketFacts
    <2> QED
      BY <2>1 DEF RegisterInv, ShownIsJoined, Joining, LastJoin
  <1> QED
    BY <1>1, <1>2, InitTab, NextTab, NextRegister, PTL DEF LiveSpec

HIDE RealtimeAssumption

-----------------------------------------------------------------------------
(* The delivery of notifications to the messenger (BaleDelivery).  A poller  *)
(* at work on a row has claimed it, and its claim is younger than MaxHold    *)
(* (Claims), which is less than the age at which another may take it over:   *)
(* so it is alone.  A row is delivered once more than there were mishaps     *)
(* only when nobody will send it again (DeliveredInv).                       *)

USE BaleAssumption

LEMMA LessThanIs == \A x, y \in Nat : y < x => <<y, x>> \in OpToRel(<, Nat)
  BY DEF OpToRel

\* A set of numbers has a least one.
LEMMA MinIs ==
  ASSUME NEW T, T \subseteq Nat, T # {}
  PROVE  Min(T) \in T /\ \A y \in T : Min(T) <= y
  <1> DEFINE less == OpToRel(<, Nat)
  <1>1. IsWellFoundedOn(less, Nat) /\ \A x, y \in Nat : y < x => <<y, x>> \in less
    BY NatLessThanWellFounded, LessThanIs
  <1> HIDE DEF less
  <1>2. \E x \in T : \A y \in T : ~(<<y, x>> \in less)
    BY <1>1, WFMin
  <1>3. PICK x \in T : \A y \in T : ~(<<y, x>> \in less)
    BY <1>2
  <1>4. ASSUME NEW y \in T PROVE x <= y
    <2>1. ~ (y < x)
      BY <1>1, <1>3
    <2> QED
      BY <2>1
  <1> QED
    BY <1>4 DEF Min

BalePcs == {"idle", "claim", "skip", "send", "sent", "failed", "down"}
Batches == UNION {[S -> Item] : S \in SUBSET Notes}
Poller == [pc : BalePcs, since : Nat, batch : Batches]

\* What a poller has read of a notification: that it was due, and a stale claim
\* is stale for good.
Read(row, now) ==
  /\ row.status \in {"PENDING", "SENDING"} /\ row.attempts < MaxAttempts
  /\ row.status = "SENDING" => row.next + Stale <= now

PollerOK(r, now) ==
  /\ r.since <= now
  /\ DOMAIN r.batch = {} <=> r.pc \in {"idle", "down"}
  /\ \A n \in DOMAIN r.batch : Read(r.batch[n].row, now)

PollersOK ==
  /\ pollers \in [Pollers -> Poller]
  /\ \A p \in Pollers : PollerOK(pollers[p], clock)

RowsOK ==
  /\ rows \in [Notes -> Row]
  /\ \A n \in Notes : rows[n].status \in {"PENDING", "SENDING"} => rows[n].attempts < MaxAttempts

CountsOK ==
  /\ linked \subseteq Notes /\ clock \in Nat /\ mishaps \in Nat
  /\ tries \in [Notes -> Nat] /\ delivered \in [Notes -> Nat]

\* A poller at work on a notification holds its claim, and the claim is young.
Claims ==
  \A p \in Pollers : Holds(p) =>
    rows[On(p)].status = "SENDING" /\ clock <= rows[On(p)].next + MaxHold

BaleInv == PollersOK /\ RowsOK /\ CountsOK /\ Claims /\ OneHolder

LEMMA BatchFacts ==
  ASSUME NEW b \in Batches
  PROVE  /\ DOMAIN b \subseteq Notes
         /\ \A n \in DOMAIN b : b[n] \in Item /\ b[n].row \in Row /\ b[n].chat \in BOOLEAN
  <1>1. PICK S \in SUBSET Notes : b \in [S -> Item]
    BY DEF Batches
  <1> QED
    BY <1>1 DEF Item

LEMMA PollerFacts ==
  ASSUME PollersOK, NEW p \in Pollers
  PROVE  /\ pollers[p] \in Poller /\ PollerOK(pollers[p], clock)
         /\ pollers[p].pc \in BalePcs /\ pollers[p].since \in Nat /\ pollers[p].batch \in Batches
         /\ DOMAIN pollers[p].batch \subseteq Notes
  <1>1. pollers[p] \in Poller /\ PollerOK(pollers[p], clock)
    BY DEF PollersOK
  <1> QED
    BY <1>1, BatchFacts DEF Poller

\* The notification that a busy poller is at.
LEMMA AtFacts ==
  ASSUME PollersOK, NEW p \in Pollers, pollers[p].pc \notin {"idle", "down"}
  PROVE  /\ On(p) \in DOMAIN pollers[p].batch /\ On(p) \in Notes
         /\ Known(p) \in Item /\ Known(p).row \in Row /\ Read(Known(p).row, clock)
  <1>1. DOMAIN pollers[p].batch # {} /\ DOMAIN pollers[p].batch \subseteq Nat
    BY PollerFacts DEF PollerOK, Notes
  <1>2. On(p) \in DOMAIN pollers[p].batch
    BY <1>1, MinIs DEF On
  <1> QED
    BY <1>2, PollerFacts, BatchFacts DEF Known, PollerOK

LEMMA HoldsPc ==
  ASSUME NEW p \in Pollers, Holds(p)
  PROVE  pollers[p].pc \notin {"idle", "down", "claim"}
  BY DEF Holds

-----------------------------------------------------------------------------
(* How a poller moves. *)

\* Poller p has become r, and the others are where they were.
Becomes(p, r) == pollers'[p] = r /\ \A q \in Pollers : q # p => pollers'[q] = pollers[q]

LEMMA PollerMoves ==
  ASSUME PollersOK, NEW p \in Pollers, NEW r \in Poller, PollerOK(r, clock),
         pollers' = [pollers EXCEPT ![p] = r], clock' = clock
  PROVE  PollersOK' /\ Becomes(p, r)
  <1>1. pollers' \in [Pollers -> Poller] /\ Becomes(p, r)
    BY DEF PollersOK, Becomes
  <1>2. \A q \in Pollers : PollerOK(pollers'[q], clock)
    BY <1>1 DEF PollersOK, Becomes
  <1> QED
    BY <1>1, <1>2 DEF PollersOK

Resting(pc, since) == [pc |-> pc, since |-> since, batch |-> << >>]

LEMMA RestingFacts ==
  ASSUME CountsOK, NEW pc \in {"idle", "down"}, NEW since \in Nat, since <= clock
  PROVE  Resting(pc, since) \in Poller /\ PollerOK(Resting(pc, since), clock)
  <1>1. << >> \in [{} -> Item] /\ DOMAIN << >> = {}
    OBVIOUS
  <1>2. << >> \in Batches
    BY <1>1 DEF Batches
  <1> QED
    BY <1>1, <1>2 DEF Resting, Poller, PollerOK, BalePcs

LEMMA GiveUpDoes ==
  ASSUME PollersOK, CountsOK, NEW p \in Pollers, GiveUp(p), clock' = clock
  PROVE  PollersOK' /\ pollers'[p].pc = "idle" /\ \A q \in Pollers : q # p => pollers'[q] = pollers[q]
  <1>1. pollers' = [pollers EXCEPT ![p] = Resting("idle", 0)]
    BY DEF GiveUp, Resting
  <1>2. Resting("idle", 0) \in Poller /\ PollerOK(Resting("idle", 0), clock)
    BY RestingFacts DEF CountsOK
  <1>3. Resting("idle", 0).pc = "idle"
    BY DEF Resting
  <1> QED
    BY <1>1, <1>2, <1>3, PollerMoves DEF Becomes

LEMMA GotoDoes ==
  ASSUME PollersOK, NEW p \in Pollers, pollers[p].pc \notin {"idle", "down"},
         NEW pc \in BalePcs \ {"idle", "down"}, Move(p, pc), clock' = clock
  PROVE  /\ PollersOK' /\ pollers'[p].pc = pc /\ On(p)' = On(p)
         /\ \A q \in Pollers : q # p => pollers'[q] = pollers[q]
  <1> DEFINE r == [pollers[p] EXCEPT !.pc = pc]
  <1>1. pollers' = [pollers EXCEPT ![p] = r]
    BY DEF Move, PollersOK
  <1>2. r \in Poller /\ r.pc = pc /\ r.since = pollers[p].since /\ r.batch = pollers[p].batch
    BY PollerFacts DEF Poller
  <1>3. PollerOK(r, clock)
    BY <1>2, PollerFacts DEF PollerOK
  <1> HIDE DEF r
  <1> QED
    BY <1>1, <1>2, <1>3, PollerMoves DEF Becomes, On

LEMMA StepDoes ==
  ASSUME PollersOK, CountsOK, NEW p \in Pollers, pollers[p].pc \notin {"idle", "down"},
         Step(p), clock' = clock
  PROVE  /\ PollersOK' /\ pollers'[p].pc \in {"idle", "claim"}
         /\ \A q \in Pollers : q # p => pollers'[q] = pollers[q]
  <1> DEFINE rest == DOMAIN pollers[p].batch \ {On(p)}
             fewer == Restrict(pollers[p].batch, rest)
             r == [pollers[p] EXCEPT !.pc = "claim", !.batch = fewer]
  <1>1. CASE rest = {}
    BY <1>1, GiveUpDoes DEF Step
  <1>2. CASE rest # {}
    <2>1. pollers' = [pollers EXCEPT ![p] = r]
      BY <1>2 DEF Step, PollersOK
    <2>2. DOMAIN fewer = rest /\ \A n \in rest : fewer[n] = pollers[p].batch[n]
      BY DEF Restrict
    <2>3. fewer \in [rest -> Item] /\ rest \in SUBSET Notes
      BY PollerFacts, BatchFacts DEF Restrict
    <2>4. fewer \in Batches
      BY <2>3 DEF Batches
    <2> HIDE DEF fewer
    <2>5. r \in Poller /\ r.pc = "claim" /\ r.since = pollers[p].since /\ r.batch = fewer
      BY <2>4, PollerFacts DEF Poller, BalePcs
    <2>6. PollerOK(r, clock)
      BY <1>2, <2>2, <2>5, PollerFacts DEF PollerOK
    <2> HIDE DEF r
    <2> QED
      BY <2>1, <2>5, <2>6, PollerMoves DEF Becomes
  <1> QED
    BY <1>1, <1>2

\* One poller moves; the notifications it is not at keep their rows.
LEMMA OthersHold ==
  ASSUME NEW p \in Pollers, \A q \in Pollers : q # p => pollers'[q] = pollers[q]
  PROVE  \A q \in Pollers : q # p => (Holds(q)' <=> Holds(q)) /\ On(q)' = On(q)
  BY DEF Holds, On

\* A poller that has let go.
LEMMA LetsGo ==
  ASSUME BaleInv, NEW p \in Pollers, PollersOK', RowsOK', CountsOK', clock' = clock,
         ~ Holds(p)', \A q \in Pollers : q # p => pollers'[q] = pollers[q],
         \A n \in Notes : rows'[n] = rows[n] \/ (Holds(p) /\ n = On(p))
  PROVE  BaleInv'
  <1>1. \A q \in Pollers : q # p => (Holds(q)' <=> Holds(q)) /\ On(q)' = On(q)
    BY OthersHold
  <1>2. ASSUME NEW q \in Pollers, Holds(q)'
        PROVE  rows'[On(q)'].status = "SENDING" /\ clock <= rows'[On(q)'].next + MaxHold
    <2>1. q # p /\ Holds(q) /\ On(q)' = On(q)
      BY <1>1, <1>2
    <2>2. On(q) \in Notes
      BY <2>1, HoldsPc, AtFacts DEF BaleInv
    <2>3. rows'[On(q)] = rows[On(q)]
      BY <2>1, <2>2 DEF BaleInv, OneHolder
    <2> QED
      BY <2>1, <2>3 DEF BaleInv, Claims
  <1>3. Claims'
    BY <1>2 DEF Claims
  <1>4. OneHolder'
    BY <1>1 DEF BaleInv, OneHolder
  <1> QED
    BY <1>3, <1>4 DEF BaleInv

\* A poller that goes on with the notification it holds.
LEMMA GoesOn ==
  ASSUME BaleInv, NEW p \in Pollers, PollersOK', CountsOK', UNCHANGED <<rows, clock>>,
         Holds(p), On(p)' = On(p), \A q \in Pollers : q # p => pollers'[q] = pollers[q]
  PROVE  BaleInv'
  <1>1. \A q \in Pollers : On(q)' = On(q) /\ (Holds(q)' => Holds(q))
    BY OthersHold
  <1>2. Claims'
    BY <1>1 DEF BaleInv, Claims
  <1>3. OneHolder'
    BY <1>1 DEF BaleInv, OneHolder
  <1> QED
    BY <1>2, <1>3 DEF BaleInv, RowsOK

LEMMA FlushBale ==
  ASSUME BaleInv, NEW p \in Pollers, Flush(p)
  PROVE  BaleInv' /\ pollers[p].pc = "idle" /\ pollers'[p].pc = "claim"
         /\ \A q \in Pollers : q # p => pollers'[q] = pollers[q]
  <1> DEFINE b == [n \in Batch |-> [row |-> rows[n], chat |-> n \in linked]]
             r == [pc |-> "claim", since |-> clock, batch |-> b]
  <1>1. /\ pollers' = [pollers EXCEPT ![p] = r] /\ pollers[p].pc = "idle" /\ DueNotes # {}
        /\ UNCHANGED <<rows, linked, clock, tries, delivered, mishaps>>
    BY DEF Flush
  <1>2. Batch \subseteq Notes /\ \A n \in Batch : Due(n)
    BY DEF Batch, DueNotes
  <1>3. Batch # {}
    <2>1. DueNotes # {} /\ DueNotes \subseteq Nat
      BY <1>1 DEF DueNotes, Notes, BaleInv
    <2>2. PICK n \in DueNotes : \A m \in DueNotes : n <= m
      BY <2>1, MinIs
    <2>3. {m \in DueNotes : m < n} = {}
      <3>1. \A m \in DueNotes : ~ (m < n)
        BY <2>1, <2>2
      <3> QED
        BY <3>1
    <2>4. Cardinality({m \in DueNotes : m < n}) = 0
      BY <2>3, FS_EmptySet
    <2> QED
      BY <2>4 DEF Batch, BaleInv
  <1>4. b \in Batches
    <2>1. \A n \in Batch : b[n] \in Item
      BY <1>2 DEF Item, BaleInv, RowsOK
    <2>2. b \in [Batch -> Item]
      BY <2>1
    <2> QED
      BY <1>2, <2>2 DEF Batches
  <1>5. \A n \in Batch : Read(rows[n], clock)
    BY <1>2 DEF Due, Read, BaleInv, RowsOK
  <1>6. DOMAIN b = Batch /\ \A n \in Batch : b[n].row = rows[n]
    OBVIOUS
  <1> HIDE DEF b
  <1>7. r \in Poller /\ r.pc = "claim"
    BY <1>4 DEF Poller, BalePcs, BaleInv, CountsOK
  <1>8. PollerOK(r, clock)
    BY <1>3, <1>5, <1>6 DEF PollerOK, BaleInv, CountsOK
  <1> HIDE DEF r
  <1>9. PollersOK' /\ Becomes(p, r)
    BY <1>1, <1>7, <1>8, PollerMoves DEF BaleInv
  <1>10. ~ Holds(p)'
    BY <1>7, <1>9 DEF Holds, Becomes
  <1>11. CountsOK' /\ RowsOK'
    BY <1>1 DEF CountsOK, RowsOK, BaleInv
  <1> QED
    BY <1>1, <1>7, <1>9, <1>10, <1>11, LetsGo DEF Becomes

\* A row that was read due, and is as it was read, is in nobody's hands.
LEMMA UnclaimedIsFree ==
  ASSUME BaleInv, NEW p \in Pollers, pollers[p].pc = "claim", Unclaimed(p)
  PROVE  /\ \A q \in Pollers : Holds(q) => On(q) # On(p)
         /\ rows[On(p)].status \in {"PENDING", "SENDING"}
  <1>1. /\ On(p) \in Notes /\ Known(p).row \in Row /\ Read(Known(p).row, clock)
        /\ rows[On(p)].status = Known(p).row.status /\ rows[On(p)].next = Known(p).row.next
    BY AtFacts DEF BaleInv, Unclaimed
  <1>2. ASSUME NEW q \in Pollers, Holds(q), On(q) = On(p)
        PROVE  FALSE
    <2>1. rows[On(p)].status = "SENDING" /\ clock <= rows[On(p)].next + MaxHold
      BY <1>2 DEF BaleInv, Claims
    <2>2. rows[On(p)].next + Stale <= clock
      BY <1>1, <2>1 DEF Read
    <2>3. rows[On(p)].next \in Nat /\ clock \in Nat /\ MaxHold \in Nat /\ Stale \in Nat /\ MaxHold < Stale
      BY <1>1 DEF BaleInv, RowsOK, Row, CountsOK
    <2> QED
      BY <2>1, <2>2, <2>3
  <1> QED
    BY <1>1, <1>2 DEF Read

\* One row is written.
LEMMA RowWritten ==
  ASSUME BaleInv, NEW n \in Notes, NEW row \in Row, rows' = [rows EXCEPT ![n] = row],
         row.status \in {"PENDING", "SENDING"} => row.attempts < MaxAttempts
  PROVE  RowsOK' /\ rows'[n] = row /\ \A m \in Notes : m # n => rows'[m] = rows[m]
  BY DEF BaleInv, RowsOK

LEMMA ClaimBale ==
  ASSUME BaleInv, NEW p \in Pollers, Claim(p)
  PROVE  /\ BaleInv' /\ pollers[p].pc = "claim" /\ pollers'[p].pc \in {"idle", "claim", "skip", "send"}
         /\ \A q \in Pollers : q # p => pollers'[q] = pollers[q]
         /\ UNCHANGED <<clock, delivered, mishaps>>
         /\ \/ UNCHANGED rows
            \/ /\ \A n \in Notes : n # On(p) => rows'[n] = rows[n]
               /\ rows[On(p)].status # "SENT" /\ \A q \in Pollers : Holds(q) => On(q) # On(p)
  <1>1. pollers[p].pc = "claim" /\ UNCHANGED <<linked, clock, tries, delivered, mishaps>>
    BY DEF Claim
  <1>2. CountsOK'
    BY <1>1 DEF BaleInv, CountsOK
  <1>3. CASE ~Unclaimed(p) /\ Step(p) /\ UNCHANGED rows
    <2>1. /\ PollersOK' /\ pollers'[p].pc \in {"idle", "claim"}
          /\ \A q \in Pollers : q # p => pollers'[q] = pollers[q]
      BY <1>1, <1>3, StepDoes DEF BaleInv
    <2>2. ~ Holds(p)' /\ RowsOK'
      BY <1>3, <2>1 DEF Holds, BaleInv, RowsOK
    <2> QED
      BY <1>1, <1>2, <1>3, <2>1, <2>2, LetsGo
  <1>4. CASE /\ Unclaimed(p)
             /\ rows' = [rows EXCEPT ![On(p)].status = "SENDING", ![On(p)].next = clock]
             /\ Move(p, IF Known(p).chat THEN "send" ELSE "skip")
    <2> DEFINE n == On(p)
               row == [rows[n] EXCEPT !.status = "SENDING", !.next = clock]
               pc == IF Known(p).chat THEN "send" ELSE "skip"
    <2>1. n \in Notes /\ rows[n] \in Row /\ Read(Known(p).row, clock)
          /\ rows[n].status = Known(p).row.status
      BY <1>1, <1>4, AtFacts DEF BaleInv, RowsOK, Unclaimed
    <2>2. /\ rows[n].status \in {"PENDING", "SENDING"}
          /\ \A q \in Pollers : Holds(q) => On(q) # n
      BY <1>1, <1>4, UnclaimedIsFree
    <2>3. rows[n].attempts < MaxAttempts
      BY <2>1, <2>2 DEF BaleInv, RowsOK
    <2>4. /\ row \in Row /\ row.status = "SENDING" /\ row.next = clock
          /\ row.attempts = rows[n].attempts
      BY <2>1 DEF Row, BaleInv, CountsOK
    <2>5. rows' = [rows EXCEPT ![n] = row]
      BY <1>4, <2>1 DEF BaleInv, RowsOK
    <2> HIDE DEF row
    <2>6. RowsOK' /\ rows'[n] = row /\ \A m \in Notes : m # n => rows'[m] = rows[m]
      BY <2>1, <2>3, <2>4, <2>5, RowWritten
    <2>7. pc \in {"send", "skip"} /\ Move(p, pc)
      BY <1>4
    <2> HIDE DEF pc
    <2>8. /\ PollersOK' /\ pollers'[p].pc = pc /\ On(p)' = n
          /\ \A q \in Pollers : q # p => pollers'[q] = pollers[q]
      BY <1>1, <2>7, GotoDoes DEF BaleInv, BalePcs
    <2>9. \A q \in Pollers : q # p => (Holds(q)' <=> Holds(q)) /\ On(q)' = On(q)
      BY <2>8, OthersHold
    <2>10. ASSUME NEW q \in Pollers, Holds(q)'
           PROVE  rows'[On(q)'].status = "SENDING" /\ clock <= rows'[On(q)'].next + MaxHold
      <3>1. CASE q = p
        BY <2>4, <2>6, <2>8, <3>1 DEF BaleInv, CountsOK
      <3>2. CASE q # p
        <4>1. Holds(q) /\ On(q)' = On(q) /\ On(q) # n
          BY <2>2, <2>9, <2>10, <3>2
        <4>2. On(q) \in Notes
          BY <4>1, HoldsPc, AtFacts DEF BaleInv
        <4> QED
          BY <2>6, <4>1, <4>2 DEF BaleInv, Claims
      <3> QED
        BY <3>1, <3>2
    <2>11. Claims'
      BY <1>1, <2>10 DEF Claims
    <2>12. OneHolder'
      BY <2>2, <2>8, <2>9 DEF BaleInv, OneHolder
    <2>13. BaleInv'
      BY <1>2, <2>6, <2>8, <2>11, <2>12 DEF BaleInv
    <2> QED
      BY <1>1, <2>2, <2>6, <2>7, <2>8, <2>13
  <1> QED
    BY <1>1, <1>3, <1>4 DEF Claim

\* The outcome is written to the row that the poller holds.
LEMMA Recorded ==
  ASSUME BaleInv, NEW p \in Pollers, Holds(p), NEW row \in Row, rows' = [rows EXCEPT ![On(p)] = row],
         row.status \in {"PENDING", "SENDING"} => row.attempts < MaxAttempts,
         Step(p), UNCHANGED <<linked, clock, tries, delivered, mishaps>>
  PROVE  /\ BaleInv' /\ On(p) \in Notes /\ pollers'[p].pc \in {"idle", "claim"}
         /\ rows'[On(p)] = row /\ \A m \in Notes : m # On(p) => rows'[m] = rows[m]
         /\ \A q \in Pollers : q # p => pollers'[q] = pollers[q]
  <1>1. On(p) \in Notes /\ pollers[p].pc \notin {"idle", "down"}
    BY HoldsPc, AtFacts DEF BaleInv
  <1>2. RowsOK' /\ rows'[On(p)] = row /\ \A m \in Notes : m # On(p) => rows'[m] = rows[m]
    BY <1>1, RowWritten
  <1>3. /\ PollersOK' /\ pollers'[p].pc \in {"idle", "claim"}
        /\ \A q \in Pollers : q # p => pollers'[q] = pollers[q]
    BY <1>1, StepDoes DEF BaleInv
  <1>4. ~ Holds(p)'
    BY <1>3 DEF Holds
  <1>5. CountsOK'
    BY DEF BaleInv, CountsOK
  <1>6. BaleInv'
    BY <1>2, <1>3, <1>4, <1>5, LetsGo
  <1> QED
    BY <1>1, <1>2, <1>3, <1>6

\* The row of a notification that a poller holds, and what it read of it.
LEMMA HeldFacts ==
  ASSUME BaleInv, NEW p \in Pollers, Holds(p)
  PROVE  /\ On(p) \in Notes /\ rows[On(p)] \in Row /\ rows[On(p)].status = "SENDING"
         /\ rows[On(p)].attempts \in Nat /\ rows[On(p)].attempts < MaxAttempts
         /\ Known(p).row.attempts \in Nat /\ Known(p).row.attempts < MaxAttempts
         /\ MaxAttempts \in Nat
  <1>1. On(p) \in Notes /\ Known(p).row \in Row /\ Read(Known(p).row, clock)
    BY HoldsPc, AtFacts DEF BaleInv
  <1>2. rows[On(p)] \in Row /\ rows[On(p)].status = "SENDING" /\ MaxAttempts \in Nat
    BY <1>1 DEF BaleInv, RowsOK, Claims
  <1> QED
    BY <1>1, <1>2 DEF BaleInv, RowsOK, Row, Read

\* A poller writes the outcome and lets go.
Settles(p, row) ==
  /\ Holds(p) /\ row \in Row /\ rows' = [rows EXCEPT ![On(p)] = row]
  /\ row.status \in {"PENDING", "SENDING"} => row.attempts < MaxAttempts
  /\ Step(p) /\ UNCHANGED <<linked, clock, tries, delivered, mishaps>>

LEMMA SkipDoes ==
  ASSUME BaleInv, NEW p \in Pollers, Skip(p)
  PROVE  \E row : Settles(p, row)
  <1>1. Holds(p)
    BY DEF Skip, Holds
  <1>2. [rows[On(p)] EXCEPT !.status = "SKIPPED"] \in Row
        /\ [rows[On(p)] EXCEPT !.status = "SKIPPED"].status = "SKIPPED"
    BY <1>1, HeldFacts DEF Row
  <1>3. rows' = [rows EXCEPT ![On(p)] = [rows[On(p)] EXCEPT !.status = "SKIPPED"]]
    BY <1>1, HeldFacts DEF Skip, BaleInv, RowsOK
  <1> QED
    BY <1>1, <1>2, <1>3 DEF Skip, Settles

LEMMA RecordSentDoes ==
  ASSUME BaleInv, NEW p \in Pollers, RecordSent(p)
  PROVE  \E row : Settles(p, row) /\ row.status = "SENT"
  <1> DEFINE row == [rows[On(p)] EXCEPT !.status = "SENT", !.attempts = @ + 1]
  <1>1. Holds(p)
    BY DEF RecordSent, Holds
  <1>2. row \in Row /\ row.status = "SENT"
    <2>1. rows[On(p)] \in Row /\ rows[On(p)].attempts + 1 \in 0 .. MaxAttempts
      BY <1>1, HeldFacts
    <2> QED
      BY <2>1 DEF Row
  <1>3. rows' = [rows EXCEPT ![On(p)] = row]
    BY <1>1, HeldFacts DEF RecordSent, BaleInv, RowsOK
  <1> HIDE DEF row
  <1> QED
    BY <1>1, <1>2, <1>3 DEF RecordSent, Settles

LEMMA DelayIs ==
  ASSUME NEW attempts \in Nat, attempts > 0
  PROVE  Delay(attempts) \in Nat
  BY DEF Delay

LEMMA RecordFailureDoes ==
  ASSUME BaleInv, NEW p \in Pollers, RecordFailure(p)
  PROVE  \E row : Settles(p, row)
  <1> DEFINE attempts == Known(p).row.attempts + 1
             row == [status |-> IF attempts >= MaxAttempts THEN "FAILED" ELSE "PENDING",
                     attempts |-> attempts, next |-> clock + Delay(attempts)]
  <1>1. Holds(p)
    BY DEF RecordFailure, Holds
  <1>2. attempts \in 0 .. MaxAttempts /\ attempts > 0 /\ MaxAttempts \in Nat /\ clock \in Nat
    BY <1>1, HeldFacts DEF BaleInv, CountsOK
  <1>3. Delay(attempts) \in Nat
    BY <1>2, DelayIs
  <1>4. rows' = [rows EXCEPT ![On(p)] = row]
    BY DEF RecordFailure
  <1> HIDE DEF attempts
  <1>5. row \in Row /\ (row.status \in {"PENDING", "SENDING"} => row.attempts < MaxAttempts)
    BY <1>2, <1>3 DEF Row
  <1> HIDE DEF row
  <1> QED
    BY <1>1, <1>4, <1>5 DEF RecordFailure, Settles

LEMMA SendBale ==
  ASSUME BaleInv, NEW p \in Pollers, SendMessage(p) \/ AnswerLost(p)
  PROVE  /\ BaleInv' /\ Holds(p) /\ pollers[p].pc = "send" /\ On(p) \in Notes /\ On(p)' = On(p)
         /\ UNCHANGED rows /\ \A q \in Pollers : q # p => pollers'[q] = pollers[q]
         /\ \A n \in Notes : n # On(p) => delivered'[n] = delivered[n]
         /\ \/ /\ delivered'[On(p)] = delivered[On(p)] + 1
               /\ pollers'[p].pc = "sent" /\ mishaps' = mishaps
            \/ delivered' = delivered /\ pollers'[p].pc = "failed" /\ mishaps' = mishaps
            \/ /\ delivered'[On(p)] = delivered[On(p)] + 1
               /\ pollers'[p].pc = "failed" /\ mishaps' = mishaps + 1
  <1>1. /\ pollers[p].pc = "send" /\ UNCHANGED <<rows, linked, clock>>
        /\ tries' = [tries EXCEPT ![On(p)] = @ + 1]
        /\ \/ /\ delivered' = [delivered EXCEPT ![On(p)] = @ + 1]
              /\ Move(p, "sent") /\ mishaps' = mishaps
           \/ delivered' = delivered /\ Move(p, "failed") /\ mishaps' = mishaps
           \/ /\ delivered' = [delivered EXCEPT ![On(p)] = @ + 1]
              /\ Move(p, "failed") /\ mishaps' = mishaps + 1
    BY DEF SendMessage, AnswerLost, Mishap
  <1>2. Holds(p)
    BY <1>1 DEF Holds
  <1>3. On(p) \in Notes
    BY <1>2, HeldFacts
  <1>4. CountsOK'
    BY <1>1, <1>3 DEF BaleInv, CountsOK
  <1>5. PICK pc \in {"sent", "failed"} : Move(p, pc) /\ (Move(p, "sent") <=> pc = "sent")
                                         /\ (Move(p, "failed") <=> pc = "failed")
    <2>1. ~ (Move(p, "sent") /\ Move(p, "failed"))
      BY <1>1, GotoDoes DEF BaleInv, BalePcs
    <2> QED
      BY <1>1, <2>1
  <1>6. /\ PollersOK' /\ pollers'[p].pc = pc /\ On(p)' = On(p)
        /\ \A q \in Pollers : q # p => pollers'[q] = pollers[q]
    BY <1>1, <1>5, GotoDoes DEF BaleInv, BalePcs
  <1>7. BaleInv'
    BY <1>1, <1>2, <1>4, <1>6, GoesOn
  <1> QED
    BY <1>1, <1>2, <1>3, <1>5, <1>6, <1>7 DEF BaleInv, CountsOK

LEMMA FailureBale ==
  ASSUME BaleInv, NEW p \in Pollers, QueryFails(p) \/ Crash(p)
  PROVE  BaleInv' /\ mishaps' = mishaps + 1 /\ UNCHANGED <<rows, delivered>>
  <1>1. mishaps' = mishaps + 1 /\ UNCHANGED <<rows, linked, clock, tries, delivered>>
    BY DEF QueryFails, Crash, Mishap
  <1>2. CountsOK' /\ RowsOK'
    BY <1>1 DEF BaleInv, CountsOK, RowsOK
  <1>3. CASE pollers[p].pc = "sent" /\ Move(p, "failed")
    <2>1. /\ PollersOK' /\ On(p)' = On(p)
          /\ \A q \in Pollers : q # p => pollers'[q] = pollers[q]
      BY <1>1, <1>3, GotoDoes DEF BaleInv, BalePcs
    <2>2. Holds(p)
      BY <1>3 DEF Holds
    <2> QED
      BY <1>1, <1>2, <2>1, <2>2, GoesOn
  <1>4. CASE GiveUp(p)
    <2>1. /\ PollersOK' /\ pollers'[p].pc = "idle"
          /\ \A q \in Pollers : q # p => pollers'[q] = pollers[q]
      BY <1>1, <1>4, GiveUpDoes DEF BaleInv
    <2>2. ~ Holds(p)'
      BY <2>1 DEF Holds
    <2> QED
      BY <1>1, <1>2, <2>1, <2>2, LetsGo
  <1>5. CASE pollers' = [pollers EXCEPT ![p] = Resting("down", clock)]
    <2>1. Resting("down", clock) \in Poller /\ PollerOK(Resting("down", clock), clock)
      BY RestingFacts DEF BaleInv, CountsOK
    <2>2. PollersOK' /\ Becomes(p, Resting("down", clock))
      BY <1>1, <1>5, <2>1, PollerMoves DEF BaleInv
    <2>3. ~ Holds(p)'
      BY <2>2 DEF Holds, Becomes, Resting
    <2> QED
      BY <1>1, <1>2, <2>2, <2>3, LetsGo DEF Becomes
  <1> QED
    BY <1>1, <1>3, <1>4, <1>5 DEF QueryFails, Crash, Resting

LEMMA RestartBale ==
  ASSUME BaleInv, NEW p \in Pollers, Restart(p)
  PROVE  /\ BaleInv' /\ pollers[p].pc = "down" /\ pollers'[p].pc = "idle"
         /\ \A q \in Pollers : q # p => pollers'[q] = pollers[q]
  <1>1. pollers[p].pc = "down" /\ GiveUp(p) /\ UNCHANGED <<rows, linked, clock, tries, delivered, mishaps>>
    BY DEF Restart
  <1>2. CountsOK' /\ RowsOK'
    BY <1>1 DEF BaleInv, CountsOK, RowsOK
  <1>3. /\ PollersOK' /\ pollers'[p].pc = "idle"
        /\ \A q \in Pollers : q # p => pollers'[q] = pollers[q]
    BY <1>1, GiveUpDoes DEF BaleInv
  <1>4. ~ Holds(p)'
    BY <1>3 DEF Holds
  <1> QED
    BY <1>1, <1>2, <1>3, <1>4, LetsGo

\* Time, links, and nothing.  A claim gets no older than MaxHold while its holder lives.
LEMMA QuietBale ==
  ASSUME BaleInv, Tick \/ (\E n \in Notes : Link(n) \/ ResetBaleChat(n)) \/ UNCHANGED baleVars
  PROVE  BaleInv' /\ UNCHANGED <<rows, pollers, delivered, mishaps>>
  <1>1. /\ UNCHANGED <<rows, pollers, tries, delivered, mishaps>>
        /\ clock' = clock \/ (clock' = clock + 1 /\ \A p \in Pollers : Holds(p) => clock < rows[On(p)].next + MaxHold)
        /\ linked' \subseteq Notes
    BY DEF Tick, Link, ResetBaleChat, baleVars, BaleInv, CountsOK
  <1>2. clock \in Nat /\ clock' \in Nat /\ clock <= clock'
    BY <1>1 DEF BaleInv, CountsOK
  <1>3. CountsOK' /\ RowsOK'
    BY <1>1, <1>2 DEF BaleInv, CountsOK, RowsOK
  <1>4. ASSUME NEW p \in Pollers
        PROVE  PollerOK(pollers[p], clock')
    <2>1. pollers[p] \in Poller /\ PollerOK(pollers[p], clock) /\ pollers[p].since \in Nat
          /\ pollers[p].batch \in Batches
      BY PollerFacts DEF BaleInv
    <2>2. \A n \in DOMAIN pollers[p].batch : pollers[p].batch[n].row.next \in Nat
      BY <2>1, BatchFacts DEF Row
    <2>3. Stale \in Nat
      BY DEF BaleInv
    <2> QED
      BY <1>2, <2>1, <2>2, <2>3 DEF PollerOK, Read
  <1>5. PollersOK'
    BY <1>1, <1>4 DEF BaleInv, PollersOK
  <1>6. \A p \in Pollers : (Holds(p)' <=> Holds(p)) /\ On(p)' = On(p)
    BY <1>1 DEF Holds, On
  <1>7. Claims'
    <2> SUFFICES ASSUME NEW p \in Pollers, Holds(p)
                 PROVE  rows[On(p)].status = "SENDING" /\ clock' <= rows[On(p)].next + MaxHold
      BY <1>1, <1>6 DEF Claims
    <2>1. On(p) \in Notes /\ rows[On(p)] \in Row /\ MaxHold \in Nat
      BY HeldFacts DEF BaleInv
    <2>2. rows[On(p)].next \in Nat
      BY <2>1 DEF Row
    <2> QED
      BY <1>1, <1>2, <2>1, <2>2 DEF BaleInv, Claims
  <1>8. OneHolder'
    BY <1>6 DEF BaleInv, OneHolder
  <1> QED
    BY <1>1, <1>3, <1>5, <1>7, <1>8 DEF BaleInv

LEMMA SettlesBale ==
  ASSUME BaleInv, NEW p \in Pollers, NEW row, Settles(p, row)
  PROVE  /\ BaleInv' /\ On(p) \in Notes /\ pollers'[p].pc \in {"idle", "claim"}
         /\ rows'[On(p)] = row /\ \A m \in Notes : m # On(p) => rows'[m] = rows[m]
         /\ \A q \in Pollers : q # p => pollers'[q] = pollers[q]
         /\ delivered' = delivered /\ mishaps' = mishaps
  BY Recorded DEF Settles

LEMMA BaleSteps ==
  ASSUME [BaleNext]_baleVars
  PROVE  \/ \E p \in Pollers :
              \/ Flush(p) \/ Claim(p) \/ Skip(p) \/ RecordSent(p) \/ RecordFailure(p) \/ Restart(p)
              \/ (SendMessage(p) \/ AnswerLost(p)) \/ (QueryFails(p) \/ Crash(p))
         \/ (Tick \/ (\E n \in Notes : Link(n) \/ ResetBaleChat(n)) \/ UNCHANGED baleVars)
  BY DEF BaleNext, Polling

LEMMA InitBale == BaleInit => BaleInv
  <1> SUFFICES ASSUME BaleInit PROVE BaleInv
    OBVIOUS
  <1>1. CountsOK
    BY DEF BaleInit, CountsOK
  <1>2. Resting("idle", 0) \in Poller /\ PollerOK(Resting("idle", 0), clock)
    BY <1>1, RestingFacts DEF BaleInit
  <1>3. \A p \in Pollers : pollers[p] = Resting("idle", 0) /\ ~ Holds(p)
    BY DEF BaleInit, Resting, Holds
  <1>4. PollersOK
    BY <1>2, <1>3 DEF BaleInit, PollersOK, Resting
  <1>5. RowsOK
    BY DEF BaleInit, RowsOK, Row
  <1> QED
    BY <1>1, <1>3, <1>4, <1>5 DEF BaleInv, Claims, OneHolder

LEMMA NextBale == BaleInv /\ [BaleNext]_baleVars => BaleInv'
  <1> SUFFICES ASSUME BaleInv, [BaleNext]_baleVars PROVE BaleInv'
    OBVIOUS
  <1>1. ASSUME NEW p \in Pollers, Skip(p) \/ RecordSent(p) \/ RecordFailure(p) PROVE BaleInv'
    BY <1>1, SkipDoes, RecordSentDoes, RecordFailureDoes, SettlesBale
  <1> QED
    BY <1>1, BaleSteps, FlushBale, ClaimBale, SendBale, FailureBale, RestartBale, QuietBale

\* The rows, the pollers and their batches are well formed: no row counts more than the
\* attempts allowed, and a process has a batch exactly while it works on it.
THEOREM BaleTypes == BaleSpec => []BaleTypeOK
  <1>1. BaleInv => BaleTypeOK
    <2> SUFFICES ASSUME BaleInv PROVE BaleTypeOK
      OBVIOUS
    <2>1. ASSUME NEW p \in Pollers
          PROVE  /\ pollers[p].pc \in BalePcs /\ pollers[p].since \in 0 .. clock
                 /\ DOMAIN pollers[p].batch \subseteq Notes
                 /\ \A n \in DOMAIN pollers[p].batch : pollers[p].batch[n] \in Item
                 /\ (DOMAIN pollers[p].batch = {}) <=> (pollers[p].pc \in {"idle", "down"})
      BY PollerFacts, BatchFacts DEF BaleInv, PollerOK, CountsOK
    <2> QED
      BY <2>1 DEF BaleInv, RowsOK, CountsOK, BaleTypeOK, BalePcs
  <1> QED
    BY <1>1, InitBale, NextBale, PTL DEF BaleSpec

\* No two processes are at work on one notification, for any number of processes and
\* notifications, as long as none works on one longer than a claim lasts.
THEOREM ClaimsAreExclusive == BaleSpec => []OneHolder
  <1>1. BaleInv => OneHolder
    BY DEF BaleInv
  <1> QED
    BY <1>1, InitBale, NextBale, PTL DEF BaleSpec

-----------------------------------------------------------------------------
(* Duplicates. *)

Spent(n) ==
  \/ rows[n].status = "SENT"
  \/ \E p \in Pollers : pollers[p].pc = "sent" /\ On(p) = n

DeliveredInv ==
  \A n \in Notes :
    delivered[n] <= mishaps \/ (delivered[n] = mishaps + 1 /\ Spent(n))

\* While a poller is at work on a notification and has not sent it, nothing is spent.
LEMMA Unspent ==
  ASSUME BaleInv, NEW p \in Pollers, Holds(p), pollers[p].pc # "sent"
  PROVE  ~ Spent(On(p))
  <1>1. rows[On(p)].status # "SENT"
    BY HeldFacts
  <1>2. ASSUME NEW q \in Pollers, pollers[q].pc = "sent", On(q) = On(p) PROVE FALSE
    BY <1>2 DEF BaleInv, OneHolder, Holds
  <1> QED
    BY <1>1, <1>2 DEF Spent

\* Nothing is delivered, and what was spent remains so.
LEMMA DeliveredKept ==
  ASSUME BaleInv, DeliveredInv, delivered' = delivered, mishaps' = mishaps,
         \A n \in Notes : Spent(n) => Spent(n)'
  PROVE  DeliveredInv'
  BY DEF DeliveredInv

\* One poller moves that was not about to record a success.
LEMMA SpentKept ==
  ASSUME NEW p \in Pollers, pollers[p].pc # "sent",
         \A q \in Pollers : q # p => pollers'[q] = pollers[q],
         NEW n \in Notes, rows'[n] = rows[n], Spent(n)
  PROVE  Spent(n)'
  BY DEF Spent, On

LEMMA NextDelivered == BaleInv /\ DeliveredInv /\ [BaleNext]_baleVars => DeliveredInv'
  <1> SUFFICES ASSUME BaleInv, DeliveredInv, [BaleNext]_baleVars PROVE DeliveredInv'
    OBVIOUS
  <1>1. ASSUME NEW p \in Pollers, Flush(p) \/ Restart(p) PROVE DeliveredInv'
    <2>1. /\ pollers[p].pc # "sent" /\ \A q \in Pollers : q # p => pollers'[q] = pollers[q]
      BY <1>1, FlushBale, RestartBale
    <2>2. UNCHANGED <<rows, delivered, mishaps>>
      BY <1>1 DEF Flush, Restart
    <2> QED
      BY <2>1, <2>2, SpentKept, DeliveredKept
  <1>2. ASSUME NEW p \in Pollers, Claim(p) PROVE DeliveredInv'
    <2>1. /\ pollers[p].pc # "sent" /\ \A q \in Pollers : q # p => pollers'[q] = pollers[q]
          /\ delivered' = delivered /\ mishaps' = mishaps
          /\ \/ UNCHANGED rows
             \/ /\ \A n \in Notes : n # On(p) => rows'[n] = rows[n]
                /\ rows[On(p)].status # "SENT" /\ \A q \in Pollers : Holds(q) => On(q) # On(p)
      BY <1>2, ClaimBale
    <2>2. ASSUME NEW n \in Notes, Spent(n) PROVE rows'[n] = rows[n]
      BY <2>1, <2>2 DEF Spent, Holds
    <2> QED
      BY <2>1, <2>2, SpentKept, DeliveredKept
  <1>3. ASSUME NEW p \in Pollers, Skip(p) \/ RecordFailure(p) PROVE DeliveredInv'
    <2>1. PICK row : Settles(p, row)
      BY <1>3, SkipDoes, RecordFailureDoes
    <2>2. pollers[p].pc # "sent" /\ ~ Spent(On(p))
      BY <1>3, <2>1, Unspent DEF Settles, Skip, RecordFailure
    <2>3. /\ \A m \in Notes : m # On(p) => rows'[m] = rows[m]
          /\ \A q \in Pollers : q # p => pollers'[q] = pollers[q]
          /\ delivered' = delivered /\ mishaps' = mishaps
      BY <2>1, SettlesBale
    <2> QED
      BY <2>2, <2>3, SpentKept, DeliveredKept
  <1>4. ASSUME NEW p \in Pollers, RecordSent(p) PROVE DeliveredInv'
    <2>1. PICK row : Settles(p, row) /\ row.status = "SENT"
      BY <1>4, RecordSentDoes
    <2>2. /\ rows'[On(p)].status = "SENT" /\ \A m \in Notes : m # On(p) => rows'[m] = rows[m]
          /\ \A q \in Pollers : q # p => pollers'[q] = pollers[q]
          /\ delivered' = delivered /\ mishaps' = mishaps
      BY <2>1, SettlesBale
    <2>3. ASSUME NEW n \in Notes, Spent(n) PROVE Spent(n)'
      <3>1. CASE n = On(p)
        BY <2>2, <3>1 DEF Spent
      <3>2. CASE n # On(p) /\ rows[n].status = "SENT"
        BY <2>2, <3>2 DEF Spent
      <3>3. ASSUME NEW q \in Pollers, pollers[q].pc = "sent", On(q) = n, n # On(p) PROVE Spent(n)'
        BY <2>2, <3>3 DEF Spent, On
      <3> QED
        BY <2>3, <3>1, <3>2, <3>3 DEF Spent
    <2> QED
      BY <2>2, <2>3, DeliveredKept
  <1>5. ASSUME NEW p \in Pollers, SendMessage(p) \/ AnswerLost(p) PROVE DeliveredInv'
    <2>1. /\ Holds(p) /\ pollers[p].pc = "send" /\ On(p) \in Notes /\ On(p)' = On(p)
          /\ UNCHANGED rows /\ \A q \in Pollers : q # p => pollers'[q] = pollers[q]
          /\ \A n \in Notes : n # On(p) => delivered'[n] = delivered[n]
          /\ \/ /\ delivered'[On(p)] = delivered[On(p)] + 1
                /\ pollers'[p].pc = "sent" /\ mishaps' = mishaps
             \/ delivered' = delivered /\ pollers'[p].pc = "failed" /\ mishaps' = mishaps
             \/ /\ delivered'[On(p)] = delivered[On(p)] + 1
                /\ pollers'[p].pc = "failed" /\ mishaps' = mishaps + 1
      BY <1>5, SendBale
    <2>2. /\ mishaps \in Nat /\ \A n \in Notes : delivered[n] \in Nat
      BY DEF BaleInv, CountsOK
    <2>3. delivered[On(p)] <= mishaps
      BY <2>1, Unspent DEF DeliveredInv
    <2>4. \A n \in Notes : Spent(n) => Spent(n)'
      BY <2>1, SpentKept
    <2>5. ASSUME NEW n \in Notes
          PROVE  delivered'[n] <= mishaps' \/ (delivered'[n] = mishaps' + 1 /\ Spent(n)')
      <3>1. CASE n # On(p)
        BY <2>1, <2>2, <2>4, <3>1 DEF DeliveredInv
      <3>2. CASE n = On(p) /\ pollers'[p].pc = "sent" /\ mishaps' = mishaps
                  /\ delivered'[n] = delivered[n] + 1
        <4>1. Spent(n)'
          BY <2>1, <3>2 DEF Spent
        <4> QED
          BY <2>2, <2>3, <3>2, <4>1
      <3>3. CASE n = On(p) /\ delivered' = delivered /\ mishaps' = mishaps
        BY <2>3, <3>3
      <3>4. CASE n = On(p) /\ delivered'[n] = delivered[n] + 1 /\ mishaps' = mishaps + 1
        BY <2>2, <2>3, <3>4
      <3> QED
        BY <2>1, <3>1, <3>2, <3>3, <3>4
    <2> QED
      BY <2>5 DEF DeliveredInv
  <1>6. ASSUME NEW p \in Pollers, QueryFails(p) \/ Crash(p) PROVE DeliveredInv'
    <2>1. mishaps' = mishaps + 1 /\ delivered' = delivered
      BY <1>6, FailureBale
    <2>2. mishaps \in Nat /\ \A n \in Notes : delivered[n] \in Nat
      BY DEF BaleInv, CountsOK
    <2> QED
      BY <2>1, <2>2 DEF DeliveredInv
  <1>7. CASE Tick \/ (\E n \in Notes : Link(n) \/ ResetBaleChat(n)) \/ UNCHANGED baleVars
    <2>1. UNCHANGED <<rows, pollers, delivered, mishaps>>
      BY <1>7, QuietBale
    <2> QED
      BY <2>1 DEF DeliveredInv, Spent, On
  <1> QED
    BY BaleSteps, <1>1, <1>2, <1>3, <1>4, <1>5, <1>6, <1>7

\* One delivery, and at most one more per crash, lost answer or failed query.
THEOREM DuplicatesAreMishaps == BaleSpec => []NoDuplicates
  <1>1. BaleInit => DeliveredInv
    BY DEF BaleInit, DeliveredInv
  <1>2. BaleInv /\ DeliveredInv => NoDuplicates
    BY DEF BaleInv, CountsOK, DeliveredInv, NoDuplicates
  <1> QED
    BY <1>1, <1>2, InitBale, NextBale, NextDelivered, PTL DEF BaleSpec
==============================================================================
