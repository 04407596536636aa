----------------------------- MODULE Communication -----------------------------
(***************************************************************************)
(* backend/src/communication/communication.service.ts: the members, the    *)
(* assignments and the messages of one thread, and who is notified of      *)
(* them.  Requests are cut where they await.  A transaction is one step    *)
(* where its first statement locks the participant row that every          *)
(* conflicting transaction locks too; sending a message checks its         *)
(* mentions without a lock, so that check is a step of its own.            *)
(***************************************************************************)
EXTENDS Integers, Sequences, FiniteSets

CONSTANTS
  Users,
  Creator,         \* who created the thread
  Managers,        \* users whose permission scope covers the thread without membership
  Keys,            \* the clientIds the browsers draw, one for each message composed
  SenderOf,        \* who composed it
  MentionsOf,      \* whom it mentions, the sender aside
  Handlers,        \* requests served at once
  MaxAssignments,  \* bound: ThreadAssignment rows
  MaxFaults        \* bound: requests that die

VARIABLES
  members,   \* users with a ThreadParticipant row whose leftAt is null
  issued,    \* how many ThreadAssignment rows were created; they are numbered
  open,      \* for each user, the assignments without completedAt
  messages,  \* the clientIds of the ThreadMessage rows, oldest first
  notices,   \* for each message and user, the notifications created
  told,      \* users notified that they were added
  announced, \* assignments their user was notified of, as <<user, id>>
  lost,      \* history: those whose request died before it notified anybody
  audience,  \* for each message, who was a member when it was sent and ever since
  handlers,  \* where each request is
  faults     \* requests that have died so far

threadVars == <<members, issued, open, messages>>
workVars == <<told, announced, lost>>
vars == <<threadVars, notices, workVars, audience, handlers, faults>>

Ids == 1 .. MaxAssignments

ASSUME CommunicationAssumption ==
  /\ Creator \in Users /\ Managers \subseteq Users
  /\ SenderOf \in [Keys -> Users]
  /\ MentionsOf \in [Keys -> SUBSET Users]
  /\ \A k \in Keys : SenderOf[k] \notin MentionsOf[k]
  /\ MaxAssignments \in Nat /\ MaxFaults \in Nat

Idle == [pc |-> "idle"]
Assignments == Users \X Ids
Request ==
  {Idle} \cup [op : {"create"}, pc : {"tellAssignees", "tellAdded"}, owed : SUBSET Assignments,
               added : SUBSET Users]
         \cup [op : {"add"}, pc : {"tx", "tell"}, who : Users]
         \cup [op : {"remove", "assign"}, pc : {"check", "tx"}, who : Users]
         \cup [op : {"assign"}, pc : {"tell"}, owed : SUBSET Assignments]
         \cup [op : {"unassign"}, pc : {"check"}, who : Users]
         \cup [op : {"unassign"}, pc : {"tx"}, who : Users, id : Ids]
         \cup [op : {"send"}, pc : {"lookup", "mention", "insert", "tellMentioned", "tellMembers"},
               key : Keys]

\* createThread has just committed: the creator, the participants chosen and the assignees,
\* each with one assignment.  The request has still to tell them.
Init ==
  /\ issued \in 0 .. MaxAssignments
  /\ \E chosen, assigned \in SUBSET (Users \ {Creator}), h \in Handlers :
       \E row \in [assigned -> 1 .. issued] :
         /\ Cardinality(assigned) = issued /\ \A id \in 1 .. issued : \E u \in assigned : row[u] = id
         /\ members = chosen \cup assigned \cup {Creator}
         /\ open = [u \in Users |-> IF u \in assigned THEN {row[u]} ELSE {}]
         /\ handlers = [g \in Handlers |->
              IF g # h THEN Idle
              ELSE [op |-> "create", pc |-> "tellAssignees",
                    owed |-> {<<u, row[u]>> : u \in assigned}, added |-> chosen \ assigned]]
  /\ messages = << >> /\ notices = [k \in Keys |-> [u \in Users |-> << >>]]
  /\ told = {} /\ announced = {} /\ lost = {}
  /\ audience = [k \in Keys |-> {}]
  /\ faults = 0

Leave(h) == handlers' = [handlers EXCEPT ![h] = Idle]
Goto(h, pc) == handlers' = [handlers EXCEPT ![h].pc = pc]
At(h, op, pc) == handlers[h] # Idle /\ handlers[h].op = op /\ handlers[h].pc = pc
Sent(k) == \E i \in DOMAIN messages : messages[i] = k

\* assertAccess: the scope of the user's permission, or membership of the thread.
MayManage(u) == u \in members \cup Managers

-----------------------------------------------------------------------------
(* addParticipant, removeParticipant, assign, unassign *)

Manage(h, u, op, who) ==
  /\ handlers[h] = Idle /\ MayManage(u)
  /\ op = "remove" => who # Creator
  /\ handlers' = [handlers EXCEPT ![h] =
       [op |-> op, pc |-> IF op = "add" THEN "tx" ELSE "check", who |-> who]]
  /\ UNCHANGED <<threadVars, notices, workVars, audience, faults>>

AddParticipant(h) ==
  /\ At(h, "add", "tx")
  /\ members' = members \cup {handlers[h].who}
  /\ Goto(h, "tell")
  /\ UNCHANGED <<issued, open, messages, notices, workVars, audience, faults>>

\* An active participant is removed, anyone else is refused.
CheckRemove(h) ==
  /\ At(h, "remove", "check")
  /\ IF handlers[h].who \in members THEN Goto(h, "tx") ELSE Leave(h)
  /\ UNCHANGED <<threadVars, notices, workVars, audience, faults>>

\* MUTANT of RemoveParticipant: the assignments stay open.
RemoveKeepingWork(h) ==
  /\ At(h, "remove", "tx")
  /\ members' = members \ {handlers[h].who}
  /\ audience' = [k \in Keys |-> audience[k] \ {handlers[h].who}]
  /\ Leave(h)
  /\ UNCHANGED <<issued, open, messages, notices, workVars, faults>>

RemoveParticipant(h) ==
  /\ At(h, "remove", "tx")
  /\ members' = members \ {handlers[h].who}
  /\ open' = [open EXCEPT ![handlers[h].who] = {}]
  /\ audience' = [k \in Keys |-> audience[k] \ {handlers[h].who}]
  /\ Leave(h)
  /\ UNCHANGED <<issued, messages, notices, workVars, faults>>

\* A user who has an open assignment is not assigned again.
CheckAssign(h) ==
  /\ At(h, "assign", "check")
  /\ IF open[handlers[h].who] = {} THEN Goto(h, "tx") ELSE Leave(h)
  /\ UNCHANGED <<threadVars, notices, workVars, audience, faults>>

\* MUTANT of Assign: who is a member already is not told.
AssignQuietly(h) ==
  LET u == handlers[h].who IN
  /\ At(h, "assign", "tx") /\ issued < MaxAssignments
  /\ members' = members \cup {u}
  /\ issued' = issued + 1 /\ open' = [open EXCEPT ![u] = @ \cup {issued + 1}]
  /\ handlers' = [handlers EXCEPT ![h] =
       IF u \in members THEN Idle
       ELSE [op |-> "assign", pc |-> "tell", owed |-> {<<u, issued + 1>>}]]
  /\ UNCHANGED <<messages, notices, workVars, audience, faults>>

\* The assignee becomes a member again if need be; nothing looks for an assignment
\* created since the check.
Assign(h) ==
  LET u == handlers[h].who IN
  /\ At(h, "assign", "tx") /\ issued < MaxAssignments
  /\ members' = members \cup {u}
  /\ issued' = issued + 1 /\ open' = [open EXCEPT ![u] = @ \cup {issued + 1}]
  /\ handlers' = [handlers EXCEPT ![h] =
       [op |-> "assign", pc |-> "tell", owed |-> {<<u, issued + 1>>}]]
  /\ UNCHANGED <<messages, notices, workVars, audience, faults>>

\* The assignments of which the request is about to tell.
Owed(h) == IF At(h, "assign", "tell") \/ At(h, "create", "tellAssignees") THEN handlers[h].owed ELSE {}

\* createNotifications('ASSIGNMENT') at the end of assign and of createThread.
TellAssigned(h) ==
  /\ announced' = announced \cup Owed(h)
  /\ \/ At(h, "assign", "tell") /\ Leave(h)
     \/ At(h, "create", "tellAssignees") /\ Goto(h, "tellAdded")
  /\ UNCHANGED <<threadVars, notices, told, lost, audience, faults>>

\* createNotifications('THREAD_ADDED') at the end of addParticipant and of createThread.
TellAdded(h) ==
  /\ \/ At(h, "add", "tell") /\ told' = told \cup {handlers[h].who}
     \/ At(h, "create", "tellAdded") /\ told' = told \cup handlers[h].added
  /\ Leave(h)
  /\ UNCHANGED <<threadVars, notices, announced, lost, audience, faults>>

\* One open assignment is picked, and completed whatever became of it since.
CheckUnassign(h) ==
  /\ At(h, "unassign", "check")
  /\ \/ \E id \in open[handlers[h].who] :
          handlers' = [handlers EXCEPT ![h] =
            [op |-> "unassign", pc |-> "tx", who |-> handlers[h].who, id |-> id]]
     \/ open[handlers[h].who] = {} /\ Leave(h)
  /\ UNCHANGED <<threadVars, notices, workVars, audience, faults>>

Unassign(h) ==
  /\ At(h, "unassign", "tx")
  /\ open' = [open EXCEPT ![handlers[h].who] = @ \ {handlers[h].id}]
  /\ Leave(h)
  /\ UNCHANGED <<members, issued, messages, notices, workVars, audience, faults>>

-----------------------------------------------------------------------------
(* addMessage, called again with the same clientId when the browser retries *)

Send(h, k) ==
  /\ handlers[h] = Idle /\ SenderOf[k] \in members
  /\ handlers' = [handlers EXCEPT ![h] = [op |-> "send", pc |-> "lookup", key |-> k]]
  /\ UNCHANGED <<threadVars, notices, workVars, audience, faults>>

\* A message that exists is returned, and nothing more is done.
LookUp(h) ==
  /\ At(h, "send", "lookup")
  /\ IF Sent(handlers[h].key) THEN Leave(h) ELSE Goto(h, "mention")
  /\ UNCHANGED <<threadVars, notices, workVars, audience, faults>>

\* Mentions must be of active participants.
CheckMentions(h) ==
  /\ At(h, "send", "mention")
  /\ IF MentionsOf[handlers[h].key] \subseteq members THEN Goto(h, "insert") ELSE Leave(h)
  /\ UNCHANGED <<threadVars, notices, workVars, audience, faults>>

\* MUTANT of Insert: senderId and clientId are not unique together.
InsertAnyway(h) ==
  LET k == handlers[h].key IN
  /\ At(h, "send", "insert")
  /\ messages' = Append(messages, k)
  /\ audience' = [audience EXCEPT ![k] = members \ {SenderOf[k]}]
  /\ Goto(h, "tellMentioned")
  /\ UNCHANGED <<members, issued, open, notices, workVars, faults>>

\* Of two requests with one clientId the constraint lets one insert, the other fails.
Insert(h) ==
  LET k == handlers[h].key IN
  /\ At(h, "send", "insert")
  /\ IF Sent(k) THEN Leave(h) /\ UNCHANGED <<messages, audience>>
     ELSE /\ messages' = Append(messages, k)
          /\ audience' = [audience EXCEPT ![k] = members \ {SenderOf[k]}]
          /\ Goto(h, "tellMentioned")
  /\ UNCHANGED <<members, issued, open, notices, workVars, faults>>

Notify(k, users, kind) ==
  notices' = [notices EXCEPT ![k] =
    [u \in Users |-> IF u \in users THEN Append(@[u], kind) ELSE @[u]]]

TellMentioned(h) ==
  /\ At(h, "send", "tellMentioned")
  /\ Notify(handlers[h].key, MentionsOf[handlers[h].key], "MENTION")
  /\ Goto(h, "tellMembers")
  /\ UNCHANGED <<threadVars, workVars, audience, faults>>

\* MUTANT of Recipients: a message with mentions is for the mentioned only.
RecipientsPrivate(k) == IF MentionsOf[k] # {} THEN {} ELSE members \ {SenderOf[k]}

Recipients(k) == members \ ({SenderOf[k]} \cup MentionsOf[k])

\* Those who are members by now are notified.
TellMembers(h) ==
  /\ At(h, "send", "tellMembers")
  /\ Notify(handlers[h].key, Recipients(handlers[h].key), "MESSAGE")
  /\ Leave(h)
  /\ UNCHANGED <<threadVars, workVars, audience, faults>>

Die(h) ==
  /\ handlers[h] # Idle /\ faults < MaxFaults
  /\ faults' = faults + 1 /\ lost' = lost \cup Owed(h)
  /\ Leave(h)
  /\ UNCHANGED <<threadVars, notices, told, announced, audience>>

Next ==
  \E h \in Handlers :
    \/ \E u, who \in Users, op \in {"add", "remove", "assign", "unassign"} : Manage(h, u, op, who)
    \/ AddParticipant(h) \/ CheckRemove(h) \/ RemoveParticipant(h)
    \/ CheckAssign(h) \/ Assign(h) \/ CheckUnassign(h) \/ Unassign(h)
    \/ TellAssigned(h) \/ TellAdded(h)
    \/ \E k \in Keys : Send(h, k)
    \/ LookUp(h) \/ CheckMentions(h) \/ Insert(h) \/ TellMentioned(h) \/ TellMembers(h)
    \/ Die(h)

Spec == Init /\ [][Next]_vars

-----------------------------------------------------------------------------
(* Properties *)

TypeOK ==
  /\ members \subseteq Users /\ Creator \in members
  /\ issued \in 0 .. MaxAssignments
  /\ open \in [Users -> SUBSET (1 .. issued)]
  /\ messages \in Seq(Keys)
  /\ notices \in [Keys -> [Users -> Seq({"MENTION", "MESSAGE"})]]
  /\ told \subseteq Users /\ announced \subseteq Assignments /\ lost \subseteq Assignments
  /\ audience \in [Keys -> SUBSET Users]
  /\ handlers \in [Handlers -> Request]
  /\ faults \in 0 .. MaxFaults

\* Whoever has open work in a thread is an active participant of it, however
\* assigning, removing and unassigning overlap: getInbox counts the work of
\* members only, and removed users' work would never be seen again.
AssigneesAreMembers == \A u \in Users : open[u] # {} => u \in members

\* Whoever has open work in a thread has been told of it, of every new assignment anew,
\* unless the very request that made this assignment is about to tell or died before it did:
\* from the creation of the thread on, however assigning and unassigning overlap.
AssigneesAreTold ==
  \A u \in Users : \A id \in open[u] :
    \/ <<u, id>> \in announced \cup lost
    \/ \E h \in Handlers : <<u, id>> \in Owed(h)

\* A message is announced at most once to anybody, as a mention or as a message,
\* and never to its sender.
AnnouncedOnce ==
  \A k \in Keys :
    /\ \A u \in Users : Len(notices[k][u]) <= 1
    /\ notices[k][SenderOf[k]] = << >>

\* Once the request that stored a message has ended without dying, every member
\* who was there when it was stored and did not leave since has been notified.
EveryoneIsTold ==
  \A k \in Keys :
    \/ faults > 0
    \/ \E h \in Handlers : \/ At(h, "send", "tellMentioned") /\ handlers[h].key = k
                           \/ At(h, "send", "tellMembers") /\ handlers[h].key = k
    \/ \A u \in audience[k] : notices[k][u] # << >>
=============================================================================
