-------------------------------- MODULE Users --------------------------------
(***************************************************************************)
(* The parts of users.service.ts that have a protocol: the hierarchy of    *)
(* managers, and the signature of a user, whose replacement his manager    *)
(* has to approve.  A drawing is a file named by a fresh key, written and  *)
(* deleted outside of any transaction; requests read rows and files, and   *)
(* act on what they have read.  departments.service.ts guards its own      *)
(* hierarchy in the same way.                                              *)
(***************************************************************************)
EXTENDS FiniteSets, Integers

CONSTANTS
  Users,      \* the users there may be
  Signers,    \* those of them who upload signatures
  Leavers,    \* those who may be removed
  Charts,     \* the hierarchies there may be at first
  Nobody,     \* null
  Handlers,   \* requests that may be in flight at once
  MaxMoves,   \* bound: changes of managers
  MaxWork,    \* bound: changes of managers and files written, together
  MaxFaults   \* bound: requests that die half way

\* Every group of users has one whose manager is not among them.
IsAcyclic(chart) == \A group \in SUBSET Users : group # {} => \E u \in group : chart[u] \notin group

ASSUME UsersAssumption ==
  /\ Nobody \notin Users /\ Signers \subseteq Users /\ Leavers \subseteq Users
  /\ Charts \subseteq {chart \in [Users -> Users \cup {Nobody}] : IsAcyclic(chart)}
  /\ MaxMoves \in Nat /\ MaxWork \in Nat /\ MaxFaults \in Nat

VARIABLES
  users,       \* the users that exist
  manager,     \* User.managerId
  signature,   \* User.signatureStorageKey
  requests,    \* SignatureChangeRequest rows, by the key of their drawing
  files,       \* the files under uploads/signatures: folder and key
  lastKey,     \* the last key drawn
  told,        \* the notifications: user, key and kind
  handlers,    \* where each request is, and what it has read
  moves,       \* changes of managers so far
  overlapped,  \* whether two changes of managers have been under way at once
  faults       \* requests that have died so far

hierarchy == <<manager, moves, overlapped>>
drawings == <<signature, requests, files, lastKey, told>>
vars == <<users, hierarchy, drawings, handlers, faults>>

NoKey == 0
FirstKey == 1
Keys == Nat \ {NoKey}

Idle == [pc |-> "idle", user |-> Nobody, other |-> Nobody, key |-> NoKey, copy |-> NoKey, old |-> NoKey]

\* Users are created with a manager who exists: a hierarchy without a cycle.  One
\* of them may have a signature already.
Init ==
  /\ users = Users
  /\ manager \in Charts
  /\ moves = 0 /\ overlapped = FALSE
  /\ \E signed \in Signers \cup {Nobody} :
       /\ signature = [u \in Users |-> IF u = signed THEN FirstKey ELSE NoKey]
       /\ files = IF signed = Nobody THEN {} ELSE {<<"users", FirstKey>>}
  /\ requests = {} /\ lastKey = FirstKey /\ told = {}
  /\ handlers = [h \in Handlers |-> Idle]
  /\ faults = 0

At(h, pc) == handlers[h].pc = pc
Goto(h, pc) == handlers' = [handlers EXCEPT ![h].pc = pc]
Finish(h) == handlers' = [handlers EXCEPT ![h] = Idle]
Arrive(h, hd) == handlers[h] = Idle /\ handlers' = [handlers EXCEPT ![h] = hd]

\* Bound: changes of managers, and files written or about to be.
MayWork ==
  LET writers == {h \in Handlers : handlers[h].pc \in {"find", "write", "read", "copy"}} IN
    moves + lastKey - FirstKey + Cardinality(writers) < MaxWork

-----------------------------------------------------------------------------
(* The hierarchy.  update validates the manager and then writes the row:   *)
(* other is the manager asked for, key is not used, old holds the cursor   *)
(* of the walk.                                                            *)

\* MUTANT of Climbed: a manager who is below the user is not noticed.
ClimbedBlindly(h, hd, u) ==
  handlers' = [handlers EXCEPT ![h] =
    IF u = Nobody THEN [hd EXCEPT !.pc = "move"] ELSE [hd EXCEPT !.pc = "climb", !.old = u]]

\* MUTANT of Climbed: the loop of validateManager ends at the first manager.
ClimbedOnce(h, hd, u) ==
  IF u = hd.user THEN Finish(h) ELSE handlers' = [handlers EXCEPT ![h] = [hd EXCEPT !.pc = "move"]]

\* The walk has come to u, or to the top: a cycle is refused, the top accepted.
Climbed(h, hd, u) ==
  IF u = hd.user THEN Finish(h)
  ELSE handlers' = [handlers EXCEPT ![h] =
         IF u = Nobody THEN [hd EXCEPT !.pc = "move"] ELSE [hd EXCEPT !.pc = "climb", !.old = u]]

ManagerOf(u) == IF u \in users THEN manager[u] ELSE Nobody

\* update: the user exists, nobody is his own manager, the manager exists.
UpdateManager(h, u, m) ==
  /\ handlers[h] = Idle /\ moves < MaxMoves /\ MayWork
  /\ u \in users /\ m # u /\ m \in users \cup {Nobody}
  /\ moves' = moves + 1
  /\ overlapped' = (overlapped \/ \E g \in Handlers : handlers[g].pc \in {"climb", "move"})
  /\ LET hd == [Idle EXCEPT !.pc = "move", !.user = u, !.other = m] IN
       IF m = Nobody THEN handlers' = [handlers EXCEPT ![h] = hd]
                     ELSE Climbed(h, hd, ManagerOf(m))
  /\ UNCHANGED <<users, manager, drawings, faults>>

Climb(h) ==
  /\ At(h, "climb")
  /\ Climbed(h, handlers[h], ManagerOf(handlers[h].old))
  /\ UNCHANGED <<users, hierarchy, drawings, faults>>

\* The row is written whatever the chain has become; it must exist, and so must
\* the manager (a foreign key).
Move(h) ==
  /\ At(h, "move")
  /\ LET hd == handlers[h] IN
       manager' = IF hd.user \in users /\ hd.other \in users \cup {Nobody}
                  THEN [manager EXCEPT ![hd.user] = hd.other] ELSE manager
  /\ Finish(h)
  /\ UNCHANGED <<users, moves, overlapped, drawings, faults>>

\* remove: managerId is set to null (ON DELETE SET NULL), requests go with their
\* requester or their reviewer (CASCADE); the files stay.
Remove(u) ==
  /\ u \in users
  /\ users' = users \ {u}
  /\ manager' = [v \in Users |-> IF v = u \/ manager[v] = u THEN Nobody ELSE manager[v]]
  /\ signature' = [signature EXCEPT ![u] = NoKey]
  /\ requests' = {r \in requests : r.requester # u /\ r.reviewer # u}
  /\ UNCHANGED <<moves, overlapped, files, lastKey, told, handlers, faults>>

-----------------------------------------------------------------------------
(* uploadSignature. *)

Pending(u) == {r \in requests : r.requester = u /\ r.status = "PENDING"}

\* A first signature needs no approval; a replacement needs a manager.
UploadSignature(h, u) ==
  /\ u \in users /\ MayWork
  /\ \/ /\ signature[u] = NoKey
        /\ Arrive(h, [Idle EXCEPT !.pc = "write", !.user = u])
     \/ /\ signature[u] # NoKey /\ manager[u] # Nobody
        /\ Arrive(h, [Idle EXCEPT !.pc = "find", !.user = u, !.other = manager[u]])
  /\ UNCHANGED <<users, hierarchy, drawings, faults>>

FindPending(h) ==
  /\ At(h, "find")
  /\ IF Pending(handlers[h].user) = {} THEN Goto(h, "write") ELSE Finish(h)
  /\ UNCHANGED <<users, hierarchy, drawings, faults>>

\* writeSignatureFile: other is the reviewer when the drawing is a replacement.
Folder(hd) == IF hd.other = Nobody THEN "users" ELSE "requests"

WriteFile(h) ==
  /\ At(h, "write")
  /\ lastKey' = lastKey + 1
  /\ files' = files \cup {<<Folder(handlers[h]), lastKey + 1>>}
  /\ handlers' = [handlers EXCEPT ![h].pc = IF handlers[h].other = Nobody THEN "activate" ELSE "create",
                                  ![h].key = lastKey + 1]
  /\ UNCHANGED <<users, hierarchy, signature, requests, told, faults>>

Activate(h) ==
  /\ At(h, "activate")
  /\ LET hd == handlers[h] IN
       signature' = IF hd.user \in users THEN [signature EXCEPT ![hd.user] = hd.key] ELSE signature
  /\ Finish(h)
  /\ UNCHANGED <<users, hierarchy, requests, files, lastKey, told, faults>>

CreateRequest(h) ==
  /\ At(h, "create")
  /\ LET hd == handlers[h] IN
       IF {hd.user, hd.other} \subseteq users
       THEN /\ requests' = requests \cup {[key |-> hd.key, requester |-> hd.user,
                                           reviewer |-> hd.other, status |-> "PENDING"]}
            /\ Goto(h, "tellReviewer")
       ELSE /\ Finish(h)
            /\ UNCHANGED requests
  /\ UNCHANGED <<users, hierarchy, signature, files, lastKey, told, faults>>

\* MUTANT of TellReviewer: the notification goes to the present manager of the requester.
TellManager(h) ==
  /\ At(h, "tellReviewer")
  /\ told' = told \cup {<<manager[handlers[h].user], handlers[h].key, "REQUESTED">>}
  /\ Finish(h)
  /\ UNCHANGED <<users, hierarchy, signature, requests, files, lastKey, faults>>

TellReviewer(h) ==
  /\ At(h, "tellReviewer")
  /\ told' = told \cup {<<handlers[h].other, handlers[h].key, "REQUESTED">>}
  /\ Finish(h)
  /\ UNCHANGED <<users, hierarchy, signature, requests, files, lastKey, faults>>

-----------------------------------------------------------------------------
(* reviewSignatureChange: user is the requester, other the reviewer. *)

Review(h, r, approved) ==
  /\ r.status = "PENDING" /\ MayWork
  /\ Arrive(h, [Idle EXCEPT !.pc = IF approved THEN "read" ELSE "reject",
                            !.user = r.requester, !.other = r.reviewer, !.key = r.key])
  /\ UNCHANGED <<users, hierarchy, drawings, faults>>

\* The drawing of the request; a review that deleted it first makes this one fail.
ReadDrawing(h) ==
  /\ At(h, "read")
  /\ IF <<"requests", handlers[h].key>> \in files THEN Goto(h, "copy") ELSE Finish(h)
  /\ UNCHANGED <<users, hierarchy, drawings, faults>>

WriteCopy(h) ==
  /\ At(h, "copy")
  /\ lastKey' = lastKey + 1
  /\ files' = files \cup {<<"users", lastKey + 1>>}
  /\ handlers' = [handlers EXCEPT ![h].pc = "old", ![h].copy = lastKey + 1]
  /\ UNCHANGED <<users, hierarchy, signature, requests, told, faults>>

\* The key that is about to be replaced is read before the transaction.
ReadOld(h) ==
  /\ At(h, "old")
  /\ handlers' = [handlers EXCEPT ![h].pc = "approve", ![h].old = signature[handlers[h].user]]
  /\ UNCHANGED <<users, hierarchy, drawings, faults>>

Row(key) == {r \in requests : r.key = key}
WithStatus(key, status) ==
  (requests \ Row(key)) \cup {[r EXCEPT !.status = status] : r \in Row(key)}

\* Both rows in one transaction; it fails when either of them is gone.
Approve(h) ==
  /\ At(h, "approve")
  /\ LET hd == handlers[h] IN
       IF Row(hd.key) # {}
       THEN /\ signature' = [signature EXCEPT ![hd.user] = hd.copy]
            /\ requests' = WithStatus(hd.key, "APPROVED")
            /\ Goto(h, "deleteDrawing")
       ELSE /\ Finish(h)
            /\ UNCHANGED <<signature, requests>>
  /\ UNCHANGED <<users, hierarchy, files, lastKey, told, faults>>

\* Neither verdict looks at the status again.
RejectChange(h) ==
  /\ At(h, "reject")
  /\ LET hd == handlers[h] IN
       IF Row(hd.key) # {}
       THEN /\ requests' = WithStatus(hd.key, "REJECTED")
            /\ Goto(h, "deleteDrawing")
       ELSE /\ Finish(h)
            /\ UNCHANGED requests
  /\ UNCHANGED <<users, hierarchy, signature, files, lastKey, told, faults>>

\* safeDelete of the request's drawing, whatever the verdict.
DeleteDrawing(h) ==
  /\ At(h, "deleteDrawing")
  /\ files' = files \ {<<"requests", handlers[h].key>>}
  /\ Goto(h, IF handlers[h].old # NoKey THEN "deleteOld" ELSE "tellRequester")
  /\ UNCHANGED <<users, hierarchy, signature, requests, lastKey, told, faults>>

\* MUTANT of DeleteOld: the key to delete is read after the transaction.
DeleteCurrent(h) ==
  /\ At(h, "deleteOld")
  /\ files' = files \ {<<"users", signature[handlers[h].user]>>}
  /\ Goto(h, "tellRequester")
  /\ UNCHANGED <<users, hierarchy, signature, requests, lastKey, told, faults>>

DeleteOld(h) ==
  /\ At(h, "deleteOld")
  /\ files' = files \ {<<"users", handlers[h].old>>}
  /\ Goto(h, "tellRequester")
  /\ UNCHANGED <<users, hierarchy, signature, requests, lastKey, told, faults>>

TellRequester(h) ==
  /\ At(h, "tellRequester")
  /\ told' = told \cup {<<handlers[h].user, handlers[h].key,
                         IF handlers[h].copy # NoKey THEN "APPROVED" ELSE "REJECTED">>}
  /\ Finish(h)
  /\ UNCHANGED <<users, hierarchy, signature, requests, files, lastKey, faults>>

Die(h) ==
  /\ handlers[h] # Idle /\ faults < MaxFaults
  /\ faults' = faults + 1
  /\ Finish(h)
  /\ UNCHANGED <<users, hierarchy, drawings>>

Progress(h) ==
  \/ Climb(h) \/ Move(h)
  \/ FindPending(h) \/ WriteFile(h) \/ Activate(h) \/ CreateRequest(h) \/ TellReviewer(h)
  \/ ReadDrawing(h) \/ WriteCopy(h) \/ ReadOld(h) \/ Approve(h) \/ RejectChange(h)
  \/ DeleteDrawing(h) \/ DeleteOld(h) \/ TellRequester(h)

Next ==
  \/ \E h \in Handlers :
       \/ \E u \in Users, m \in Users \cup {Nobody} : UpdateManager(h, u, m)
       \/ \E u \in Signers : UploadSignature(h, u)
       \/ \E r \in requests, approved \in BOOLEAN : Review(h, r, approved)
       \/ Progress(h)
       \/ Die(h)
  \/ \E u \in Leavers : Remove(u)

Spec == Init /\ [][Next]_vars

\* The event loop resumes every request whose query has returned.
FairSpec == Spec /\ \A h \in Handlers : WF_vars(Progress(h))

-----------------------------------------------------------------------------
(* Properties *)

Pc == {"idle", "climb", "move", "find", "write", "activate", "create", "tellReviewer", "read",
       "copy", "old", "approve", "reject", "deleteDrawing", "deleteOld", "tellRequester"}

\* Only users that exist have managers, signatures and requests.
TypeOK ==
  /\ users \subseteq Users
  /\ \A u \in Users : manager[u] \in (users \cup {Nobody}) \ {u} /\ signature[u] \in Keys \cup {NoKey}
  /\ \A u \in Users \ users : manager[u] = Nobody /\ signature[u] = NoKey
  /\ requests \subseteq [key : Keys, requester : users, reviewer : users,
                          status : {"PENDING", "APPROVED", "REJECTED"}]
  /\ files \subseteq {"users", "requests"} \X Keys /\ lastKey \in Nat
  /\ \A h \in Handlers : handlers[h].pc \in Pc /\ handlers[h].user \in Users \cup {Nobody}
  /\ moves \in Nat /\ overlapped \in BOOLEAN /\ faults \in Nat

\* Although drawings are written and deleted outside of the transactions, by
\* uploads and reviews that race and may die anywhere, the drawing of every
\* signature in force and of every request that waits for its reviewer exists.
DrawingsExist ==
  /\ \A u \in users : signature[u] # NoKey => <<"users", signature[u]>> \in files
  /\ \A r \in requests : r.status = "PENDING" => <<"requests", r.key>> \in files

\* The reviewer that a request names was told of it, whoever is the manager by
\* then, and the requester of the verdict in force, also when two verdicts race.
\* Each request that lacks a message is the work of a request that died.
Heard(r) ==
  /\ <<r.reviewer, r.key, "REQUESTED">> \in told
  /\ r.status # "PENDING" => <<r.requester, r.key, r.status>> \in told

BothAreTold ==
  LET untold == {r \in requests : ~Heard(r) /\ ~ \E h \in Handlers : handlers[h].key = r.key} IN
    Cardinality(untold) <= faults

\* A cycle of managers takes two changes that were under way at once: the walk up
\* the chain is only as good as the chain stays while it is made.
CyclesNeedOverlap == IsAcyclic(manager) \/ overlapped

\* The walk of validateManager ends, unless changes have overlapped: then it may
\* run around a cycle for ever.
ClimbEnds == \A h \in Handlers : At(h, "climb") ~> ~At(h, "climb") \/ overlapped
=============================================================================
