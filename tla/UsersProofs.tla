------------------------------ MODULE UsersProofs ------------------------------
(***************************************************************************)
(* Three arguments about users.                                            *)
(*                                                                         *)
(* Drawings.  Each file is written under a key of its own, and only one    *)
(* request can ever make a signature of it: it claims the key.  A key that *)
(* a review is going to delete was a signature when it was read, so that   *)
(* nobody claims it, and no longer is one when the file is deleted.        *)
(*                                                                         *)
(* Managers.  While only one change is under way, the chain that its walk  *)
(* has passed stays closed under "manager of": if the new row closed a     *)
(* cycle, the part of the cycle in that chain would have been one before.  *)
(*                                                                         *)
(* Messages.  Each row of a change is announced, and judged, by a handler  *)
(* that still has the message to send or has sent it, or has died: the     *)
(* rows that lack a message are no more than the deaths.                   *)
(***************************************************************************)
EXTENDS Users, FiniteSetTheorems, TLAPS

USE UsersAssumption

Handler == [pc : Pc, user : Users \cup {Nobody}, other : Users \cup {Nobody},
            key : Nat, copy : Nat, old : Nat \cup Users \cup {Nobody}]

Walking == {"climb", "move"}

\* x may yet make the drawing k a signature.
Claims(x, k) == \/ x.pc = "activate" /\ x.key = k
                \/ x.pc \in {"old", "approve"} /\ x.copy = k

Typed(x) ==
  /\ x \in Handler
  /\ x.pc \in Walking =>
       /\ x.user \in Users /\ x.other # x.user /\ x.key = NoKey
       /\ x.pc = "climb" => x.other \in Users /\ x.old \in Users
  /\ x.pc \notin Walking \cup {"idle"} =>
       /\ x.user \in Users /\ x.old \in Nat
       /\ x.key <= lastKey /\ x.copy <= lastKey /\ x.old <= lastKey
  /\ x.pc = "idle" => x = Idle

\* What request h may rely on, by where it is.
Sound(h) ==
  LET x == handlers[h] IN
  /\ Typed(x)
  /\ \A k : Claims(x, k) =>
       /\ k # NoKey /\ <<"users", k>> \in files
       /\ \A u \in Users : signature[u] # k
       /\ \A g \in Handlers : Claims(handlers[g], k) => g = h
  /\ x.pc = "approve" /\ x.old # NoKey =>
       /\ \A g \in Handlers : ~Claims(handlers[g], x.old)
       /\ \A u \in Users : u # x.user => signature[u] # x.old
  /\ x.pc \in {"deleteDrawing", "deleteOld"} /\ x.old # NoKey =>
       /\ \A g \in Handlers : ~Claims(handlers[g], x.old)
       /\ \A u \in Users : signature[u] # x.old
  /\ x.pc = "deleteOld" => x.old # NoKey
  /\ x.pc = "reject" => x.old = NoKey
  /\ x.pc = "create" =>
       /\ x.key # NoKey /\ <<"requests", x.key>> \in files
       /\ \A r \in requests : r.key # x.key
       /\ \A g \in Handlers : g # h => handlers[g].key # x.key
  /\ x.pc \in {"read", "copy", "old", "approve", "reject"} =>
       \A r \in requests : r.key = x.key => r.requester = x.user
  /\ x.pc = "deleteDrawing" => \A r \in requests : r.key = x.key => r.status # "PENDING"

\* Signatures, requests and their files.
Kept ==
  /\ DrawingsExist
  /\ \A u, v \in Users : signature[u] # NoKey /\ signature[u] = signature[v] => u = v
  /\ \A u \in Users : signature[u] <= lastKey
  /\ \A r \in requests : r.key <= lastKey
  /\ \A r, o \in requests : r.key = o.key => r = o

\* The chain W that the walk of x has passed, up to its cursor, avoids the user.
Passed(W, x) ==
  /\ x.other \in W /\ x.user \notin W
  /\ x.pc = "climb" => x.old \in W
  /\ \A v \in W : (x.pc = "climb" /\ v = x.old) \/ manager[v] \in W \cup {Nobody}

Climbing ==
  overlapped \/
    /\ IsAcyclic(manager)
    /\ \A g, h \in Handlers : handlers[g].pc \in Walking /\ handlers[h].pc \in Walking => g = h
    /\ \A h \in Handlers : handlers[h].pc \in Walking /\ handlers[h].other # Nobody =>
         \E W \in SUBSET Users : Passed(W, handlers[h])

Signed == manager \in [Users -> Users \cup {Nobody}] /\ signature \in [Users -> Nat]
          /\ handlers \in [Handlers -> Handler]

UsersInv ==
  /\ TypeOK /\ Signed
  /\ Kept /\ Climbing
  /\ \A h \in Handlers : Sound(h)

LEMMA IdleTyped == Idle \in Handler /\ Typed(Idle) /\ Idle.pc = "idle" /\ Idle.key = NoKey
BY DEF Idle, Handler, Typed, NoKey, Pc, Walking

LEMMA InitUsers == Init => UsersInv
<1> SUFFICES ASSUME Init PROVE UsersInv
  OBVIOUS
<1>1. manager \in [Users -> Users \cup {Nobody}] /\ IsAcyclic(manager)
  BY DEF Init
<1>2. \A u \in Users : manager[u] # u
  <2> SUFFICES ASSUME NEW u \in Users PROVE manager[u] # u
    OBVIOUS
  <2>1. {u} \in SUBSET Users /\ {u} # {}
    OBVIOUS
  <2>2. \E v \in {u} : manager[v] \notin {u}
    BY <1>1, <2>1 DEF IsAcyclic
  <2> QED
    BY <2>2
<1>3. PICK signed \in Signers \cup {Nobody} :
        /\ signature = [u \in Users |-> IF u = signed THEN FirstKey ELSE NoKey]
        /\ files = IF signed = Nobody THEN {} ELSE {<<"users", FirstKey>>}
  BY DEF Init
<1>4. signature \in [Users -> Nat] /\ \A u \in Users : signature[u] \in Keys \cup {NoKey}
  BY <1>3 DEF Keys, NoKey, FirstKey
<1>5. TypeOK
  <2>1. files \subseteq {"users", "requests"} \X Keys
    BY <1>3 DEF Keys, NoKey, FirstKey
  <2> QED
    BY <1>1, <1>2, <1>4, <2>1 DEF Init, TypeOK, FirstKey, Idle, Pc
<1>6. Signed
  BY <1>1, <1>4, IdleTyped DEF Init, Signed
<1>7. Kept
  BY <1>3 DEF Init, Kept, DrawingsExist, FirstKey, NoKey
<1>8. Climbing
  BY <1>1 DEF Init, Climbing, Idle, Walking
<1>9. \A h \in Handlers : Sound(h)
  BY IdleTyped DEF Init, Sound, Claims
<1> QED
  BY <1>5, <1>6, <1>7, <1>8, <1>9 DEF UsersInv
-----------------------------------------------------------------------------
(* What one request does leaves what the others rely on alone. *)

\* The ways in which the state of drawings changes when h becomes x.
Drawn(h, x) ==
  /\ handlers' = [handlers EXCEPT ![h] = x]
  /\ lastKey' \in Nat /\ lastKey' >= lastKey
  /\ \A u \in Users : signature'[u] \in {signature[u], NoKey} \/ Claims(handlers[h], signature'[u])
  /\ \A k : <<"users", k>> \in files /\ <<"users", k>> \notin files' =>
       \A g \in Handlers : ~Claims(handlers[g], k)
  /\ \A k : <<"requests", k>> \in files /\ <<"requests", k>> \notin files' => k = handlers[h].key
  /\ \A r \in requests' :
       \/ \E o \in requests : /\ o.key = r.key /\ o.requester = r.requester
                              /\ r.status = "PENDING" => o.status = "PENDING"
       \/ handlers[h].pc = "create" /\ r.key = handlers[h].key
  /\ \A k : Claims(x, k) => Claims(handlers[h], k) \/ (k \in Nat /\ k > lastKey)
  /\ \/ x.key \in {handlers[h].key, NoKey} \/ x.key > lastKey
     \/ \E r \in requests : r.key = x.key

LEMMA OthersKeep ==
  ASSUME UsersInv, NEW h \in Handlers, NEW x \in Handler, Drawn(h, x), NEW g \in Handlers, g # h
  PROVE  Sound(g)'
<1> DEFINE y == handlers[g]
<1>1. Signed /\ Sound(g) /\ Sound(h) /\ lastKey \in Nat
  BY DEF UsersInv, TypeOK
<1>2. handlers'[g] = y /\ handlers'[h] = x /\ \A f \in Handlers : f # h => handlers'[f] = handlers[f]
  BY <1>1 DEF Drawn, Signed
<1>3. y \in Handler /\ y.key \in Nat /\ y.copy \in Nat /\ y.pc \in Pc
  BY <1>1 DEF Signed, Handler
<1>4. y.pc \notin Walking \cup {"idle"} => y.key <= lastKey /\ y.copy <= lastKey /\ y.old \in Nat /\ y.old <= lastKey
  BY <1>1 DEF Sound, Typed
<1>5. \A k : Claims(y, k) => k \in Nat /\ k <= lastKey
  BY <1>3, <1>4 DEF Claims, Walking
<1>6. \A k : k \in Nat /\ k <= lastKey /\ Claims(x, k) => Claims(handlers[h], k)
  BY <1>1 DEF Drawn
<1>a. Typed(handlers[g])'
  <2>1. Typed(y) /\ lastKey' >= lastKey /\ lastKey' \in Nat
    BY <1>1 DEF Sound, Drawn
  <2> QED
    BY <1>1, <1>2, <1>3, <2>1 DEF Typed
<1>b. \A k : Claims(y, k) =>
        /\ k # NoKey /\ <<"users", k>> \in files'
        /\ \A u \in Users : signature'[u] # k
        /\ \A f \in Handlers : Claims(handlers'[f], k) => f = g
  <2> SUFFICES ASSUME NEW k, Claims(y, k)
               PROVE  /\ k # NoKey /\ <<"users", k>> \in files'
                      /\ \A u \in Users : signature'[u] # k
                      /\ \A f \in Handlers : Claims(handlers'[f], k) => f = g
    OBVIOUS
  <2>1. /\ k # NoKey /\ <<"users", k>> \in files
        /\ \A u \in Users : signature[u] # k
        /\ \A f \in Handlers : Claims(handlers[f], k) => f = g
    BY <1>1 DEF Sound
  <2>2. <<"users", k>> \in files'
    BY <2>1 DEF Drawn
  <2>3. ~Claims(handlers[h], k)
    BY <2>1
  <2>4. \A u \in Users : signature'[u] # k
    BY <2>1, <2>3 DEF Drawn
  <2>5. ~Claims(x, k)
    BY <1>5, <1>6, <2>3
  <2>6. \A f \in Handlers : Claims(handlers'[f], k) => f = g
    BY <1>2, <2>1, <2>5
  <2> QED
    BY <2>1, <2>2, <2>4, <2>6
<1>c. ASSUME y.pc \in {"approve", "deleteDrawing", "deleteOld"}, y.old # NoKey
      PROVE  /\ \A f \in Handlers : ~Claims(handlers'[f], y.old)
             /\ \A u \in Users : signature[u] # y.old => signature'[u] # y.old
  <2>1. \A f \in Handlers : ~Claims(handlers[f], y.old)
    BY <1>1, <1>c DEF Sound
  <2>2. y.old \in Nat /\ y.old <= lastKey
    BY <1>4, <1>c DEF Walking
  <2>3. ~Claims(x, y.old)
    BY <1>6, <2>1, <2>2
  <2>4. \A f \in Handlers : ~Claims(handlers'[f], y.old)
    BY <1>2, <2>1, <2>3
  <2>5. \A u \in Users : signature[u] # y.old => signature'[u] # y.old
    BY <1>c, <2>1 DEF Drawn
  <2> QED
    BY <2>4, <2>5
<1>d. y.pc = "create" =>
        /\ y.key # NoKey /\ <<"requests", y.key>> \in files'
        /\ \A r \in requests' : r.key # y.key
        /\ \A f \in Handlers : f # g => handlers'[f].key # y.key
  <2> SUFFICES ASSUME y.pc = "create"
               PROVE  /\ y.key # NoKey /\ <<"requests", y.key>> \in files'
                      /\ \A r \in requests' : r.key # y.key
                      /\ \A f \in Handlers : f # g => handlers'[f].key # y.key
    OBVIOUS
  <2>1. /\ y.key # NoKey /\ <<"requests", y.key>> \in files
        /\ \A r \in requests : r.key # y.key
        /\ \A f \in Handlers : f # g => handlers[f].key # y.key
    BY <1>1 DEF Sound
  <2>2. <<"requests", y.key>> \in files'
    BY <2>1 DEF Drawn
  <2>3. \A r \in requests' : r.key # y.key
    BY <2>1 DEF Drawn
  <2>4. x.key # y.key
    <3>1. y.key <= lastKey
      BY <1>4 DEF Walking
    <3>2. x.key \in Nat
      BY DEF Handler
    <3> QED
      BY <1>1, <1>3, <2>1, <3>1, <3>2 DEF Drawn
  <2> QED
    BY <1>2, <2>1, <2>2, <2>3, <2>4
<1>e. y.pc \in {"read", "copy", "old", "approve", "reject"} =>
        \A r \in requests' : r.key = y.key => r.requester = y.user
  BY <1>1 DEF Sound, Drawn
<1>f. y.pc = "deleteDrawing" => \A r \in requests' : r.key = y.key => r.status # "PENDING"
  BY <1>1 DEF Sound, Drawn
<1>g. /\ y.pc = "approve" /\ y.old # NoKey =>
           /\ \A f \in Handlers : ~Claims(handlers'[f], y.old)
           /\ \A u \in Users : u # y.user => signature'[u] # y.old
      /\ y.pc \in {"deleteDrawing", "deleteOld"} /\ y.old # NoKey =>
           /\ \A f \in Handlers : ~Claims(handlers'[f], y.old)
           /\ \A u \in Users : signature'[u] # y.old
      /\ y.pc = "deleteOld" => y.old # NoKey
      /\ y.pc = "reject" => y.old = NoKey
  BY <1>1, <1>c DEF Sound
<1> HIDE DEF y
<1> QED
  BY <1>2, <1>a, <1>b, <1>d, <1>e, <1>f, <1>g DEF Sound, Claims

\* A step that leaves the hierarchy alone.
LEMMA ClimbingKept ==
  ASSUME UsersInv, NEW h \in Handlers, NEW x \in Handler, handlers' = [handlers EXCEPT ![h] = x],
         x.pc \notin Walking, manager' = manager, overlapped' = overlapped
  PROVE  Climbing'
<1>1. Signed /\ Climbing
  BY DEF UsersInv
<1>2. \A g \in Handlers : handlers'[g].pc \in Walking => handlers'[g] = handlers[g]
  BY <1>1 DEF Signed
<1>3. IsAcyclic(manager)' <=> IsAcyclic(manager)
  BY DEF IsAcyclic
<1>4. \A W : \A g \in Handlers :
        handlers'[g].pc \in Walking /\ Passed(W, handlers[g]) =>
        /\ handlers'[g].other \in W /\ handlers'[g].user \notin W
        /\ handlers'[g].pc = "climb" => handlers'[g].old \in W
        /\ \A v \in W : (handlers'[g].pc = "climb" /\ v = handlers'[g].old) \/ manager'[v] \in W \cup {Nobody}
  BY <1>2 DEF Passed
<1> QED
  BY <1>1, <1>2, <1>3, <1>4 DEF Climbing, Passed

\* A step of request h on drawings, from what it does to its own part.
LEMMA DrawingStep ==
  ASSUME UsersInv, NEW h \in Handlers, NEW x \in Handler, Drawn(h, x), x.pc \notin Walking,
         users' = users, manager' = manager, moves' = moves, overlapped' = overlapped, faults' \in Nat,
         signature' \in [Users -> Nat], \A u \in Users \ users : signature'[u] = NoKey,
         files' \subseteq {"users", "requests"} \X Keys,
         requests' \subseteq [key : Keys, requester : users, reviewer : users,
                              status : {"PENDING", "APPROVED", "REJECTED"}],
         Kept', Sound(h)'
  PROVE  UsersInv'
<1>1. Signed /\ TypeOK
  BY DEF UsersInv
<1>2. Signed'
  BY <1>1 DEF Signed, Drawn
<1>3. TypeOK'
  <2>1. \A u \in Users : signature'[u] \in Keys \cup {NoKey}
    BY DEF Keys
  <2>2. \A u \in Users : manager'[u] \in (users' \cup {Nobody}) \ {u}
    BY <1>1 DEF TypeOK
  <2>3. \A u \in Users \ users : manager'[u] = Nobody
    BY <1>1 DEF TypeOK
  <2>4. \A g \in Handlers : handlers'[g].pc \in Pc /\ handlers'[g].user \in Users \cup {Nobody}
    BY <1>2 DEF Signed, Handler
  <2>5. lastKey' \in Nat
    BY DEF Drawn
  <2> QED
    BY <1>1, <2>1, <2>2, <2>3, <2>4, <2>5 DEF TypeOK
<1>4. Climbing'
  BY <1>1, ClimbingKept DEF Drawn
<1>5. \A g \in Handlers : Sound(g)'
  BY OthersKeep
<1> QED
  BY <1>2, <1>3, <1>4, <1>5 DEF UsersInv

LEMMA IdleSound ==
  ASSUME NEW h \in Handlers, handlers'[h] = Idle
  PROVE  Sound(h)'
BY IdleTyped DEF Sound, Claims, Typed, Walking, Idle

\* A step of request h that changes nothing but its own state.
LEMMA QuietStep ==
  ASSUME UsersInv, NEW h \in Handlers, NEW x \in Handler, handlers' = [handlers EXCEPT ![h] = x],
         UNCHANGED <<users, hierarchy, signature, requests, files, lastKey>>, faults' \in Nat,
         x.pc \notin Walking, \A k : Claims(x, k) => Claims(handlers[h], k),
         x.key \in {handlers[h].key, NoKey} \/ \E r \in requests : r.key = x.key, Sound(h)'
  PROVE  UsersInv'
<1>1. Signed /\ TypeOK /\ Kept
  BY DEF UsersInv
<1>2. Drawn(h, x)
  BY <1>1 DEF Drawn, TypeOK
<1>3. Kept'
  BY <1>1 DEF Kept, DrawingsExist
<1>4. signature' \in [Users -> Nat] /\ \A u \in Users \ users : signature'[u] = NoKey
  BY <1>1 DEF Signed, TypeOK
<1> QED
  BY <1>1, <1>2, <1>3, <1>4, DrawingStep DEF TypeOK, hierarchy

LEMMA FinishStep ==
  ASSUME UsersInv, NEW h \in Handlers, Finish(h), faults' \in Nat,
         UNCHANGED <<users, hierarchy, signature, requests, files, lastKey>>
  PROVE  UsersInv'
<1>1. Idle \in Handler /\ Idle.pc \notin Walking /\ Idle.key = NoKey /\ \A k : ~Claims(Idle, k)
  BY IdleTyped DEF Walking, Claims
<1>2. handlers' = [handlers EXCEPT ![h] = Idle] /\ handlers'[h] = Idle
  BY DEF Finish, UsersInv, Signed
<1>3. Sound(h)'
  BY <1>2, IdleSound
<1> QED
  BY <1>1, <1>2, <1>3, QuietStep

LEMMA Goes ==
  ASSUME NEW y \in Handler, NEW pc \in Pc
  PROVE  \E x \in Handler :
           /\ x = [y EXCEPT !.pc = pc] /\ x.pc = pc
           /\ x.user = y.user /\ x.other = y.other /\ x.key = y.key /\ x.copy = y.copy /\ x.old = y.old
<1> DEFINE x == [y EXCEPT !.pc = pc]
<1>1. /\ x \in Handler /\ x.pc = pc
      /\ x.user = y.user /\ x.other = y.other /\ x.key = y.key /\ x.copy = y.copy /\ x.old = y.old
  BY DEF Handler
<1> QED
  BY <1>1

LEMMA KeysBounded ==
  ASSUME UsersInv, NEW g \in Handlers
  PROVE  /\ lastKey \in Nat /\ handlers[g] \in Handler
         /\ handlers[g].key \in Nat /\ handlers[g].key <= lastKey
         /\ \A k : Claims(handlers[g], k) => k \in Nat /\ k <= lastKey
<1>1. Signed /\ TypeOK /\ Typed(handlers[g])
  BY DEF UsersInv, Sound
<1>2. lastKey \in Nat /\ handlers[g] \in Handler
  BY <1>1 DEF TypeOK, Signed
<1>3. handlers[g].key \in Nat /\ handlers[g].copy \in Nat
  BY <1>2 DEF Handler
<1>4. handlers[g].key <= lastKey
  BY <1>1, <1>2 DEF Typed, NoKey, Walking, Idle
<1>5. \A k : Claims(handlers[g], k) => k \in Nat /\ k <= lastKey
  BY <1>1, <1>3, <1>4 DEF Claims, Typed, Walking
<1> QED
  BY <1>2, <1>3, <1>4, <1>5

-----------------------------------------------------------------------------
(* The steps of an upload. *)

LEMMA UploadStep ==
  ASSUME UsersInv, NEW h \in Handlers, NEW u \in Signers, UploadSignature(h, u)
  PROVE  UsersInv'
<1>1. Signed /\ TypeOK
  BY DEF UsersInv
<1>2. \E pc \in {"write", "find"} : \E x \in Handler :
        /\ handlers' = [handlers EXCEPT ![h] = x]
        /\ x.pc = pc /\ x.user = u /\ x.key = NoKey /\ x.copy = NoKey /\ x.old = NoKey
  <2>1. CASE signature[u] = NoKey
    <3>1. Arrive(h, [Idle EXCEPT !.pc = "write", !.user = u])
      BY <2>1 DEF UploadSignature
    <3> DEFINE x == [Idle EXCEPT !.pc = "write", !.user = u]
    <3>2. /\ x \in Handler /\ x.pc = "write" /\ x.user = u
          /\ x.key = NoKey /\ x.copy = NoKey /\ x.old = NoKey
      BY DEF Handler, NoKey, Idle, Pc
    <3> QED
      BY <3>1, <3>2 DEF Arrive
  <2>2. CASE signature[u] # NoKey
    <3>a. PICK m \in Users \cup {Nobody} : m = manager[u]
      BY <1>1 DEF Signed
    <3>1. Arrive(h, [Idle EXCEPT !.pc = "find", !.user = u, !.other = m])
      BY <2>2, <3>a DEF UploadSignature
    <3>2. "find" \in Pc /\ u \in Users
      BY DEF Pc
    <3> DEFINE x == [Idle EXCEPT !.pc = "find", !.user = u, !.other = m]
    <3>3. /\ x \in Handler /\ x.pc = "find" /\ x.user = u
          /\ x.key = NoKey /\ x.copy = NoKey /\ x.old = NoKey
      BY <3>2 DEF Handler, NoKey, Idle
    <3> QED
      BY <3>1, <3>3 DEF Arrive
  <2> QED
    BY <2>1, <2>2
<1>3. PICK pc \in {"write", "find"}, x \in Handler :
        /\ handlers' = [handlers EXCEPT ![h] = x]
        /\ x.pc = pc /\ x.user = u /\ x.key = NoKey /\ x.copy = NoKey /\ x.old = NoKey
  BY <1>2
<1>4. handlers' = [handlers EXCEPT ![h] = x] /\ handlers'[h] = x
  BY <1>1, <1>2, <1>3 DEF Signed
<1>5. UNCHANGED <<users, hierarchy, drawings>> /\ faults' = faults /\ faults \in Nat /\ lastKey \in Nat
  BY <1>1 DEF UploadSignature, TypeOK
<1>6. Sound(h)'
  BY <1>3, <1>4, <1>5 DEF Sound, Typed, Claims, Walking, NoKey, drawings
<1> QED
  BY <1>3, <1>4, <1>5, <1>6, QuietStep DEF Claims, Walking, drawings

LEMMA FindPendingStep ==
  ASSUME UsersInv, NEW h \in Handlers, FindPending(h)
  PROVE  UsersInv'
<1>1. Signed /\ TypeOK /\ Sound(h) /\ At(h, "find")
  BY DEF UsersInv, FindPending
<1>2. UNCHANGED <<users, hierarchy, signature, requests, files, lastKey>> /\ faults' = faults /\ faults' \in Nat
  BY <1>1 DEF FindPending, TypeOK, drawings
<1>3. CASE Finish(h)
  BY <1>2, <1>3, FinishStep
<1>4. CASE Goto(h, "write")
  <2>1. PICK x \in Handler :
          /\ x = [handlers[h] EXCEPT !.pc = "write"] /\ x.pc = "write"
          /\ x.user = handlers[h].user /\ x.other = handlers[h].other /\ x.key = handlers[h].key
          /\ x.copy = handlers[h].copy /\ x.old = handlers[h].old
    <3>1. handlers[h] \in Handler /\ "write" \in Pc
      BY <1>1 DEF Signed, Pc
    <3> QED
      BY <3>1, Goes
  <2>2. handlers' = [handlers EXCEPT ![h] = x] /\ handlers'[h] = x
    BY <1>1, <1>4, <2>1 DEF Goto, Signed
  <2>3. Sound(h)'
    BY <1>1, <1>2, <2>1, <2>2 DEF Sound, Typed, Claims, Walking, At
  <2> QED
    BY <1>2, <2>1, <2>2, <2>3, QuietStep DEF Claims, Walking
<1> QED
  BY <1>3, <1>4 DEF FindPending

LEMMA WriteFileStep ==
  ASSUME UsersInv, NEW h \in Handlers, WriteFile(h)
  PROVE  UsersInv'
<1> DEFINE n == lastKey + 1
           y == handlers[h]
<1>1. Signed /\ TypeOK /\ Kept /\ Sound(h) /\ y.pc = "write" /\ lastKey \in Nat
  BY KeysBounded DEF UsersInv, WriteFile, At
<1>2. /\ UNCHANGED <<users, hierarchy, signature, requests, faults>>
      /\ lastKey' = n /\ files' = files \cup {<<Folder(y), n>>}
  BY DEF WriteFile
<1> DEFINE pc == IF y.other = Nobody THEN "activate" ELSE "create"
           x == [y EXCEPT !.pc = pc, !.key = n]
<1>3. /\ x \in Handler /\ x.pc = pc /\ x.key = n
      /\ x.user = y.user /\ x.copy = y.copy /\ x.old = y.old
  <2>1. y \in Handler /\ n \in Nat /\ pc \in Pc
    BY <1>1 DEF Signed, Pc
  <2> HIDE DEF y, n, pc
  <2> QED
    BY <2>1 DEF Handler
<1>b. /\ x.pc \in {"activate", "create"}
      /\ x.pc = "activate" => Folder(y) = "users"
      /\ x.pc = "create" => Folder(y) = "requests"
  <2>1. x.pc = pc
    BY <1>3
  <2> HIDE DEF x
  <2> QED
    BY <2>1 DEF Folder
<1>c. handlers' = [handlers EXCEPT ![h] = x]
  BY DEF WriteFile
<1> HIDE DEF x
<1>4. handlers' = [handlers EXCEPT ![h] = x] /\ handlers'[h] = x
      /\ \A g \in Handlers : g # h => handlers'[g] = handlers[g]
  BY <1>1, <1>c DEF Signed
<1>5. \A g \in Handlers : /\ handlers[g].key # n
                          /\ ~Claims(handlers[g], n)
  <2> SUFFICES ASSUME NEW g \in Handlers
               PROVE  handlers[g].key # n /\ ~Claims(handlers[g], n)
    OBVIOUS
  <2>1. /\ handlers[g].key \in Nat /\ handlers[g].key <= lastKey
        /\ Claims(handlers[g], n) => n \in Nat /\ n <= lastKey
    BY KeysBounded
  <2> QED
    BY <1>1, <2>1
<1>6. n # NoKey /\ n \in Nat /\ (\A u \in Users : signature[u] # n) /\ \A r \in requests : r.key # n
  <2>1. \A u \in Users : signature[u] \in Nat /\ signature[u] <= lastKey
    BY <1>1 DEF Kept, Signed
  <2>2. \A r \in requests : r.key \in Nat /\ r.key <= lastKey
    BY <1>1 DEF Kept, TypeOK, Keys
  <2> QED
    BY <1>1, <2>1, <2>2 DEF NoKey
<1>7. Drawn(h, x)
  <2>1. \A k : Claims(x, k) => k \in Nat /\ k > lastKey
    BY <1>1, <1>3, <1>b DEF Claims
  <2> QED
    BY <1>1, <1>2, <1>3, <1>4, <2>1 DEF Drawn
<1>8. Kept'
  <2>1. DrawingsExist'
    BY <1>1, <1>2 DEF Kept, DrawingsExist
  <2>2. \A u \in Users : signature[u] \in Nat
    BY <1>1 DEF Signed
  <2>3. \A r \in requests : r.key \in Nat
    BY <1>1 DEF TypeOK, Keys
  <2> QED
    BY <1>1, <1>2, <2>1, <2>2, <2>3 DEF Kept
<1>9. Sound(h)'
  <2>1. Typed(handlers[h])'
    BY <1>1, <1>2, <1>3, <1>4, <1>b DEF Sound, Typed, Walking, Handler
  <2>2. x.pc = "activate" =>
          /\ <<"users", n>> \in files'
          /\ \A u \in Users : signature'[u] # n
          /\ \A g \in Handlers : Claims(handlers'[g], n) => g = h
    BY <1>2, <1>4, <1>5, <1>6, <1>b
  <2>3. x.pc = "create" =>
          /\ <<"requests", n>> \in files'
          /\ \A r \in requests' : r.key # n
          /\ \A g \in Handlers : g # h => handlers'[g].key # n
    BY <1>2, <1>4, <1>5, <1>6, <1>b
  <2>4. \A k : Claims(x, k) => x.pc = "activate" /\ k = n
    BY <1>3, <1>b DEF Claims
  <2> HIDE DEF n, y
  <2> QED
    BY <1>3, <1>4, <1>6, <1>b, <2>1, <2>2, <2>3, <2>4 DEF Sound, Claims
<1>10. files' \subseteq {"users", "requests"} \X Keys
  BY <1>1, <1>2, <1>6 DEF TypeOK, Folder, Keys
<1>11. signature' \in [Users -> Nat] /\ \A u \in Users \ users : signature'[u] = NoKey
  BY <1>1, <1>2 DEF Signed, TypeOK
<1>12. x.pc \notin Walking
  BY <1>b DEF Walking
<1> QED
  BY <1>1, <1>2, <1>3, <1>7, <1>8, <1>9, <1>10, <1>11, <1>12, DrawingStep DEF TypeOK, hierarchy

LEMMA ActivateStep ==
  ASSUME UsersInv, NEW h \in Handlers, Activate(h)
  PROVE  UsersInv'
<1> DEFINE y == handlers[h]
<1>1. Signed /\ TypeOK /\ Kept /\ Sound(h) /\ y.pc = "activate"
  BY DEF UsersInv, Activate, At
<1>2. UNCHANGED <<users, hierarchy, requests, files, lastKey, faults>> /\ Finish(h)
  BY DEF Activate
<1>3. CASE y.user \notin users
  <2>1. signature' = signature
    BY <1>3 DEF Activate
  <2> QED
    BY <1>1, <1>2, <2>1, FinishStep DEF TypeOK
<1>4. CASE y.user \in users
  <2>1. signature' = [signature EXCEPT ![y.user] = y.key]
    BY <1>4 DEF Activate
  <2>2. /\ Claims(y, y.key) /\ y.key # NoKey /\ <<"users", y.key>> \in files
        /\ \A u \in Users : signature[u] # y.key
        /\ y.key \in Nat /\ y.key <= lastKey
    BY <1>1, KeysBounded DEF Sound, Claims
  <2>3. /\ signature' \in [Users -> Nat]
        /\ \A u \in Users : signature'[u] = IF u = y.user THEN y.key ELSE signature[u]
    BY <1>1, <2>1, <2>2 DEF Signed
  <2>4. Idle \in Handler /\ Idle.pc \notin Walking /\ Idle.key = NoKey /\ \A k : ~Claims(Idle, k)
    BY IdleTyped DEF Walking, Claims
  <2>5. handlers' = [handlers EXCEPT ![h] = Idle] /\ handlers'[h] = Idle
    BY <1>1, <1>2 DEF Finish, Signed
  <2>6. Drawn(h, Idle)
    BY <1>1, <1>2, <2>2, <2>3, <2>4, <2>5 DEF Drawn, TypeOK
  <2>7. Kept'
    BY <1>1, <1>2, <2>2, <2>3 DEF Kept, DrawingsExist, TypeOK
  <2>8. Sound(h)'
    BY <2>5, IdleSound
  <2>9. \A u \in Users \ users : signature'[u] = NoKey
    BY <1>1, <1>4, <2>3 DEF TypeOK
  <2> HIDE DEF y
  <2> QED
    BY <1>1, <1>2, <2>3, <2>4, <2>6, <2>7, <2>8, <2>9, DrawingStep DEF TypeOK, hierarchy
<1> QED
  BY <1>3, <1>4

\* Where a request goes on with what it has.
LEMMA GoesOn ==
  ASSUME UsersInv, NEW h \in Handlers, NEW pc \in Pc, Goto(h, pc)
  PROVE  \E x \in Handler :
           /\ handlers' = [handlers EXCEPT ![h] = x] /\ handlers'[h] = x
           /\ \A g \in Handlers : g # h => handlers'[g] = handlers[g]
           /\ x.pc = pc /\ x.user = handlers[h].user /\ x.other = handlers[h].other
           /\ x.key = handlers[h].key /\ x.copy = handlers[h].copy /\ x.old = handlers[h].old
<1>1. Signed /\ handlers[h] \in Handler
  BY DEF UsersInv, Signed
<1>2. PICK x \in Handler :
        /\ x = [handlers[h] EXCEPT !.pc = pc] /\ x.pc = pc
        /\ x.user = handlers[h].user /\ x.other = handlers[h].other
        /\ x.key = handlers[h].key /\ x.copy = handlers[h].copy /\ x.old = handlers[h].old
  <2> DEFINE x == [handlers[h] EXCEPT !.pc = pc]
  <2>1. /\ x \in Handler /\ x.pc = pc
        /\ x.user = handlers[h].user /\ x.other = handlers[h].other
        /\ x.key = handlers[h].key /\ x.copy = handlers[h].copy /\ x.old = handlers[h].old
    BY <1>1 DEF Handler
  <2> QED
    BY <2>1
<1> QED
  BY <1>1, <1>2 DEF Goto, Signed

LEMMA CreateRequestStep ==
  ASSUME UsersInv, NEW h \in Handlers, CreateRequest(h)
  PROVE  UsersInv'
<1> DEFINE y == handlers[h]
           row == [key |-> y.key, requester |-> y.user, reviewer |-> y.other, status |-> "PENDING"]
<1>1. Signed /\ TypeOK /\ Kept /\ Sound(h) /\ y.pc = "create"
  BY DEF UsersInv, CreateRequest, At
<1>2. UNCHANGED <<users, hierarchy, signature, files, lastKey, faults>> /\ faults' \in Nat
  BY <1>1 DEF CreateRequest, TypeOK
<1>3. CASE ~({y.user, y.other} \subseteq users)
  <2>1. requests' = requests /\ Finish(h)
    BY <1>3 DEF CreateRequest
  <2> QED
    BY <1>2, <2>1, FinishStep
<1>4. CASE {y.user, y.other} \subseteq users
  <2>1. requests' = requests \cup {row} /\ Goto(h, "tellReviewer") /\ "tellReviewer" \in Pc
    BY <1>4 DEF CreateRequest, Pc
  <2>2. PICK x \in Handler :
          /\ handlers' = [handlers EXCEPT ![h] = x] /\ handlers'[h] = x
          /\ \A g \in Handlers : g # h => handlers'[g] = handlers[g]
          /\ x.pc = "tellReviewer" /\ x.user = y.user /\ x.other = y.other
          /\ x.key = y.key /\ x.copy = y.copy /\ x.old = y.old
    BY <2>1, GoesOn
  <2>3. y.key # NoKey /\ <<"requests", y.key>> \in files /\ y.key \in Nat /\ y.key <= lastKey /\ lastKey \in Nat
    BY <1>1, KeysBounded DEF Sound
  <2>4. \A k : ~Claims(x, k)
    BY <2>2 DEF Claims
  <2>5. Drawn(h, x)
    BY <1>1, <1>2, <2>1, <2>2, <2>3, <2>4 DEF Drawn
  <2>6. Kept'
    <3>1. row.key = y.key /\ \A r \in requests : r.key # y.key
      BY <1>1 DEF Sound
    <3>2. \A r, o \in requests' : r.key = o.key => r = o
      BY <1>1, <2>1, <3>1 DEF Kept
    <3>3. \A r \in requests' : r.key <= lastKey
      BY <1>1, <2>1, <2>3, <3>1 DEF Kept
    <3>4. DrawingsExist'
      BY <1>1, <1>2, <2>1, <2>3, <3>1 DEF Kept, DrawingsExist
    <3> HIDE DEF row, y
    <3> QED
      BY <1>1, <1>2, <3>2, <3>3, <3>4 DEF Kept
  <2>7. Sound(h)'
    BY <1>1, <1>2, <2>2, <2>4 DEF Sound, Typed, Walking
  <2>8. requests' \subseteq [key : Keys, requester : users, reviewer : users,
                             status : {"PENDING", "APPROVED", "REJECTED"}]
    BY <1>1, <1>4, <2>1, <2>3 DEF TypeOK, Keys
  <2>9. signature' \in [Users -> Nat] /\ (\A u \in Users \ users : signature'[u] = NoKey) /\ x.pc \notin Walking
    BY <1>1, <1>2, <2>2 DEF Signed, TypeOK, Walking
  <2> HIDE DEF y
  <2> QED
    BY <1>1, <1>2, <2>5, <2>6, <2>7, <2>8, <2>9, DrawingStep DEF TypeOK, hierarchy
<1> QED
  BY <1>3, <1>4

LEMMA TellReviewerStep ==
  ASSUME UsersInv, NEW h \in Handlers, TellReviewer(h)
  PROVE  UsersInv'
BY FinishStep DEF TellReviewer, UsersInv, TypeOK

-----------------------------------------------------------------------------
(* The steps of a review. *)

LEMMA ReviewStep ==
  ASSUME UsersInv, NEW h \in Handlers, NEW r \in requests, NEW approved \in BOOLEAN,
         Review(h, r, approved)
  PROVE  UsersInv'
<1> DEFINE x == [Idle EXCEPT !.pc = IF approved THEN "read" ELSE "reject",
                             !.user = r.requester, !.other = r.reviewer, !.key = r.key]
<1>1. Signed /\ TypeOK /\ Kept
  BY DEF UsersInv
<1>2. /\ r.requester \in Users /\ r.reviewer \in Users /\ r.key \in Nat /\ r.key <= lastKey
      /\ UNCHANGED <<users, hierarchy, drawings, faults>> /\ lastKey \in Nat
  BY <1>1 DEF Review, TypeOK, Keys, Kept
<1>3. /\ x \in Handler /\ x.pc \in {"read", "reject"} /\ x.user = r.requester /\ x.key = r.key
      /\ x.copy = NoKey /\ x.old = NoKey
  BY <1>2 DEF Idle, Handler, Pc, NoKey
<1>4. handlers' = [handlers EXCEPT ![h] = x]
  BY DEF Review, Arrive
<1> HIDE DEF x
<1>5. handlers'[h] = x /\ \A k : ~Claims(x, k)
  BY <1>1, <1>3, <1>4 DEF Signed, Claims
<1>6. \A o \in requests : o.key = r.key => o.requester = r.requester
  BY <1>1 DEF Kept
<1>7. Sound(h)'
  BY <1>2, <1>3, <1>5, <1>6 DEF Sound, Typed, Walking, NoKey, drawings
<1> QED
  BY <1>1, <1>2, <1>3, <1>4, <1>5, <1>7, QuietStep DEF Walking, drawings, TypeOK

LEMMA ReadDrawingStep ==
  ASSUME UsersInv, NEW h \in Handlers, ReadDrawing(h)
  PROVE  UsersInv'
<1>1. Signed /\ TypeOK /\ Sound(h) /\ handlers[h].pc = "read" /\ "copy" \in Pc
  BY DEF UsersInv, ReadDrawing, At, Pc
<1>2. UNCHANGED <<users, hierarchy, signature, requests, files, lastKey>> /\ faults' = faults /\ faults' \in Nat
  BY <1>1 DEF ReadDrawing, TypeOK, drawings
<1>3. CASE Finish(h)
  BY <1>2, <1>3, FinishStep
<1>4. CASE Goto(h, "copy")
  <2>1. PICK x \in Handler :
          /\ handlers' = [handlers EXCEPT ![h] = x] /\ handlers'[h] = x
          /\ \A g \in Handlers : g # h => handlers'[g] = handlers[g]
          /\ x.pc = "copy" /\ x.user = handlers[h].user /\ x.other = handlers[h].other
          /\ x.key = handlers[h].key /\ x.copy = handlers[h].copy /\ x.old = handlers[h].old
    BY <1>1, <1>4, GoesOn
  <2>2. \A k : ~Claims(x, k)
    BY <2>1 DEF Claims
  <2>3. Sound(h)'
    BY <1>1, <1>2, <2>1, <2>2 DEF Sound, Typed, Walking
  <2> QED
    BY <1>2, <2>1, <2>2, <2>3, QuietStep DEF Walking
<1> QED
  BY <1>3, <1>4 DEF ReadDrawing

LEMMA WriteCopyStep ==
  ASSUME UsersInv, NEW h \in Handlers, WriteCopy(h)
  PROVE  UsersInv'
<1> DEFINE n == lastKey + 1
           y == handlers[h]
           x == [y EXCEPT !.pc = "old", !.copy = n]
<1>1. Signed /\ TypeOK /\ Kept /\ Sound(h) /\ y.pc = "copy" /\ lastKey \in Nat
  BY KeysBounded DEF UsersInv, WriteCopy, At
<1>2. /\ UNCHANGED <<users, hierarchy, signature, requests, faults>>
      /\ lastKey' = n /\ files' = files \cup {<<"users", n>>}
  BY DEF WriteCopy
<1>3. /\ x \in Handler /\ x.pc = "old" /\ x.copy = n
      /\ x.user = y.user /\ x.key = y.key /\ x.old = y.old
  <2>1. y \in Handler /\ n \in Nat /\ "old" \in Pc
    BY <1>1 DEF Signed, Pc
  <2> HIDE DEF y, n
  <2> QED
    BY <2>1 DEF Handler
<1>4. handlers' = [handlers EXCEPT ![h] = x]
  BY DEF WriteCopy
<1> HIDE DEF x
<1>5. handlers'[h] = x /\ \A g \in Handlers : g # h => handlers'[g] = handlers[g]
  BY <1>1, <1>4 DEF Signed
<1>6. \A g \in Handlers : ~Claims(handlers[g], n)
  <2> SUFFICES ASSUME NEW g \in Handlers
               PROVE  ~Claims(handlers[g], n)
    OBVIOUS
  <2>1. Claims(handlers[g], n) => n \in Nat /\ n <= lastKey
    BY KeysBounded
  <2> QED
    BY <1>1, <2>1
<1>7. n # NoKey /\ n \in Nat /\ \A u \in Users : signature[u] # n
  <2>1. \A u \in Users : signature[u] \in Nat /\ signature[u] <= lastKey
    BY <1>1 DEF Kept, Signed
  <2> QED
    BY <1>1, <2>1 DEF NoKey
<1>8. Drawn(h, x)
  <2>1. \A k : Claims(x, k) => k \in Nat /\ k > lastKey
    BY <1>1, <1>3 DEF Claims
  <2> QED
    BY <1>1, <1>2, <1>3, <1>4, <2>1 DEF Drawn
<1>9. Kept'
  <2>1. DrawingsExist'
    BY <1>1, <1>2 DEF Kept, DrawingsExist
  <2>2. (\A u \in Users : signature[u] \in Nat) /\ \A r \in requests : r.key \in Nat
    BY <1>1 DEF Signed, TypeOK, Keys
  <2> QED
    BY <1>1, <1>2, <2>1, <2>2 DEF Kept
<1>10. Sound(h)'
  <2>1. Typed(handlers[h])'
    BY <1>1, <1>2, <1>3, <1>5 DEF Sound, Typed, Walking, Handler
  <2>2. /\ <<"users", n>> \in files'
        /\ \A u \in Users : signature'[u] # n
        /\ \A g \in Handlers : Claims(handlers'[g], n) => g = h
    BY <1>2, <1>5, <1>6, <1>7
  <2>3. \A k : Claims(x, k) => k = n
    BY <1>3 DEF Claims
  <2>4. \A r \in requests' : r.key = x.key => r.requester = x.user
    BY <1>1, <1>2, <1>3 DEF Sound
  <2> HIDE DEF n, y
  <2> QED
    BY <1>3, <1>5, <1>7, <2>1, <2>2, <2>3, <2>4 DEF Sound, Claims
<1>11. files' \subseteq {"users", "requests"} \X Keys
  BY <1>1, <1>2, <1>7 DEF TypeOK, Keys
<1>12. signature' \in [Users -> Nat] /\ (\A u \in Users \ users : signature'[u] = NoKey) /\ x.pc \notin Walking
  BY <1>1, <1>2, <1>3 DEF Signed, TypeOK, Walking
<1> QED
  BY <1>1, <1>2, <1>3, <1>8, <1>9, <1>10, <1>11, <1>12, DrawingStep DEF TypeOK, hierarchy

LEMMA ReadOldStep ==
  ASSUME UsersInv, NEW h \in Handlers, ReadOld(h)
  PROVE  UsersInv'
<1> DEFINE y == handlers[h]
           x == [y EXCEPT !.pc = "approve", !.old = signature[y.user]]
<1>1. Signed /\ TypeOK /\ Kept /\ Sound(h) /\ y.pc = "old" /\ lastKey \in Nat
  BY KeysBounded DEF UsersInv, ReadOld, At
<1>2. UNCHANGED <<users, hierarchy, drawings, faults>> /\ faults' \in Nat
  BY <1>1 DEF ReadOld, TypeOK
<1>3. y \in Handler /\ y.user \in Users /\ signature[y.user] \in Nat /\ signature[y.user] <= lastKey
  BY <1>1 DEF Signed, Sound, Typed, Walking, Kept
<1>4. /\ x \in Handler /\ x.pc = "approve" /\ x.old = signature[y.user]
      /\ x.user = y.user /\ x.key = y.key /\ x.copy = y.copy
  <2>1. "approve" \in Pc
    BY DEF Pc
  <2> HIDE DEF y
  <2> QED
    BY <1>3, <2>1 DEF Handler
<1>5. handlers' = [handlers EXCEPT ![h] = x]
  BY DEF ReadOld
<1> HIDE DEF x
<1>6. handlers'[h] = x /\ \A g \in Handlers : g # h => handlers'[g] = handlers[g]
  BY <1>1, <1>5 DEF Signed
<1>7. \A k : Claims(x, k) <=> Claims(y, k)
  BY <1>1, <1>4 DEF Claims
<1>8. Sound(h)'
  <2>1. Typed(handlers[h])'
    BY <1>1, <1>2, <1>3, <1>4, <1>6 DEF Sound, Typed, Walking, Handler, drawings
  <2>2. \A k : Claims(x, k) =>
          /\ k # NoKey /\ <<"users", k>> \in files'
          /\ \A u \in Users : signature'[u] # k
          /\ \A g \in Handlers : Claims(handlers'[g], k) => g = h
    BY <1>1, <1>2, <1>6, <1>7 DEF Sound, drawings
  <2>3. x.old # NoKey => /\ \A g \in Handlers : ~Claims(handlers'[g], x.old)
                         /\ \A u \in Users : u # x.user => signature'[u] # x.old
    <3>1. \A g \in Handlers : ~Claims(handlers[g], signature[y.user])
      BY <1>3, UsersInv DEF UsersInv, Sound
    <3>2. \A g \in Handlers : ~Claims(handlers'[g], x.old)
      BY <1>4, <1>6, <1>7, <3>1
    <3>3. signature[y.user] # NoKey => \A u \in Users : u # y.user => signature[u] # signature[y.user]
      BY <1>1, <1>3 DEF Kept
    <3> QED
      BY <1>2, <1>4, <3>2, <3>3 DEF drawings
  <2>4. \A r \in requests' : r.key = x.key => r.requester = x.user
    BY <1>1, <1>2, <1>4 DEF Sound, drawings
  <2> HIDE DEF y
  <2> QED
    BY <1>4, <1>6, <2>1, <2>2, <2>3, <2>4 DEF Sound, Claims
<1> QED
  BY <1>2, <1>4, <1>5, <1>7, <1>8, QuietStep DEF Walking, drawings

\* What a verdict does to the rows.
LEMMA Verdicts ==
  ASSUME UsersInv, NEW key \in Nat, NEW status \in {"APPROVED", "REJECTED"},
         requests' = WithStatus(key, status), users' = users, lastKey' = lastKey
  PROVE  /\ requests' \subseteq [key : Keys, requester : users, reviewer : users,
                                 status : {"PENDING", "APPROVED", "REJECTED"}]
         /\ \A r \in requests' :
              /\ \E o \in requests : /\ o.key = r.key /\ o.requester = r.requester
                                     /\ r.status = "PENDING" => o = r
              /\ r.key = key => r.status = status
         /\ \A r, o \in requests' : r.key = o.key => r = o
<1>1. TypeOK /\ Kept
  BY DEF UsersInv
<1>2. \A r \in requests : r.key = key =>
        /\ [r EXCEPT !.status = status]
             \in [key : Keys, requester : users, reviewer : users,
                  status : {"PENDING", "APPROVED", "REJECTED"}]
        /\ [r EXCEPT !.status = status].key = key
        /\ [r EXCEPT !.status = status].requester = r.requester
        /\ [r EXCEPT !.status = status].status = status
  BY <1>1 DEF TypeOK
<1>3. ASSUME NEW r \in requests'
      PROVE  \/ r \in requests /\ r.key # key
             \/ \E o \in requests : o.key = key /\ r = [o EXCEPT !.status = status]
  BY DEF WithStatus, Row
<1>4. ASSUME NEW r \in requests'
      PROVE  /\ r \in [key : Keys, requester : users, reviewer : users,
                       status : {"PENDING", "APPROVED", "REJECTED"}]
             /\ \E o \in requests : /\ o.key = r.key /\ o.requester = r.requester
                                    /\ r.status = "PENDING" => o = r
             /\ r.key = key => r.status = status
  <2>1. CASE r \in requests /\ r.key # key
    BY <1>1, <2>1 DEF TypeOK
  <2>2. CASE \E o \in requests : o.key = key /\ r = [o EXCEPT !.status = status]
    BY <1>2, <2>2
  <2> QED
    BY <1>3, <2>1, <2>2
<1>5. ASSUME NEW r \in requests', NEW o \in requests', r.key = o.key
      PROVE  r = o
  <2>1. CASE r.key = key
    <3>1. PICK a \in requests : a.key = key /\ r = [a EXCEPT !.status = status]
      BY <1>3, <2>1
    <3>2. PICK b \in requests : b.key = key /\ o = [b EXCEPT !.status = status]
      BY <1>3, <1>5, <2>1
    <3>3. a = b
      BY <1>1, <3>1, <3>2 DEF Kept
    <3> QED
      BY <3>1, <3>2, <3>3
  <2>2. CASE r.key # key
    <3>1. r \in requests
      BY <1>2, <1>3, <2>2
    <3>2. o \in requests
      BY <1>2, <1>3, <1>5, <2>2
    <3> QED
      BY <1>1, <1>5, <3>1, <3>2 DEF Kept
  <2> QED
    BY <2>1, <2>2
<1> QED
  BY <1>4, <1>5

LEMMA ApproveStep ==
  ASSUME UsersInv, NEW h \in Handlers, Approve(h)
  PROVE  UsersInv'
<1> DEFINE y == handlers[h]
<1>1. Signed /\ TypeOK /\ Kept /\ Sound(h) /\ y.pc = "approve" /\ y.key \in Nat /\ lastKey \in Nat
  BY KeysBounded DEF UsersInv, Approve, At
<1>2. UNCHANGED <<users, hierarchy, files, lastKey, faults>> /\ faults' \in Nat
  BY <1>1 DEF Approve, TypeOK
<1>3. CASE Row(y.key) = {}
  <2>1. Finish(h) /\ UNCHANGED <<signature, requests>>
    BY <1>3 DEF Approve
  <2> QED
    BY <1>2, <2>1, FinishStep
<1>4. CASE Row(y.key) # {}
  <2>1. /\ signature' = [signature EXCEPT ![y.user] = y.copy]
        /\ requests' = WithStatus(y.key, "APPROVED")
        /\ Goto(h, "deleteDrawing") /\ "deleteDrawing" \in Pc
    BY <1>4 DEF Approve, Pc
  <2>2. PICK x \in Handler :
          /\ handlers' = [handlers EXCEPT ![h] = x] /\ handlers'[h] = x
          /\ \A g \in Handlers : g # h => handlers'[g] = handlers[g]
          /\ x.pc = "deleteDrawing" /\ x.user = y.user /\ x.other = y.other
          /\ x.key = y.key /\ x.copy = y.copy /\ x.old = y.old
    BY <2>1, GoesOn
  <2>3. /\ requests' \subseteq [key : Keys, requester : users, reviewer : users,
                                status : {"PENDING", "APPROVED", "REJECTED"}]
        /\ \A r \in requests' :
             /\ \E o \in requests : /\ o.key = r.key /\ o.requester = r.requester
                                    /\ r.status = "PENDING" => o = r
             /\ r.key = y.key => r.status = "APPROVED"
        /\ \A r, o \in requests' : r.key = o.key => r = o
    BY <1>1, <1>2, <2>1, Verdicts
  <2>4. y.user \in users
    BY <1>1, <1>4 DEF Sound, Row, TypeOK
  <2>5. /\ Claims(y, y.copy) /\ y.copy # NoKey /\ <<"users", y.copy>> \in files
        /\ \A u \in Users : signature[u] # y.copy
        /\ y.copy \in Nat /\ y.copy <= lastKey
    BY <1>1, KeysBounded DEF Sound, Claims
  <2>6. /\ signature' \in [Users -> Nat]
        /\ \A u \in Users : signature'[u] = IF u = y.user THEN y.copy ELSE signature[u]
    BY <1>1, <2>1, <2>5 DEF Signed
  <2>7. \A k : ~Claims(x, k)
    BY <2>2 DEF Claims
  <2>8. Drawn(h, x)
    <3>1. \A u \in Users : signature'[u] \in {signature[u], NoKey} \/ Claims(y, signature'[u])
      BY <2>5, <2>6
    <3> QED
      BY <1>1, <1>2, <2>2, <2>3, <2>7, <3>1 DEF Drawn
  <2>9. Kept'
    <3>1. DrawingsExist'
      BY <1>1, <1>2, <2>3, <2>4, <2>5, <2>6 DEF Kept, DrawingsExist, TypeOK
    <3>2. \A u, v \in Users : signature'[u] # NoKey /\ signature'[u] = signature'[v] => u = v
      BY <1>1, <2>5, <2>6 DEF Kept
    <3>3. \A u \in Users : signature'[u] <= lastKey'
      BY <1>1, <1>2, <2>5, <2>6 DEF Kept
    <3>4. \A r \in requests' : r.key <= lastKey'
      BY <1>1, <1>2, <2>3 DEF Kept
    <3> QED
      BY <2>3, <3>1, <3>2, <3>3, <3>4 DEF Kept
  <2>10. Sound(h)'
    <3>1. Typed(handlers[h])'
      BY <1>1, <1>2, <2>2 DEF Sound, Typed, Walking
    <3>2. x.old # NoKey => /\ \A g \in Handlers : ~Claims(handlers'[g], x.old)
                           /\ \A u \in Users : signature'[u] # x.old
      <4> SUFFICES ASSUME y.old # NoKey
                   PROVE  /\ \A g \in Handlers : ~Claims(handlers'[g], y.old)
                          /\ \A u \in Users : signature'[u] # y.old
        BY <2>2
      <4>1. /\ \A g \in Handlers : ~Claims(handlers[g], y.old)
            /\ \A u \in Users : u # y.user => signature[u] # y.old
        BY <1>1 DEF Sound
      <4>2. y.copy # y.old
        BY <2>5, <4>1
      <4> QED
        BY <2>2, <2>6, <2>7, <4>1, <4>2
    <3> HIDE DEF y
    <3> QED
      BY <2>2, <2>3, <2>7, <3>1, <3>2 DEF Sound
  <2>11. (\A u \in Users \ users : signature'[u] = NoKey) /\ x.pc \notin Walking
    BY <1>1, <2>2, <2>4, <2>6 DEF TypeOK, Walking
  <2> HIDE DEF y
  <2> QED
    BY <1>1, <1>2, <2>2, <2>3, <2>6, <2>8, <2>9, <2>10, <2>11, DrawingStep DEF TypeOK, hierarchy
<1> QED
  BY <1>3, <1>4

LEMMA RejectStep ==
  ASSUME UsersInv, NEW h \in Handlers, RejectChange(h)
  PROVE  UsersInv'
<1> DEFINE y == handlers[h]
<1>1. Signed /\ TypeOK /\ Kept /\ Sound(h) /\ y.pc = "reject" /\ y.key \in Nat /\ lastKey \in Nat
  BY KeysBounded DEF UsersInv, RejectChange, At
<1>2. UNCHANGED <<users, hierarchy, signature, files, lastKey, faults>> /\ faults' \in Nat
  BY <1>1 DEF RejectChange, TypeOK
<1>3. CASE Row(y.key) = {}
  <2>1. Finish(h) /\ requests' = requests
    BY <1>3 DEF RejectChange
  <2> QED
    BY <1>2, <2>1, FinishStep
<1>4. CASE Row(y.key) # {}
  <2>1. /\ requests' = WithStatus(y.key, "REJECTED")
        /\ Goto(h, "deleteDrawing") /\ "deleteDrawing" \in Pc
    BY <1>4 DEF RejectChange, Pc
  <2>2. PICK x \in Handler :
          /\ handlers' = [handlers EXCEPT ![h] = x] /\ handlers'[h] = x
          /\ \A g \in Handlers : g # h => handlers'[g] = handlers[g]
          /\ x.pc = "deleteDrawing" /\ x.user = y.user /\ x.other = y.other
          /\ x.key = y.key /\ x.copy = y.copy /\ x.old = y.old
    BY <2>1, GoesOn
  <2>3. /\ requests' \subseteq [key : Keys, requester : users, reviewer : users,
                                status : {"PENDING", "APPROVED", "REJECTED"}]
        /\ \A r \in requests' :
             /\ \E o \in requests : /\ o.key = r.key /\ o.requester = r.requester
                                    /\ r.status = "PENDING" => o = r
             /\ r.key = y.key => r.status = "REJECTED"
        /\ \A r, o \in requests' : r.key = o.key => r = o
    BY <1>1, <1>2, <2>1, Verdicts
  <2>4. \A k : ~Claims(x, k)
    BY <2>2 DEF Claims
  <2>5. Drawn(h, x)
    BY <1>1, <1>2, <2>2, <2>3, <2>4 DEF Drawn
  <2>6. Kept'
    BY <1>1, <1>2, <2>3 DEF Kept, DrawingsExist
  <2>7. Sound(h)'
    <3>1. Typed(handlers[h])'
      BY <1>1, <1>2, <2>2 DEF Sound, Typed, Walking
    <3>2. x.old = NoKey
      BY <1>1, <2>2 DEF Sound
    <3> HIDE DEF y
    <3> QED
      BY <2>2, <2>3, <2>4, <3>1, <3>2 DEF Sound
  <2>8. signature' \in [Users -> Nat] /\ (\A u \in Users \ users : signature'[u] = NoKey) /\ x.pc \notin Walking
    BY <1>1, <1>2, <2>2 DEF Signed, TypeOK, Walking
  <2> HIDE DEF y
  <2> QED
    BY <1>1, <1>2, <2>2, <2>3, <2>5, <2>6, <2>7, <2>8, DrawingStep DEF TypeOK, hierarchy
<1> QED
  BY <1>3, <1>4

LEMMA DeleteDrawingStep ==
  ASSUME UsersInv, NEW h \in Handlers, DeleteDrawing(h)
  PROVE  UsersInv'
<1> DEFINE y == handlers[h]
<1>1. Signed /\ TypeOK /\ Kept /\ Sound(h) /\ y.pc = "deleteDrawing" /\ lastKey \in Nat
  BY KeysBounded DEF UsersInv, DeleteDrawing, At
<1>2. /\ UNCHANGED <<users, hierarchy, signature, requests, lastKey, faults>> /\ faults' \in Nat
      /\ files' = files \ {<<"requests", y.key>>}
  BY <1>1 DEF DeleteDrawing, TypeOK
<1>3. PICK pc \in Pc : /\ pc = (IF y.old # NoKey THEN "deleteOld" ELSE "tellRequester")
                       /\ Goto(h, pc)
  BY DEF DeleteDrawing, Pc
<1>4. PICK x \in Handler :
        /\ handlers' = [handlers EXCEPT ![h] = x] /\ handlers'[h] = x
        /\ \A g \in Handlers : g # h => handlers'[g] = handlers[g]
        /\ x.pc = pc /\ x.user = y.user /\ x.other = y.other
        /\ x.key = y.key /\ x.copy = y.copy /\ x.old = y.old
  BY <1>3, GoesOn
<1>5. \A k : ~Claims(x, k) /\ ~Claims(y, k)
  BY <1>1, <1>3, <1>4 DEF Claims
<1>6. Drawn(h, x)
  BY <1>1, <1>2, <1>4, <1>5 DEF Drawn
<1>7. Kept'
  BY <1>1, <1>2 DEF Kept, DrawingsExist, Sound
<1>8. Sound(h)'
  <2>1. Typed(handlers[h])'
    BY <1>1, <1>2, <1>3, <1>4 DEF Sound, Typed, Walking
  <2>2. x.pc = "deleteOld" =>
          /\ x.old # NoKey
          /\ \A g \in Handlers : ~Claims(handlers'[g], x.old)
          /\ \A u \in Users : signature'[u] # x.old
    BY <1>1, <1>2, <1>3, <1>4, <1>5 DEF Sound
  <2>3. x.pc \in {"deleteOld", "tellRequester"}
    BY <1>3, <1>4
  <2> HIDE DEF y
  <2> QED
    BY <1>4, <1>5, <2>1, <2>2, <2>3 DEF Sound
<1>9. files' \subseteq {"users", "requests"} \X Keys
  BY <1>1, <1>2 DEF TypeOK
<1>10. signature' \in [Users -> Nat] /\ (\A u \in Users \ users : signature'[u] = NoKey) /\ x.pc \notin Walking
  BY <1>1, <1>2, <1>3, <1>4 DEF Signed, TypeOK, Walking
<1> HIDE DEF y
<1> QED
  BY <1>1, <1>2, <1>4, <1>6, <1>7, <1>8, <1>9, <1>10, DrawingStep DEF TypeOK, hierarchy

LEMMA DeleteOldStep ==
  ASSUME UsersInv, NEW h \in Handlers, DeleteOld(h)
  PROVE  UsersInv'
<1> DEFINE y == handlers[h]
<1>1. Signed /\ TypeOK /\ Kept /\ Sound(h) /\ y.pc = "deleteOld" /\ lastKey \in Nat
  BY KeysBounded DEF UsersInv, DeleteOld, At
<1>2. /\ UNCHANGED <<users, hierarchy, signature, requests, lastKey, faults>> /\ faults' \in Nat
      /\ files' = files \ {<<"users", y.old>>}
      /\ Goto(h, "tellRequester") /\ "tellRequester" \in Pc
  BY <1>1 DEF DeleteOld, TypeOK, Pc
<1>3. PICK x \in Handler :
        /\ handlers' = [handlers EXCEPT ![h] = x] /\ handlers'[h] = x
        /\ \A g \in Handlers : g # h => handlers'[g] = handlers[g]
        /\ x.pc = "tellRequester" /\ x.user = y.user /\ x.other = y.other
        /\ x.key = y.key /\ x.copy = y.copy /\ x.old = y.old
  BY <1>2, GoesOn
<1>4. \A k : ~Claims(x, k)
  BY <1>3 DEF Claims
<1>5. /\ \A g \in Handlers : ~Claims(handlers[g], y.old)
      /\ \A u \in Users : signature[u] # y.old
  BY <1>1 DEF Sound
<1>6. Drawn(h, x)
  BY <1>1, <1>2, <1>3, <1>4, <1>5 DEF Drawn
<1>7. Kept'
  BY <1>1, <1>2, <1>5 DEF Kept, DrawingsExist, TypeOK
<1>8. Sound(h)'
  <2>1. Typed(handlers[h])'
    BY <1>1, <1>2, <1>3 DEF Sound, Typed, Walking
  <2> HIDE DEF y
  <2> QED
    BY <1>3, <1>4, <2>1 DEF Sound
<1>9. files' \subseteq {"users", "requests"} \X Keys
  BY <1>1, <1>2 DEF TypeOK
<1>10. signature' \in [Users -> Nat] /\ (\A u \in Users \ users : signature'[u] = NoKey) /\ x.pc \notin Walking
  BY <1>1, <1>2, <1>3 DEF Signed, TypeOK, Walking
<1> HIDE DEF y
<1> QED
  BY <1>1, <1>2, <1>3, <1>6, <1>7, <1>8, <1>9, <1>10, DrawingStep DEF TypeOK, hierarchy

LEMMA TellRequesterStep ==
  ASSUME UsersInv, NEW h \in Handlers, TellRequester(h)
  PROVE  UsersInv'
BY FinishStep DEF TellRequester, UsersInv, TypeOK

LEMMA DieStep ==
  ASSUME UsersInv, NEW h \in Handlers, Die(h)
  PROVE  UsersInv'
BY FinishStep DEF Die, UsersInv, TypeOK, drawings

-----------------------------------------------------------------------------
(* The hierarchy. *)

\* A step of request h that changes no drawing, from what it does to managers.
LEMMA HierarchyStep ==
  ASSUME UsersInv, NEW h \in Handlers, NEW x \in Handler, handlers' = [handlers EXCEPT ![h] = x],
         UNCHANGED <<users, drawings, faults>>, Typed(x), x.pc \in Walking \cup {"idle"}, x.key = NoKey,
         manager' \in [Users -> Users \cup {Nobody}], moves' \in Nat, overlapped' \in BOOLEAN,
         \A u \in Users : manager'[u] \in (users \cup {Nobody}) \ {u},
         \A u \in Users \ users : manager'[u] = Nobody, Climbing'
  PROVE  UsersInv'
<1>1. Signed /\ TypeOK /\ Kept
  BY DEF UsersInv
<1>2. \A k : ~Claims(x, k)
  BY DEF Claims, Walking
<1>3. Drawn(h, x)
  BY <1>1, <1>2 DEF Drawn, TypeOK, drawings
<1>4. handlers'[h] = x /\ \A g \in Handlers : g # h => handlers'[g] = handlers[g]
  BY <1>1 DEF Signed
<1>5. Sound(h)'
  <2>1. Typed(handlers[h])'
    BY <1>4 DEF Typed, drawings
  <2> QED
    BY <1>2, <1>4, <2>1 DEF Sound, Walking
<1>6. Signed' /\ Kept'
  BY <1>1 DEF Signed, Kept, DrawingsExist, drawings
<1>7. TypeOK'
  <2>1. \A g \in Handlers : handlers'[g].pc \in Pc /\ handlers'[g].user \in Users \cup {Nobody}
    BY <1>6 DEF Signed, Handler
  <2> QED
    BY <1>1, <2>1 DEF TypeOK, drawings
<1>8. \A g \in Handlers : Sound(g)'
  BY <1>3, <1>5, OthersKeep
<1> QED
  BY <1>6, <1>7, <1>8 DEF UsersInv

LEMMA Managers ==
  ASSUME UsersInv, NEW u \in Users
  PROVE  ManagerOf(u) = manager[u] /\ manager[u] \in Users \cup {Nobody}
BY DEF UsersInv, TypeOK, Signed, ManagerOf

\* Where the walk goes from hd when it has come to u.
LEMMA WalkGoesOn ==
  ASSUME NEW h \in Handlers, NEW hd \in Handler, NEW u \in Users \cup {Nobody}, Climbed(h, hd, u)
  PROVE  \/ Finish(h)
         \/ /\ u # hd.user
            /\ \E x \in Handler :
                 /\ handlers' = [handlers EXCEPT ![h] = x]
                 /\ x.user = hd.user /\ x.other = hd.other /\ x.key = hd.key
                 /\ \/ u = Nobody /\ x.pc = "move"
                    \/ u # Nobody /\ x.pc = "climb" /\ x.old = u
<1>1. CASE u = hd.user
  BY <1>1 DEF Climbed
<1>2. CASE u # hd.user /\ u = Nobody
  <2> DEFINE x == [hd EXCEPT !.pc = "move"]
  <2>1. x \in Handler /\ x.user = hd.user /\ x.other = hd.other /\ x.key = hd.key /\ x.pc = "move"
    BY DEF Handler, Pc
  <2>2. handlers' = [handlers EXCEPT ![h] = x]
    BY <1>2 DEF Climbed
  <2> QED
    BY <1>2, <2>1, <2>2
<1>3. CASE u # hd.user /\ u # Nobody
  <2> DEFINE x == [hd EXCEPT !.pc = "climb", !.old = u]
  <2>1. /\ x \in Handler /\ x.user = hd.user /\ x.other = hd.other /\ x.key = hd.key
        /\ x.pc = "climb" /\ x.old = u
    BY DEF Handler, Pc
  <2>2. handlers' = [handlers EXCEPT ![h] = x]
    BY <1>3 DEF Climbed
  <2> QED
    BY <1>3, <2>1, <2>2
<1> QED
  BY <1>1, <1>2, <1>3

\* While h is the only one that walks, what it has passed is all there is to know.
LEMMA WalkKept ==
  ASSUME UsersInv, NEW h \in Handlers, NEW x \in Handler, handlers' = [handlers EXCEPT ![h] = x],
         UNCHANGED <<users, drawings, faults, manager>>, moves' \in Nat, overlapped' \in BOOLEAN,
         x.pc \in Walking, x.key = NoKey, x.user \in Users, x.other # x.user,
         x.pc = "climb" => x.other \in Users /\ x.old \in Users,
         \/ overlapped'
         \/ /\ ~overlapped /\ \A g \in Handlers : g # h => handlers[g].pc \notin Walking
            /\ x.other # Nobody => \E W \in SUBSET Users : Passed(W, x)
  PROVE  UsersInv'
<1>1. Signed /\ TypeOK /\ Climbing
  BY DEF UsersInv
<1>2. handlers'[h] = x /\ \A g \in Handlers : g # h => handlers'[g] = handlers[g]
  BY <1>1 DEF Signed
<1>3. Typed(x)
  BY DEF Typed, Walking
<1>4. Climbing'
  <2>1. CASE overlapped'
    BY <2>1 DEF Climbing
  <2>2. CASE /\ ~overlapped /\ \A g \in Handlers : g # h => handlers[g].pc \notin Walking
             /\ x.other # Nobody => \E W \in SUBSET Users : Passed(W, x)
    <3>1. IsAcyclic(manager)'
      BY <1>1, <2>2 DEF Climbing, IsAcyclic
    <3>2. \A f, g \in Handlers : handlers'[f].pc \in Walking /\ handlers'[g].pc \in Walking => f = g
      BY <1>2, <2>2
    <3>3. ASSUME NEW g \in Handlers, handlers'[g].pc \in Walking, handlers'[g].other # Nobody
          PROVE  \E W \in SUBSET Users : Passed(W, handlers[g])'
      <4>1. g = h /\ handlers'[g] = x
        BY <1>2, <2>2, <3>3
      <4>2. PICK W \in SUBSET Users : Passed(W, x)
        BY <2>2, <3>3, <4>1
      <4>3. Passed(W, handlers[g])'
        BY <4>1, <4>2 DEF Passed
      <4> QED
        BY <4>3
    <3> QED
      BY <3>1, <3>2, <3>3 DEF Climbing
  <2> QED
    BY <2>1, <2>2
<1> QED
  BY <1>1, <1>3, <1>4, HierarchyStep DEF TypeOK, Signed

LEMMA UpdateManagerStep ==
  ASSUME UsersInv, NEW h \in Handlers, NEW u \in Users, NEW m \in Users \cup {Nobody}, UpdateManager(h, u, m)
  PROVE  UsersInv'
<1> DEFINE hd == [Idle EXCEPT !.pc = "move", !.user = u, !.other = m]
<1>1. Signed /\ TypeOK /\ Climbing
  BY DEF UsersInv
<1>2. /\ UNCHANGED <<users, manager, drawings, faults>> /\ m # u /\ moves' \in Nat
      /\ overlapped' = (overlapped \/ \E g \in Handlers : handlers[g].pc \in Walking)
      /\ handlers[h] = Idle
      /\ IF m = Nobody THEN handlers' = [handlers EXCEPT ![h] = hd] ELSE Climbed(h, hd, ManagerOf(m))
  BY <1>1 DEF UpdateManager, TypeOK, Walking
<1>3. overlapped' \in BOOLEAN
  BY <1>2
<1>4. /\ hd \in Handler /\ hd.pc = "move" /\ hd.user = u /\ hd.other = m /\ hd.key = NoKey
  BY DEF Idle, Handler, Pc, NoKey
<1> HIDE DEF hd
<1>5. CASE m = Nobody
  <2>1. handlers' = [handlers EXCEPT ![h] = hd]
    BY <1>2, <1>5
  <2>2. \/ overlapped'
        \/ ~overlapped /\ \A g \in Handlers : g # h => handlers[g].pc \notin Walking
    BY <1>2
  <2> QED
    BY <1>2, <1>3, <1>4, <1>5, <2>1, <2>2, WalkKept DEF Walking
<1>6. CASE m # Nobody
  <2>1. m \in Users /\ ManagerOf(m) = manager[m] /\ manager[m] \in Users \cup {Nobody}
    BY <1>6, Managers
  <2>2. Climbed(h, hd, manager[m])
    BY <1>2, <1>6, <2>1
  <2>3. PICK n \in Users \cup {Nobody} : n = manager[m]
    BY <2>1
  <2>4. CASE Finish(h)
    <3>1. handlers' = [handlers EXCEPT ![h] = Idle] /\ Idle.pc \in Walking \cup {"idle"}
      BY <2>4, IdleTyped DEF Finish
    <3>2. Climbing'
      <4>1. \A g \in Handlers : handlers'[g] = handlers[g]
        BY <1>1, <1>2, <3>1 DEF Signed
      <4>2. CASE overlapped'
        BY <4>2 DEF Climbing
      <4>3. CASE ~overlapped'
        <5>1. ~overlapped /\ \A g \in Handlers : handlers'[g].pc \notin Walking
          BY <1>2, <4>1, <4>3
        <5>2. IsAcyclic(manager)'
          BY <1>1, <1>2, <5>1 DEF Climbing, IsAcyclic
        <5> QED
          BY <5>1, <5>2 DEF Climbing
      <4> QED
        BY <4>2, <4>3
    <3> QED
      BY <1>1, <1>2, <1>3, <3>1, <3>2, IdleTyped, HierarchyStep DEF TypeOK, Signed
  <2>5. CASE n # hd.user /\ \E x \in Handler :
               /\ handlers' = [handlers EXCEPT ![h] = x]
               /\ x.user = hd.user /\ x.other = hd.other /\ x.key = hd.key
               /\ \/ n = Nobody /\ x.pc = "move"
                  \/ n # Nobody /\ x.pc = "climb" /\ x.old = n
    <3>1. PICK x \in Handler :
            /\ handlers' = [handlers EXCEPT ![h] = x]
            /\ x.user = u /\ x.other = m /\ x.key = NoKey
            /\ \/ n = Nobody /\ x.pc = "move"
               \/ n # Nobody /\ x.pc = "climb" /\ x.old = n
      BY <1>4, <2>5
    <3>2. x.pc \in Walking
      BY <3>1 DEF Walking
    <3>3. \E W \in SUBSET Users : Passed(W, x)
      <4> DEFINE W == {m, n} \ {Nobody}
      <4>1. W \in SUBSET Users
        BY <2>1
      <4>2. Passed(W, x)
        BY <1>2, <1>4, <1>6, <2>1, <2>3, <2>5, <3>1 DEF Passed
      <4> QED
        BY <4>1, <4>2
    <3>4. \/ overlapped'
          \/ ~overlapped /\ \A g \in Handlers : g # h => handlers[g].pc \notin Walking
      BY <1>2
    <3>5. x.pc = "climb" => x.other \in Users /\ x.old \in Users
      BY <2>1, <3>1
    <3> QED
      BY <1>2, <1>3, <3>1, <3>2, <3>3, <3>4, <3>5, WalkKept
  <2> QED
    BY <1>4, <2>2, <2>3, <2>4, <2>5, WalkGoesOn
<1> QED
  BY <1>5, <1>6

LEMMA ClimbStep ==
  ASSUME UsersInv, NEW h \in Handlers, Climb(h)
  PROVE  UsersInv'
<1> DEFINE y == handlers[h]
<1>1. Signed /\ TypeOK /\ Climbing /\ Sound(h) /\ y.pc = "climb" /\ y \in Handler
  BY DEF UsersInv, Climb, At, Signed
<1>2. UNCHANGED <<users, hierarchy, drawings, faults>> /\ Climbed(h, y, ManagerOf(y.old))
  BY DEF Climb
<1>3. y.user \in Users /\ y.other # y.user /\ y.key = NoKey /\ y.other \in Users /\ y.old \in Users
  BY <1>1 DEF Sound, Typed, Walking
<1>4. PICK u \in Users \cup {Nobody} : u = manager[y.old] /\ Climbed(h, y, u)
  BY <1>2, <1>3, Managers
<1>5. CASE Finish(h)
  BY <1>1, <1>2, <1>5, FinishStep DEF TypeOK, drawings
<1>6. CASE u # y.user /\ \E x \in Handler :
             /\ handlers' = [handlers EXCEPT ![h] = x]
             /\ x.user = y.user /\ x.other = y.other /\ x.key = y.key
             /\ \/ u = Nobody /\ x.pc = "move"
                \/ u # Nobody /\ x.pc = "climb" /\ x.old = u
  <2>1. PICK x \in Handler :
          /\ handlers' = [handlers EXCEPT ![h] = x]
          /\ x.user = y.user /\ x.other = y.other /\ x.key = y.key
          /\ \/ u = Nobody /\ x.pc = "move"
             \/ u # Nobody /\ x.pc = "climb" /\ x.old = u
    BY <1>6
  <2>2. x.pc \in Walking /\ y.pc \in Walking /\ y.other # Nobody
    BY <1>1, <1>3, <2>1 DEF Walking
  <2>3. ~overlapped => \A g \in Handlers : g # h => handlers[g].pc \notin Walking
    BY <1>1, <2>2 DEF Climbing
  <2>4. ~overlapped => \E W \in SUBSET Users : Passed(W, x)
    <3> SUFFICES ASSUME ~overlapped
                 PROVE  \E W \in SUBSET Users : Passed(W, x)
      OBVIOUS
    <3>1. PICK V \in SUBSET Users : Passed(V, y)
      BY <1>1, <2>2 DEF Climbing
    <3> DEFINE W == (V \cup {u}) \ {Nobody}
    <3>2. W \in SUBSET Users
      OBVIOUS
    <3>3. x.other \in W /\ x.user \notin W /\ (x.pc = "climb" => x.old \in W)
      BY <1>3, <1>6, <2>1, <3>1 DEF Passed
    <3>4. \A v \in W : (x.pc = "climb" /\ v = x.old) \/ manager[v] \in W \cup {Nobody}
      <4> SUFFICES ASSUME NEW v \in W
                   PROVE  (x.pc = "climb" /\ v = x.old) \/ manager[v] \in W \cup {Nobody}
        OBVIOUS
      <4>1. CASE v = y.old
        BY <1>4, <4>1
      <4>2. CASE v # y.old /\ v \in V
        BY <3>1, <4>2 DEF Passed
      <4>3. CASE v \notin V
        BY <2>1, <4>3
      <4> QED
        BY <4>1, <4>2, <4>3
    <3> HIDE DEF W
    <3>5. Passed(W, x)
      BY <3>3, <3>4 DEF Passed
    <3> QED
      BY <3>2, <3>5
  <2>5. overlapped' = overlapped /\ overlapped \in BOOLEAN /\ moves' \in Nat /\ manager' = manager
    BY <1>1, <1>2 DEF TypeOK, hierarchy
  <2>6. x.pc = "climb" => x.other \in Users /\ x.old \in Users
    BY <1>3, <2>1
  <2> HIDE DEF y
  <2> QED
    BY <1>2, <1>3, <2>1, <2>2, <2>3, <2>4, <2>5, <2>6, WalkKept
<1> QED
  BY <1>1, <1>4, <1>5, <1>6, WalkGoesOn

\* The new row closes no cycle: the part of it in the chain would have been one.
LEMMA NoCycleIsClosed ==
  ASSUME NEW chart \in [Users -> Users \cup {Nobody}], IsAcyclic(chart),
         NEW u \in Users, NEW m \in Users \cup {Nobody}, NEW W \in SUBSET Users,
         m # Nobody => m \in W, u \notin W, \A v \in W : chart[v] \in W \cup {Nobody}
  PROVE  IsAcyclic([chart EXCEPT ![u] = m])
<1> DEFINE new == [chart EXCEPT ![u] = m]
<1> SUFFICES ASSUME NEW group \in SUBSET Users, group # {}
             PROVE  \E v \in group : new[v] \notin group
  BY DEF IsAcyclic
<1>1. CASE u \in group /\ m \notin group
  BY <1>1
<1>2. CASE u \notin group
  <2>1. PICK v \in group : chart[v] \notin group
    BY DEF IsAcyclic
  <2> QED
    BY <1>2, <2>1
<1>3. CASE u \in group /\ m \in group
  <2>1. m \in group \cap W
    BY <1>3
  <2>2. PICK v \in group \cap W : chart[v] \notin group \cap W
    <3>1. group \cap W \in SUBSET Users /\ group \cap W # {}
      BY <2>1
    <3> QED
      BY <3>1 DEF IsAcyclic
  <2>3. chart[v] \notin group
    BY <2>2
  <2> QED
    BY <2>2, <2>3
<1> QED
  BY <1>1, <1>2, <1>3

LEMMA MoveStep ==
  ASSUME UsersInv, NEW h \in Handlers, Move(h)
  PROVE  UsersInv'
<1> DEFINE y == handlers[h]
<1>1. Signed /\ TypeOK /\ Climbing /\ Sound(h) /\ y.pc = "move" /\ y \in Handler
  BY DEF UsersInv, Move, At, Signed
<1>2. UNCHANGED <<users, moves, overlapped, drawings, faults>> /\ Finish(h)
  BY DEF Move
<1>3. y.user \in Users /\ y.other \in Users \cup {Nobody} /\ y.other # y.user /\ y.pc \in Walking
  BY <1>1 DEF Sound, Typed, Walking, Handler
<1>4. CASE ~(y.user \in users /\ y.other \in users \cup {Nobody})
  <2>1. manager' = manager
    BY <1>4 DEF Move
  <2> QED
    BY <1>1, <1>2, <2>1, FinishStep DEF TypeOK, drawings, hierarchy
<1>5. CASE y.user \in users /\ y.other \in users \cup {Nobody}
  <2>1. manager' = [manager EXCEPT ![y.user] = y.other]
    BY <1>5 DEF Move
  <2>2. /\ manager' \in [Users -> Users \cup {Nobody}]
        /\ \A u \in Users : manager'[u] = IF u = y.user THEN y.other ELSE manager[u]
    BY <1>1, <1>3, <2>1 DEF Signed
  <2>3. /\ \A u \in Users : manager'[u] \in (users \cup {Nobody}) \ {u}
        /\ \A u \in Users \ users : manager'[u] = Nobody
    BY <1>1, <1>3, <1>5, <2>2 DEF TypeOK
  <2>4. handlers' = [handlers EXCEPT ![h] = Idle] /\ handlers'[h] = Idle
        /\ \A g \in Handlers : g # h => handlers'[g] = handlers[g]
    BY <1>1, <1>2 DEF Finish, Signed
  <2>5. Climbing'
    <3>1. CASE overlapped
      BY <1>2, <3>1 DEF Climbing
    <3>2. CASE ~overlapped
      <4>1. \A g \in Handlers : handlers'[g].pc \notin Walking
        BY <1>1, <1>3, <2>4, <3>2, IdleTyped DEF Climbing, Walking
      <4>2. PICK W \in SUBSET Users :
              /\ y.other # Nobody => y.other \in W
              /\ y.user \notin W
              /\ \A v \in W : manager[v] \in W \cup {Nobody}
        <5>1. CASE y.other = Nobody
          <6>1. {} \in SUBSET Users
            OBVIOUS
          <6> QED
            BY <5>1, <6>1
        <5>2. CASE y.other # Nobody
          BY <1>1, <1>3, <3>2, <5>2 DEF Climbing, Passed
        <5> QED
          BY <5>1, <5>2
      <4>3. IsAcyclic(manager)
        BY <1>1, <3>2 DEF Climbing
      <4>4. PICK u \in Users, m \in Users \cup {Nobody} : u = y.user /\ m = y.other
        BY <1>3
      <4>5. IsAcyclic([manager EXCEPT ![u] = m])
        BY <1>1, <4>2, <4>3, <4>4, NoCycleIsClosed DEF Signed
      <4>6. IsAcyclic(manager)'
        BY <2>1, <4>4, <4>5 DEF IsAcyclic
      <4> QED
        BY <4>1, <4>6 DEF Climbing
    <3> QED
      BY <3>1, <3>2
  <2>6. moves' \in Nat /\ overlapped' \in BOOLEAN
    BY <1>1, <1>2 DEF TypeOK
  <2> HIDE DEF y
  <2> QED
    BY <1>2, <2>2, <2>3, <2>4, <2>5, <2>6, IdleTyped, HierarchyStep
<1> QED
  BY <1>4, <1>5

LEMMA RemoveStep ==
  ASSUME UsersInv, NEW u \in users, Remove(u)
  PROVE  UsersInv'
<1>1. Signed /\ TypeOK /\ Kept /\ Climbing /\ u \in Users
  BY DEF UsersInv, TypeOK
<1>2. /\ users' = users \ {u} /\ UNCHANGED <<moves, overlapped, files, lastKey, told, handlers, faults>>
      /\ manager' = [v \in Users |-> IF v = u \/ manager[v] = u THEN Nobody ELSE manager[v]]
      /\ signature' = [signature EXCEPT ![u] = NoKey]
      /\ requests' = {r \in requests : r.requester # u /\ r.reviewer # u}
  BY DEF Remove
<1>3. /\ manager' \in [Users -> Users \cup {Nobody}]
      /\ \A v \in Users : manager'[v] = IF v = u \/ manager[v] = u THEN Nobody ELSE manager[v]
  BY <1>1, <1>2 DEF Signed
<1>4. /\ signature' \in [Users -> Nat]
      /\ \A v \in Users : signature'[v] = IF v = u THEN NoKey ELSE signature[v]
  BY <1>1, <1>2 DEF Signed, NoKey
<1>5. TypeOK'
  <2>1. requests' \subseteq [key : Keys, requester : users', reviewer : users',
                             status : {"PENDING", "APPROVED", "REJECTED"}]
    BY <1>1, <1>2 DEF TypeOK
  <2>2. \A v \in Users : manager'[v] \in (users' \cup {Nobody}) \ {v} /\ signature'[v] \in Keys \cup {NoKey}
    BY <1>1, <1>2, <1>3, <1>4 DEF TypeOK
  <2>3. \A v \in Users \ users' : manager'[v] = Nobody /\ signature'[v] = NoKey
    BY <1>1, <1>2, <1>3, <1>4 DEF TypeOK
  <2> QED
    BY <1>1, <1>2, <2>1, <2>2, <2>3 DEF TypeOK
<1>6. Signed'
  BY <1>1, <1>2, <1>3, <1>4 DEF Signed
<1>7. Kept'
  BY <1>1, <1>2, <1>4 DEF Kept, DrawingsExist, TypeOK, NoKey
<1>8. Climbing'
  <2>1. CASE overlapped
    BY <1>2, <2>1 DEF Climbing
  <2>2. CASE ~overlapped
    <3>1. IsAcyclic(manager')
      <4> SUFFICES ASSUME NEW group \in SUBSET Users, group # {}
                   PROVE  \E v \in group : manager'[v] \notin group
        BY DEF IsAcyclic
      <4>1. PICK v \in group : manager[v] \notin group
        BY <1>1, <2>2 DEF Climbing, IsAcyclic
      <4> QED
        BY <1>3, <4>1
    <3>2. \A g, h \in Handlers : handlers[g].pc \in Walking /\ handlers[h].pc \in Walking => g = h
      BY <1>1, <2>2 DEF Climbing
    <3>3. ASSUME NEW h \in Handlers, handlers[h].pc \in Walking, handlers[h].other # Nobody
          PROVE  \E W \in SUBSET Users : Passed(W, handlers[h])'
      <4>1. PICK W \in SUBSET Users : Passed(W, handlers[h])
        BY <1>1, <2>2, <3>3 DEF Climbing
      <4>2. Passed(W, handlers[h])'
        BY <1>2, <1>3, <4>1 DEF Passed
      <4> QED
        BY <4>2
    <3>4. IsAcyclic(manager)'
      BY <3>1 DEF IsAcyclic
    <3> QED
      BY <1>2, <3>2, <3>3, <3>4 DEF Climbing
  <2> QED
    BY <2>1, <2>2
<1>9. \A h \in Handlers : Sound(h)'
  <2> SUFFICES ASSUME NEW h \in Handlers
               PROVE  Sound(h)'
    OBVIOUS
  <2>1. Sound(h)
    BY DEF UsersInv
  <2>2. Typed(handlers[h])'
    BY <1>2, <2>1 DEF Sound, Typed
  <2>3. requests' \subseteq requests
    BY <1>2
  <2>4. \A v \in Users : signature'[v] \in {signature[v], NoKey}
    BY <1>4
  <2> QED
    BY <1>2, <2>1, <2>2, <2>3, <2>4 DEF Sound, Claims
<1> QED
  BY <1>5, <1>6, <1>7, <1>8, <1>9 DEF UsersInv

-----------------------------------------------------------------------------
(* Theorems. *)

LEMMA NextUsers == UsersInv /\ [Next]_vars => UsersInv'
<1> SUFFICES ASSUME UsersInv, [Next]_vars PROVE UsersInv'
  OBVIOUS
<1>1. CASE UNCHANGED vars
  <2>1. UNCHANGED <<users, manager, moves, overlapped, signature, requests, files, lastKey, told, handlers, faults>>
    BY <1>1 DEF vars, hierarchy, drawings
  <2>2. TypeOK' /\ Signed' /\ Kept' /\ Climbing'
    BY <2>1 DEF UsersInv, TypeOK, Signed, Kept, DrawingsExist, Climbing, IsAcyclic, Passed
  <2>3. \A h \in Handlers : Sound(h)'
    BY <2>1 DEF UsersInv, Sound, Typed, Claims
  <2> QED
    BY <2>2, <2>3 DEF UsersInv
<1>2. CASE \E u \in Leavers : Remove(u)
  BY <1>2, RemoveStep DEF Remove
<1>3. CASE \E h \in Handlers :
             \/ \E u \in Users, m \in Users \cup {Nobody} : UpdateManager(h, u, m)
             \/ \E u \in Signers : UploadSignature(h, u)
             \/ \E r \in requests, approved \in BOOLEAN : Review(h, r, approved)
             \/ Progress(h)
             \/ Die(h)
  <2>1. PICK h \in Handlers :
             \/ \E u \in Users, m \in Users \cup {Nobody} : UpdateManager(h, u, m)
             \/ \E u \in Signers : UploadSignature(h, u)
             \/ \E r \in requests, approved \in BOOLEAN : Review(h, r, approved)
             \/ Progress(h)
             \/ Die(h)
    BY <1>3
  <2>2. CASE Progress(h)
    BY <2>2, ClimbStep, MoveStep, FindPendingStep, WriteFileStep, ActivateStep, CreateRequestStep,
       TellReviewerStep, ReadDrawingStep, WriteCopyStep, ReadOldStep, ApproveStep, RejectStep,
       DeleteDrawingStep, DeleteOldStep, TellRequesterStep DEF Progress
  <2>3. CASE Die(h)
    BY <2>3, DieStep
  <2>4. CASE \E r \in requests, approved \in BOOLEAN : Review(h, r, approved)
    BY <2>4, ReviewStep
  <2>5. CASE \E u \in Signers : UploadSignature(h, u)
    BY <2>5, UploadStep
  <2>6. CASE \E u \in Users, m \in Users \cup {Nobody} : UpdateManager(h, u, m)
    BY <2>6, UpdateManagerStep
  <2> QED
    BY <2>1, <2>2, <2>3, <2>4, <2>5, <2>6
<1> QED
  BY <1>1, <1>2, <1>3 DEF Next

LEMMA AlwaysUsers == Spec => []UsersInv
BY InitUsers, NextUsers, PTL DEF Spec

\* Only users that exist have managers, signatures and requests, whatever rows the
\* removals take with them while uploads, reviews and changes are under way.
THEOREM UserTypes == Spec => []TypeOK
BY AlwaysUsers, PTL DEF UsersInv

\* No interleaving of uploads and reviews, nor the death of any of them, deletes the
\* drawing of a signature in force or of a request that waits for its reviewer.
THEOREM DrawingsAreKept == Spec => []DrawingsExist
BY AlwaysUsers, PTL DEF UsersInv, Kept

\* Changes of managers that do not overlap never close a cycle, although each writes
\* after it has looked.
THEOREM CyclesNeedTwo == Spec => []CyclesNeedOverlap
BY AlwaysUsers, PTL DEF UsersInv, Climbing, CyclesNeedOverlap

-----------------------------------------------------------------------------
(* Who has to be told.  Behind every request row stands a message that was  *)
(* sent, a handler that is going to send it, or one that died before it had *)
(* sent it; a verdict that is overwritten takes its message with it.        *)

\* x is going to tell the reviewer of r about r.
Asks(x, r) == x.pc = "tellReviewer" /\ x.key = r.key /\ x.other = r.reviewer

Verdict(x) == IF x.copy # NoKey THEN "APPROVED" ELSE "REJECTED"

\* x is going to tell the requester of r the verdict that r carries.
Answers(x, r) ==
  /\ x.pc \in {"deleteDrawing", "deleteOld", "tellRequester"}
  /\ x.key = r.key /\ x.user = r.requester /\ Verdict(x) = r.status

Asked(r) ==
  <<r.reviewer, r.key, "REQUESTED">> \in told \/ \E h \in Handlers : Asks(handlers[h], r)

Answered(r) == r.status # "PENDING" =>
  <<r.requester, r.key, r.status>> \in told \/ \E h \in Handlers : Answers(handlers[h], r)

\* The requests that died have cost no more messages than there are faults.
Lost(L) ==
  /\ L \subseteq Nat /\ IsFiniteSet(L) /\ Cardinality(L) <= faults
  /\ \A r \in requests : r.key \in L \/ (Asked(r) /\ Answered(r))

\* A rejection copies no drawing, which tells its verdict from an approval.
Rejecting == \A h \in Handlers : handlers[h].pc = "reject" => handlers[h].copy = NoKey

ToldInv == Rejecting /\ \E L : Lost(L)

LEMMA InitTold == Init => ToldInv
<1> SUFFICES ASSUME Init PROVE ToldInv
  OBVIOUS
<1>1. Lost({})
  BY FS_EmptySet DEF Init, Lost
<1>2. Rejecting
  BY DEF Init, Rejecting, Idle
<1> QED
  BY <1>1, <1>2 DEF ToldInv

\* As long as nobody dies, each row has its messages, or had them under its key.
LEMMA MessagesKept ==
  ASSUME ToldInv, faults' = faults, Rejecting',
         \A r \in requests' :
           \/ Asked(r)' /\ Answered(r)'
           \/ \E o \in requests : /\ o.key = r.key
                                  /\ Asked(o) /\ Answered(o) => Asked(r)' /\ Answered(r)'
  PROVE  ToldInv'
<1>1. PICK L : Lost(L)
  BY DEF ToldInv
<1>2. Lost(L)'
  BY <1>1 DEF Lost
<1> QED
  BY <1>2 DEF ToldInv

\* What h was going to say it has said, or is still going to say.
LEMMA MessagesStay ==
  ASSUME NEW h \in Handlers, told \subseteq told', \A g \in Handlers : g # h => handlers'[g] = handlers[g],
         NEW r,
         Asks(handlers[h], r) => Asks(handlers'[h], r) \/ <<r.reviewer, r.key, "REQUESTED">> \in told',
         Answers(handlers[h], r) => Answers(handlers'[h], r) \/ <<r.requester, r.key, r.status>> \in told'
  PROVE  /\ Asked(r) => Asked(r)'
         /\ Answered(r) => Answered(r)'
<1>1. Asked(r) => Asked(r)'
  <2>1. ASSUME NEW g \in Handlers, Asks(handlers[g], r) PROVE Asked(r)'
    <3>1. CASE g = h
      BY <2>1, <3>1 DEF Asked
    <3>2. CASE g # h
      BY <2>1, <3>2 DEF Asked
    <3> QED
      BY <3>1, <3>2
  <2> QED
    BY <2>1 DEF Asked
<1>2. Answered(r) => Answered(r)'
  <2>1. ASSUME NEW g \in Handlers, Answers(handlers[g], r) PROVE Answered(r)'
    <3>1. CASE g = h
      BY <2>1, <3>1 DEF Answered
    <3>2. CASE g # h
      BY <2>1, <3>2 DEF Answered
    <3> QED
      BY <3>1, <3>2
  <2> QED
    BY <2>1 DEF Answered
<1> QED
  BY <1>1, <1>2

LEMMA HandlersFramed ==
  ASSUME UsersInv, NEW h \in Handlers, NEW x, handlers' = [handlers EXCEPT ![h] = x]
  PROVE  handlers'[h] = x /\ \A g \in Handlers : g # h => handlers'[g] = handlers[g]
BY DEF UsersInv, Signed

\* A step of a handler that has nothing to say.
LEMMA SilentStep ==
  ASSUME UsersInv, ToldInv, NEW h \in Handlers, NEW x, handlers' = [handlers EXCEPT ![h] = x],
         told' = told, requests' \subseteq requests, faults' = faults,
         handlers[h].pc \notin {"tellReviewer", "deleteDrawing", "deleteOld", "tellRequester"},
         x.pc = "reject" => x.copy = NoKey
  PROVE  ToldInv'
<1>1. handlers'[h] = x /\ \A g \in Handlers : g # h => handlers'[g] = handlers[g]
  BY HandlersFramed
<1>2. Rejecting'
  BY <1>1 DEF ToldInv, Rejecting
<1>3. ASSUME NEW r \in requests' PROVE (Asked(r) => Asked(r)') /\ (Answered(r) => Answered(r)')
  BY <1>1, MessagesStay DEF Asks, Answers
<1> QED
  BY <1>2, <1>3, MessagesKept

LEMMA QuietTold ==
  ASSUME UsersInv, ToldInv, NEW h \in Handlers,
         \/ Climb(h) \/ Move(h) \/ FindPending(h) \/ WriteFile(h) \/ Activate(h)
         \/ ReadDrawing(h) \/ WriteCopy(h) \/ ReadOld(h)
         \/ \E u \in Users, m \in Users \cup {Nobody} : UpdateManager(h, u, m)
         \/ \E u \in Signers : UploadSignature(h, u)
         \/ \E r \in requests, approved \in BOOLEAN : Review(h, r, approved)
  PROVE  ToldInv'
<1>1. told' = told /\ requests' = requests /\ faults' = faults
  BY DEF Climb, Move, FindPending, WriteFile, Activate, ReadDrawing, WriteCopy, ReadOld,
         UpdateManager, UploadSignature, Review, drawings
<1>2. handlers[h].pc \notin {"tellReviewer", "deleteDrawing", "deleteOld", "tellRequester"}
  <2>1. CASE \/ Climb(h) \/ Move(h) \/ FindPending(h) \/ WriteFile(h) \/ Activate(h)
             \/ ReadDrawing(h) \/ WriteCopy(h) \/ ReadOld(h)
    BY <2>1 DEF Climb, Move, FindPending, WriteFile, Activate, ReadDrawing, WriteCopy, ReadOld, At
  <2>2. CASE \/ \E u \in Users, m \in Users \cup {Nobody} : UpdateManager(h, u, m)
             \/ \E u \in Signers : UploadSignature(h, u)
             \/ \E r \in requests, approved \in BOOLEAN : Review(h, r, approved)
    <3>1. handlers[h] = Idle
      BY <2>2 DEF UpdateManager, UploadSignature, Review, Arrive
    <3> QED
      BY <3>1 DEF Idle
  <2> QED
    BY <2>1, <2>2
<1>3. handlers[h] \in Handler
  BY DEF UsersInv, Signed
<1>4. ASSUME NEW x, handlers' = [handlers EXCEPT ![h] = x], x.pc = "reject" => x.copy = NoKey
      PROVE  ToldInv'
  BY <1>1, <1>2, <1>4, SilentStep
<1>5. ASSUME Finish(h) PROVE ToldInv'
  BY <1>4, <1>5, IdleTyped DEF Finish
<1>6. ASSUME NEW pc, pc # "reject", Goto(h, pc) PROVE ToldInv'
  <2>1. PICK x : x = [handlers[h] EXCEPT !.pc = pc]
    OBVIOUS
  <2>2. x.pc = pc
    BY <1>3, <2>1 DEF Handler
  <2> QED
    BY <1>4, <1>6, <2>1, <2>2 DEF Goto
<1>7. ASSUME NEW hd \in Handler, NEW u, hd.pc # "reject", Climbed(h, hd, u) PROVE ToldInv'
  <2>1. PICK x : x = IF u = Nobody THEN [hd EXCEPT !.pc = "move"] ELSE [hd EXCEPT !.pc = "climb", !.old = u]
    OBVIOUS
  <2>2. x.pc # "reject"
    BY <2>1 DEF Handler
  <2>3. Finish(h) \/ handlers' = [handlers EXCEPT ![h] = x]
    BY <1>7, <2>1 DEF Climbed
  <2> QED
    BY <1>4, <1>5, <2>2, <2>3
<1>8. CASE Climb(h)
  BY <1>3, <1>7, <1>8 DEF Climb, At
<1>9. CASE Move(h) \/ Activate(h)
  BY <1>5, <1>9 DEF Move, Activate
<1>10. CASE FindPending(h) \/ ReadDrawing(h)
  BY <1>5, <1>6, <1>10 DEF FindPending, ReadDrawing
<1>11. CASE WriteFile(h)
  <2>1. PICK pc \in {"activate", "create"} :
          handlers' = [handlers EXCEPT ![h] = [handlers[h] EXCEPT !.pc = pc, !.key = lastKey + 1]]
    BY <1>11 DEF WriteFile
  <2>2. PICK x : x = [handlers[h] EXCEPT !.pc = pc, !.key = lastKey + 1]
    OBVIOUS
  <2>3. x.pc # "reject"
    BY <1>3, <2>1, <2>2 DEF Handler
  <2> QED
    BY <1>4, <2>1, <2>2, <2>3
<1>12. CASE WriteCopy(h)
  <2>1. PICK x : x = [handlers[h] EXCEPT !.pc = "old", !.copy = lastKey + 1]
    OBVIOUS
  <2>2. x.pc # "reject"
    BY <1>3, <2>1 DEF Handler
  <2>3. handlers' = [handlers EXCEPT ![h] = x]
    BY <1>12, <2>1 DEF WriteCopy
  <2> QED
    BY <1>4, <2>2, <2>3
<1>13. CASE ReadOld(h)
  <2>1. PICK x : x = [handlers[h] EXCEPT !.pc = "approve", !.old = signature[handlers[h].user]]
    OBVIOUS
  <2>2. x.pc # "reject"
    BY <1>3, <2>1 DEF Handler
  <2>3. handlers' = [handlers EXCEPT ![h] = x]
    BY <1>13, <2>1 DEF ReadOld
  <2> QED
    BY <1>4, <2>2, <2>3
<1>14. ASSUME NEW u \in Users, NEW m \in Users \cup {Nobody}, UpdateManager(h, u, m) PROVE ToldInv'
  <2>1. PICK hd : hd = [Idle EXCEPT !.pc = "move", !.user = u, !.other = m]
    OBVIOUS
  <2>2. hd \in Handler /\ hd.pc = "move"
    BY <2>1 DEF Idle, Handler, Pc, NoKey
  <2>3. handlers' = [handlers EXCEPT ![h] = hd] \/ Climbed(h, hd, ManagerOf(m))
    BY <1>14, <2>1 DEF UpdateManager
  <2> QED
    BY <1>4, <1>7, <2>2, <2>3
<1>15. ASSUME NEW u \in Signers, UploadSignature(h, u) PROVE ToldInv'
  <2>1. PICK x \in {[Idle EXCEPT !.pc = "write", !.user = u],
                    [Idle EXCEPT !.pc = "find", !.user = u, !.other = manager[u]]} :
          handlers' = [handlers EXCEPT ![h] = x]
    BY <1>15 DEF UploadSignature, Arrive
  <2>2. x.pc # "reject"
    BY <2>1 DEF Idle
  <2> QED
    BY <1>4, <2>1, <2>2
<1>16. ASSUME NEW r \in requests, NEW approved \in BOOLEAN, Review(h, r, approved) PROVE ToldInv'
  <2>1. PICK x : x = [Idle EXCEPT !.pc = IF approved THEN "read" ELSE "reject",
                            !.user = r.requester, !.other = r.reviewer, !.key = r.key]
    OBVIOUS
  <2>2. x.copy = NoKey
    BY <2>1 DEF Idle
  <2>3. handlers' = [handlers EXCEPT ![h] = x]
    BY <1>16, <2>1 DEF Review, Arrive
  <2> QED
    BY <1>4, <2>2, <2>3
<1> QED
  BY <1>8, <1>9, <1>10, <1>11, <1>12, <1>13, <1>14, <1>15, <1>16

LEMMA RemoveTold ==
  ASSUME ToldInv, NEW u, Remove(u)
  PROVE  ToldInv'
<1>1. told' = told /\ handlers' = handlers /\ faults' = faults /\ requests' \subseteq requests
  BY DEF Remove
<1>2. \A r : Asked(r)' = Asked(r) /\ Answered(r)' = Answered(r)
  BY <1>1 DEF Asked, Answered
<1>3. Rejecting'
  BY <1>1 DEF ToldInv, Rejecting
<1> QED
  BY <1>1, <1>2, <1>3, MessagesKept

LEMMA CreateTold ==
  ASSUME UsersInv, ToldInv, NEW h \in Handlers, CreateRequest(h)
  PROVE  ToldInv'
<1> DEFINE y == handlers[h]
<1>0. told' = told /\ faults' = faults /\ y.pc = "create"
  BY DEF CreateRequest, At
<1>1. CASE Finish(h) /\ requests' = requests
  BY <1>0, <1>1, SilentStep DEF Finish, Idle
<1>2. CASE Goto(h, "tellReviewer") /\ requests' = requests \cup {[key |-> y.key, requester |-> y.user,
                                                     reviewer |-> y.other, status |-> "PENDING"]}
  <2>1. PICK x \in Handler :
          /\ handlers' = [handlers EXCEPT ![h] = x] /\ handlers'[h] = x
          /\ \A g \in Handlers : g # h => handlers'[g] = handlers[g]
          /\ x.pc = "tellReviewer" /\ x.user = y.user /\ x.other = y.other
          /\ x.key = y.key /\ x.copy = y.copy /\ x.old = y.old
    BY <1>2, GoesOn DEF Pc
  <2>2. Rejecting'
    BY <2>1 DEF ToldInv, Rejecting
  <2>3. ASSUME NEW r \in requests PROVE (Asked(r) => Asked(r)') /\ (Answered(r) => Answered(r)')
    BY <1>0, <2>1, MessagesStay DEF Asks, Answers
  <2>4. ASSUME NEW r, r = [key |-> y.key, requester |-> y.user, reviewer |-> y.other, status |-> "PENDING"]
        PROVE  Asked(r)' /\ Answered(r)'
    <3>1. Asks(handlers'[h], r)
      BY <2>1, <2>4 DEF Asks
    <3> QED
      BY <2>4, <3>1 DEF Asked, Answered
  <2> HIDE DEF y
  <2> QED
    BY <1>0, <1>2, <2>2, <2>3, <2>4, MessagesKept
<1> QED
  BY <1>1, <1>2 DEF CreateRequest

\* The two messages.
LEMMA TellTold ==
  ASSUME UsersInv, ToldInv, NEW h \in Handlers, TellReviewer(h) \/ TellRequester(h)
  PROVE  ToldInv'
<1>1. requests' = requests /\ faults' = faults /\ handlers' = [handlers EXCEPT ![h] = Idle] /\ told \subseteq told'
  BY DEF TellReviewer, TellRequester, Finish
<1>2. handlers'[h] = Idle /\ \A g \in Handlers : g # h => handlers'[g] = handlers[g]
  BY <1>1, HandlersFramed
<1>3. Rejecting'
  BY <1>2 DEF ToldInv, Rejecting, Idle
<1>4. ASSUME NEW r \in requests, Asks(handlers[h], r) PROVE <<r.reviewer, r.key, "REQUESTED">> \in told'
  BY <1>4 DEF Asks, TellReviewer, TellRequester, At
<1>5. ASSUME NEW r \in requests, Answers(handlers[h], r)
      PROVE Answers(handlers'[h], r) \/ <<r.requester, r.key, r.status>> \in told'
  BY <1>5 DEF Answers, Verdict, TellReviewer, TellRequester, At
<1>6. ASSUME NEW r \in requests PROVE (Asked(r) => Asked(r)') /\ (Answered(r) => Answered(r)')
  BY <1>1, <1>2, <1>4, <1>5, MessagesStay
<1> QED
  BY <1>1, <1>3, <1>6, MessagesKept

\* The files of the old drawings go before the requester is told.
LEMMA DeleteTold ==
  ASSUME UsersInv, ToldInv, NEW h \in Handlers, DeleteDrawing(h) \/ DeleteOld(h)
  PROVE  ToldInv'
<1> DEFINE y == handlers[h]
<1>1. requests' = requests /\ faults' = faults /\ told' = told /\ y.pc \in {"deleteDrawing", "deleteOld"}
  BY DEF DeleteDrawing, DeleteOld, At
<1>2. PICK pc \in {"deleteOld", "tellRequester"} : Goto(h, pc)
  BY DEF DeleteDrawing, DeleteOld
<1>3. PICK x \in Handler :
        /\ handlers' = [handlers EXCEPT ![h] = x] /\ handlers'[h] = x
        /\ \A g \in Handlers : g # h => handlers'[g] = handlers[g]
        /\ x.pc = pc /\ x.user = y.user /\ x.other = y.other
        /\ x.key = y.key /\ x.copy = y.copy /\ x.old = y.old
  BY <1>2, GoesOn DEF Pc
<1>4. Rejecting'
  BY <1>2, <1>3 DEF ToldInv, Rejecting
<1>5. ASSUME NEW r \in requests PROVE (Asked(r) => Asked(r)') /\ (Answered(r) => Answered(r)')
  <2>1. ~Asks(y, r)
    BY <1>1 DEF Asks
  <2>2. Answers(y, r) => Answers(x, r)
    BY <1>2, <1>3 DEF Answers, Verdict
  <2> QED
    BY <1>1, <1>3, <2>1, <2>2, MessagesStay
<1> QED
  BY <1>1, <1>4, <1>5, MessagesKept

\* A verdict is written into the row by the handler that will tell it.
LEMMA VerdictTold ==
  ASSUME UsersInv, ToldInv, NEW h \in Handlers, Approve(h) \/ RejectChange(h)
  PROVE  ToldInv'
<1> DEFINE y == handlers[h]
<1>0. told' = told /\ faults' = faults /\ y.pc \in {"approve", "reject"} /\ y.key \in Nat
  BY DEF Approve, RejectChange, At, UsersInv, Signed, Handler
<1>1. CASE Finish(h) /\ requests' = requests
  BY <1>0, <1>1, SilentStep DEF Finish, Idle
<1>2. CASE Goto(h, "deleteDrawing") /\ requests' = WithStatus(y.key, Verdict(y))
  <2>1. PICK x \in Handler :
          /\ handlers' = [handlers EXCEPT ![h] = x] /\ handlers'[h] = x
          /\ \A g \in Handlers : g # h => handlers'[g] = handlers[g]
          /\ x.pc = "deleteDrawing" /\ x.user = y.user /\ x.other = y.other
          /\ x.key = y.key /\ x.copy = y.copy /\ x.old = y.old
    BY <1>2, GoesOn DEF Pc
  <2>2. Rejecting'
    BY <2>1 DEF ToldInv, Rejecting
  <2>3. ASSUME NEW r \in requests PROVE (Asked(r) => Asked(r)') /\ (Answered(r) => Answered(r)')
    BY <1>0, <2>1, MessagesStay DEF Asks, Answers
  <2>4. ASSUME NEW r \in requests', r \notin requests
        PROVE  \E o \in requests : /\ o.key = r.key
                                   /\ Asked(o) /\ Answered(o) => Asked(r)' /\ Answered(r)'
    <3>1. PICK o \in requests : o.key = y.key /\ r = [o EXCEPT !.status = Verdict(y)]
      BY <1>2, <2>4 DEF WithStatus, Row
    <3>2. r.key = o.key /\ r.reviewer = o.reviewer /\ r.requester = o.requester /\ r.status = Verdict(y)
      BY <3>1 DEF UsersInv, TypeOK
    <3>3. o.requester = y.user
      BY <1>0, <3>1 DEF UsersInv, Sound
    <3>4. Answers(handlers'[h], r)
      BY <2>1, <3>1, <3>2, <3>3 DEF Answers, Verdict
    <3>5. Answered(r)'
      BY <3>4 DEF Answered
    <3>6. Asked(o)' => Asked(r)'
      BY <3>2 DEF Asked, Asks
    <3> HIDE DEF y
    <3> QED
      BY <2>3, <3>2, <3>5, <3>6
  <2> HIDE DEF y
  <2> QED
    BY <1>0, <2>2, <2>3, <2>4, MessagesKept
<1>3. CASE Approve(h)
  <2>1. y.copy # NoKey
    BY <1>3 DEF Approve, At, UsersInv, Sound, Claims
  <2> QED
    BY <1>1, <1>2, <1>3, <2>1 DEF Approve, Verdict
<1>4. CASE RejectChange(h)
  <2>1. y.copy = NoKey
    BY <1>4 DEF RejectChange, At, ToldInv, Rejecting
  <2> QED
    BY <1>1, <1>2, <1>4, <2>1 DEF RejectChange, Verdict
<1> QED
  BY <1>3, <1>4

\* A death costs the messages of one row at most.
LEMMA DieTold ==
  ASSUME UsersInv, ToldInv, NEW h \in Handlers, Die(h)
  PROVE  ToldInv'
<1>1. told' = told /\ requests' = requests /\ faults' = faults + 1 /\ faults \in Nat
      /\ handlers' = [handlers EXCEPT ![h] = Idle]
  BY DEF Die, Finish, drawings, UsersInv, TypeOK
<1>2. handlers'[h] = Idle /\ \A g \in Handlers : g # h => handlers'[g] = handlers[g]
  BY <1>1, HandlersFramed
<1>3. Rejecting'
  BY <1>2 DEF ToldInv, Rejecting, Idle
<1>4. PICK L : Lost(L)
  BY DEF ToldInv
<1>5. PICK M : M = L \cup {handlers[h].key}
  OBVIOUS
<1>6. IsFiniteSet(M) /\ Cardinality(M) <= faults'
  <2>1. IsFiniteSet(L) /\ Cardinality(L) <= faults
    BY <1>4 DEF Lost
  <2>2. Cardinality(L) \in Nat
    BY <2>1, FS_CardinalityType
  <2>3. IsFiniteSet(M) /\ (Cardinality(M) = Cardinality(L) \/ Cardinality(M) = Cardinality(L) + 1)
    BY <1>5, <2>1, FS_AddElement
  <2> QED
    BY <1>1, <2>1, <2>2, <2>3
<1>7. M \subseteq Nat
  BY <1>4, <1>5 DEF Lost, UsersInv, Signed, Handler
<1>8. ASSUME NEW r \in requests, r.key \notin M PROVE Asked(r)' /\ Answered(r)'
  <2>1. Asked(r) /\ Answered(r) /\ r.key # handlers[h].key
    BY <1>4, <1>5, <1>8 DEF Lost
  <2>2. ~Asks(handlers[h], r) /\ ~Answers(handlers[h], r)
    BY <2>1 DEF Asks, Answers
  <2> QED
    BY <1>1, <1>2, <2>1, <2>2, MessagesStay
<1>9. Lost(M)'
  BY <1>1, <1>6, <1>7, <1>8 DEF Lost
<1> QED
  BY <1>3, <1>9 DEF ToldInv

LEMMA NextTold == UsersInv /\ ToldInv /\ [Next]_vars => ToldInv'
<1> SUFFICES ASSUME UsersInv, ToldInv, [Next]_vars PROVE ToldInv'
  OBVIOUS
<1>1. CASE UNCHANGED vars
  <2>1. UNCHANGED <<requests, told, handlers, faults>>
    BY <1>1 DEF vars, drawings
  <2> QED
    BY <2>1 DEF ToldInv, Rejecting, Lost, Asked, Answered
<1>2. CASE \E u \in Leavers : Remove(u)
  BY <1>2, RemoveTold
<1>3. ASSUME NEW h \in Handlers,
             \/ \E u \in Users, m \in Users \cup {Nobody} : UpdateManager(h, u, m)
             \/ \E u \in Signers : UploadSignature(h, u)
             \/ \E r \in requests, approved \in BOOLEAN : Review(h, r, approved)
             \/ Progress(h)
             \/ Die(h)
      PROVE ToldInv'
  BY <1>3, QuietTold, CreateTold, TellTold, DeleteTold, VerdictTold, DieTold DEF Progress
<1> QED
  BY <1>1, <1>2, <1>3 DEF Next

\* Whatever managers change and whatever verdicts race, a change of signature is
\* silent to its reviewer or to its requester only if the request that was to speak
\* died, for every number of users, requests at once and deaths.
THEOREM SignatureNews == Spec => []BothAreTold
<1>1. UsersInv /\ ToldInv => BothAreTold
  <2> SUFFICES ASSUME UsersInv, ToldInv PROVE BothAreTold
    OBVIOUS
  <2> DEFINE untold == {r \in requests : ~Heard(r) /\ ~ \E h \in Handlers : handlers[h].key = r.key}
  <2>1. PICK L : Lost(L)
    BY DEF ToldInv
  <2>2. ASSUME NEW r \in untold PROVE r.key \in L
    <3>1. r \in requests /\ ~Heard(r) /\ \A h \in Handlers : ~Asks(handlers[h], r) /\ ~Answers(handlers[h], r)
      BY DEF Asks, Answers
    <3>2. ~(Asked(r) /\ Answered(r))
      BY <3>1 DEF Asked, Answered, Heard
    <3> QED
      BY <2>1, <3>1, <3>2 DEF Lost
  <2>3. \A r, o \in untold : r.key = o.key => r = o
    BY DEF UsersInv, Kept
  <2> HIDE DEF untold
  <2>4. PICK f : f = [r \in untold |-> r.key]
    OBVIOUS
  <2>5. f \in Injection(untold, L)
    BY <2>2, <2>3, <2>4 DEF Injection, IsInjective
  <2>6. IsFiniteSet(L) /\ Cardinality(L) \in Nat /\ Cardinality(L) <= faults /\ faults \in Nat
    BY <2>1, FS_CardinalityType DEF Lost, UsersInv, TypeOK
  <2>7. IsFiniteSet(untold) /\ Cardinality(untold) <= Cardinality(L)
    BY <2>5, <2>6, FS_Injection
  <2>8. Cardinality(untold) \in Nat
    BY <2>7, FS_CardinalityType
  <2> QED
    BY <2>6, <2>7, <2>8 DEF BothAreTold, untold
<1>2. Spec => []ToldInv
  BY InitTold, NextTold, AlwaysUsers, PTL DEF Spec
<1> QED
  BY <1>1, <1>2, AlwaysUsers, PTL
=============================================================================
