---------------------------- MODULE RepairsProofs ----------------------------
(***************************************************************************)
(* What Repairs promises, for any number of users, cases, photos and       *)
(* changes.  Typed, the base of the rest, says that what a request holds   *)
(* between two awaits still exists when it goes on: cases are not deleted. *)
(* The effect of every action is stated once, as a lemma (XDoes), and each *)
(* invariant is then one argument about the requests in flight:            *)
(*   HistoryInv  the status a request has read is REGISTERED or was set by *)
(*               an entry of the log, and the log only grows;              *)
(*   ToldInv     the technician of a case has been told, or the request    *)
(*               that assigned him is about to, unless one has died;       *)
(*   PhotosInv   a photo has one holder: the request that carries it, the  *)
(*               log, or nobody any more.                                  *)
(* SlaAgreesWithCase is inductive as it stands.                            *)
(***************************************************************************)
EXTENDS Repairs, SequenceTheorems, TLAPS

USE RepairsAssumption

LEMMA SeqUpdate ==
  ASSUME NEW S, NEW s \in Seq(S), NEW i \in DOMAIN s, NEW e \in S
  PROVE  LET t == [s EXCEPT ![i] = e] IN
         /\ t \in Seq(S) /\ Len(t) = Len(s) /\ DOMAIN t = DOMAIN s /\ t[i] = e
         /\ \A j \in DOMAIN s : j # i => t[j] = s[j]
  BY ExceptSeq

LEMMA SeqAppend ==
  ASSUME NEW S, NEW s \in Seq(S), NEW e \in S
  PROVE  LET t == Append(s, e) IN
         /\ t \in Seq(S) /\ Len(t) = Len(s) + 1 /\ t[Len(s) + 1] = e
         /\ DOMAIN s = 1 .. Len(s) /\ DOMAIN t = 1 .. Len(s) + 1 /\ Len(s) \in Nat
         /\ \A j \in DOMAIN s : t[j] = s[j]
  BY AppendProperties

LEMMA RequestFields ==
  ASSUME NEW r \in Request
  PROVE  /\ r.pc \in {"idle", "create", "tell", "write", "commit"}
         /\ r.pc = "idle" <=> r = Idle
         /\ r.pc = "create" => r.number \in Nat /\ r.due \in Time
         /\ r.pc = "tell" => r.type \in NoteType /\ r.case \in Numbers /\ r.technician \in Staff
         /\ r.pc \in {"write", "commit"} =>
              /\ r.case \in Numbers /\ r.new \in Status
              /\ r.image \in Images \cup {NoImage} /\ r.read \in Case
  BY DEF Request, Idle

\* What a request holds still exists: cases are never deleted.
Sound(r, known) ==
  /\ r.pc = "create" => r.number \in Numbers
  /\ r.pc \in {"write", "commit"} => r.case \in known
  /\ r.pc = "write" => r.image # NoImage

Typed == TypeOK /\ \A u \in Staff : Sound(desk[u], DOMAIN cases)

LEMMA CaseFacts ==
  ASSUME Typed
  PROVE  /\ DOMAIN cases = 1 .. Len(cases) /\ DOMAIN log = DOMAIN cases /\ Len(cases) \in Nat
         /\ \A c \in DOMAIN cases : c \in Numbers /\ cases[c] \in Case /\ log[c] \in Seq(Entry)
         /\ \A u \in Staff : desk[u] \in Request /\ Sound(desk[u], DOMAIN cases)
  BY DEF Typed, TypeOK, Numbers

\* One request moves on, over cases that are at least those there were.
LEMMA DeskTypes ==
  ASSUME Typed, NEW u \in Staff, NEW r \in Request, desk' = [desk EXCEPT ![u] = r],
         DOMAIN cases \subseteq DOMAIN cases', Sound(r, DOMAIN cases')
  PROVE  /\ desk' \in [Staff -> Request] /\ desk'[u] = r
         /\ \A v \in Staff : v # u => desk'[v] = desk[v]
         /\ \A v \in Staff : Sound(desk'[v], DOMAIN cases')
  <1>1. /\ desk' \in [Staff -> Request] /\ desk'[u] = r
        /\ \A v \in Staff : v # u => desk'[v] = desk[v]
    BY DEF Typed, TypeOK
  <1> QED
    BY <1>1, CaseFacts DEF Sound

LEMMA ChangedTypes ==
  ASSUME Typed, NEW c \in DOMAIN cases, NEW new \in Status, NEW read \in Case
  PROVE  /\ Changed(c, new, read) \in Case
         /\ Changed(c, new, read).status = new
         /\ Changed(c, new, read).technician = cases[c].technician
         /\ Changed(c, new, read).sla = Closing(cases[c].sla, new, Changed(c, new, read).completed)
         /\ new \notin Completed => Changed(c, new, read).completed = cases[c].completed
  <1> DEFINE started == IF new = "IN_REPAIR" /\ read.started = Never THEN clock ELSE cases[c].started
             completed == IF new \in Completed /\ read.completed = Never THEN clock ELSE cases[c].completed
  <1>1. cases[c] \in Case /\ clock \in Nat
    BY CaseFacts DEF Typed, TypeOK
  <1>2. started \in Time /\ completed \in Time
    BY <1>1 DEF Case, Time
  <1>3. Closing(cases[c].sla, new, completed) \in Sla
    <2>1. cases[c].sla \in Sla
      BY <1>1 DEF Case
    <2>2. \A breached \in BOOLEAN :
            [cases[c].sla EXCEPT !.completed = completed, !.breached = breached] \in Sla
      BY <1>2, <2>1 DEF Sla
    <2>3. (completed > cases[c].sla.due) \in BOOLEAN
      OBVIOUS
    <2> QED
      BY <2>1, <2>2, <2>3 DEF Closing
  <1>4. Changed(c, new, read) = [cases[c] EXCEPT !.status = new, !.started = started,
             !.completed = completed, !.sla = Closing(cases[c].sla, new, completed)]
    BY DEF Changed
  <1> HIDE DEF started, completed
  <1>5. /\ Changed(c, new, read) \in Case /\ Changed(c, new, read).status = new
        /\ Changed(c, new, read).completed = completed
        /\ Changed(c, new, read).technician = cases[c].technician
        /\ Changed(c, new, read).sla = Closing(cases[c].sla, new, completed)
    BY <1>1, <1>2, <1>3, <1>4 DEF Case
  <1>6. new \notin Completed => completed = cases[c].completed
    BY DEF completed
  <1> QED
    BY <1>5, <1>6

-----------------------------------------------------------------------------
(* What each step does, and that it keeps the types. *)

\* The request of one user moves on to r; the others stay where they are.
Moves(u, r) == desk'[u] = r /\ \A v \in Staff : v # u => desk'[v] = desk[v]

LEMMA IdleFacts == Idle \in Request /\ Sound(Idle, DOMAIN cases) /\ Sound(Idle, DOMAIN cases')
  BY DEF Idle, Request, Sound

\* Only a request moves.
LEMMA OnlyDesk ==
  ASSUME Typed, NEW u \in Staff, NEW r \in Request, desk' = [desk EXCEPT ![u] = r], Sound(r, DOMAIN cases),
         UNCHANGED <<cases, log>>, files' \subseteq Images, abandoned' \subseteq Images,
         told' \subseteq NoteType \X Numbers \X Staff, clock' \in Nat, faults' \in Nat
  PROVE  Typed' /\ Moves(u, r)
  <1>1. Sound(r, DOMAIN cases') /\ DOMAIN cases \subseteq DOMAIN cases'
    OBVIOUS
  <1>2. /\ desk' \in [Staff -> Request] /\ \A v \in Staff : Sound(desk'[v], DOMAIN cases')
        /\ Moves(u, r)
    BY <1>1, DeskTypes DEF Moves
  <1> QED
    BY <1>2 DEF Typed, TypeOK

LEMMA RegisterDoes ==
  ASSUME Typed, NEW u \in Staff, NEW hours \in SlaHours, Register(u, hours)
  PROVE  /\ Typed' /\ \E r : Moves(u, r) /\ r.pc = "create"
         /\ desk[u] = Idle /\ UNCHANGED <<cases, log, files, abandoned, told, faults>>
  <1> DEFINE due == IF hours = 0 THEN Never ELSE clock + hours
             r == [pc |-> "create", number |-> Len(cases) + 1, due |-> due]
  <1>1. /\ desk' = [desk EXCEPT ![u] = r] /\ desk[u] = Idle /\ Len(cases) < NumCases
        /\ UNCHANGED <<cases, log, files, abandoned, told, clock, faults>>
    BY DEF Register, MayStart
  <1>2. due \in Time /\ Len(cases) \in Nat
    BY CaseFacts DEF Time, Typed, TypeOK
  <1>3. r \in Request /\ Sound(r, DOMAIN cases)
    BY <1>1, <1>2 DEF Request, Sound, Numbers
  <1> HIDE DEF r
  <1>4. Typed' /\ Moves(u, r)
    BY <1>1, <1>3, OnlyDesk DEF Typed, TypeOK
  <1>5. r.pc = "create"
    BY DEF r
  <1> QED
    BY <1>1, <1>4, <1>5

\* The case that a request inserts.
NewCase(due) ==
  [status |-> "REGISTERED", technician |-> NoOne, started |-> Never, completed |-> Never,
   sla |-> [due |-> due, completed |-> Never, breached |-> FALSE]]

LEMMA CreateCaseDoes ==
  ASSUME Typed, NEW u \in Staff, CreateCase(u)
  PROVE  /\ Typed' /\ Moves(u, Idle) /\ desk[u].pc = "create"
         /\ UNCHANGED <<files, abandoned, told, faults>>
         /\ \/ UNCHANGED <<cases, log>>
            \/ LET n == Len(cases) + 1 IN
               /\ cases'[n] = NewCase(desk[u].due) /\ log'[n] = << >>
               /\ DOMAIN cases' = DOMAIN cases \cup {n} /\ n \notin DOMAIN cases
               /\ \A c \in DOMAIN cases : cases'[c] = cases[c] /\ log'[c] = log[c]
  <1>1. /\ desk[u].pc = "create" /\ desk' = [desk EXCEPT ![u] = Idle]
        /\ UNCHANGED <<files, abandoned, told, clock, faults>>
    BY DEF CreateCase, Leave
  <1>2. CASE UNCHANGED <<cases, log>>
    BY <1>1, <1>2, IdleFacts, OnlyDesk DEF Typed, TypeOK
  <1>3. CASE /\ desk[u].number \notin DOMAIN cases
             /\ cases' = Append(cases, NewCase(desk[u].due)) /\ log' = Append(log, << >>)
    <2>1. desk[u].number \in Numbers /\ desk[u].due \in Time
      BY <1>1, CaseFacts, RequestFields DEF Sound
    <2>2. NewCase(desk[u].due) \in Case
      BY <2>1 DEF NewCase, Case, Sla, Status, Time
    <2>3. << >> \in Seq(Entry)
      OBVIOUS
    <2>4. /\ cases' \in Seq(Case) /\ Len(cases') = Len(cases) + 1
          /\ cases'[Len(cases) + 1] = NewCase(desk[u].due)
          /\ DOMAIN cases' = 1 .. Len(cases) + 1
          /\ \A c \in DOMAIN cases : cases'[c] = cases[c]
      BY <1>3, <2>2, SeqAppend DEF Typed, TypeOK
    <2>5. /\ log' \in Seq(Seq(Entry)) /\ Len(log') = Len(cases) + 1
          /\ log'[Len(cases) + 1] = << >>
          /\ \A c \in DOMAIN cases : log'[c] = log[c]
      BY <1>3, <2>3, SeqAppend, CaseFacts DEF Typed, TypeOK
    <2>6. Len(cases) + 1 <= NumCases
      BY <1>3, <2>1, CaseFacts DEF Numbers
    <2>7. /\ desk' \in [Staff -> Request] /\ \A v \in Staff : Sound(desk'[v], DOMAIN cases')
          /\ Moves(u, Idle)
      <3>1. DOMAIN cases \subseteq DOMAIN cases'
        BY <2>4, CaseFacts
      <3> QED
        BY <1>1, <3>1, IdleFacts, DeskTypes DEF Moves
    <2>8. Typed'
      BY <1>1, <2>4, <2>5, <2>6, <2>7 DEF Typed, TypeOK
    <2>9. DOMAIN cases' = DOMAIN cases \cup {Len(cases) + 1} /\ Len(cases) + 1 \notin DOMAIN cases
      BY <2>4, CaseFacts
    <2> QED
      BY <1>1, <2>4, <2>5, <2>7, <2>8, <2>9
  <1> QED
    BY <1>2, <1>3 DEF CreateCase, NewCase

\* Either way no case changes, and a case there was not is a new one.
LEMMA CreateCaseKeeps ==
  ASSUME Typed, NEW u \in Staff, CreateCase(u)
  PROVE  /\ Moves(u, Idle) /\ Idle.pc = "idle" /\ desk[u].pc = "create"
         /\ faults' = faults /\ told' = told
         /\ DOMAIN cases \subseteq DOMAIN cases'
         /\ \A c \in DOMAIN cases : cases'[c] = cases[c] /\ log'[c] = log[c]
         /\ \A c \in DOMAIN cases' \ DOMAIN cases :
              /\ cases'[c].status = "REGISTERED" /\ cases'[c].technician = NoOne
              /\ log'[c] = << >>
  <1>1. Idle.pc = "idle" /\ NewCase(desk[u].due).status = "REGISTERED"
        /\ NewCase(desk[u].due).technician = NoOne
    BY DEF Idle, NewCase
  <1>2. CASE UNCHANGED <<cases, log>>
    BY <1>1, <1>2, CreateCaseDoes
  <1>3. CASE LET n == Len(cases) + 1 IN
             /\ cases'[n] = NewCase(desk[u].due) /\ log'[n] = << >>
             /\ DOMAIN cases' = DOMAIN cases \cup {n} /\ n \notin DOMAIN cases
             /\ \A c \in DOMAIN cases : cases'[c] = cases[c] /\ log'[c] = log[c]
    <2> DEFINE n == Len(cases) + 1
    <2>1. \A c \in DOMAIN cases' \ DOMAIN cases : c = n
      BY <1>3
    <2>2. \A c \in DOMAIN cases' \ DOMAIN cases :
            cases'[c] = NewCase(desk[u].due) /\ log'[c] = << >>
      BY <1>3, <2>1
    <2>3. Moves(u, Idle) /\ desk[u].pc = "create" /\ faults' = faults /\ told' = told
      BY CreateCaseDoes
    <2> QED
      BY <1>1, <1>3, <2>2, <2>3
  <1> QED
    BY <1>2, <1>3, CreateCaseDoes

LEMMA AssignTechnicianDoes ==
  ASSUME Typed, NEW u \in Staff, NEW c \in DOMAIN cases, NEW technician \in Technicians,
         AssignTechnician(u, c, technician)
  PROVE  /\ Typed' /\ Moves(u, Telling("REPAIR_ASSIGNED", c, technician))
         /\ desk[u] = Idle /\ UNCHANGED <<log, files, abandoned, told, faults>>
         /\ DOMAIN cases' = DOMAIN cases
         /\ cases'[c].technician = technician /\ cases'[c].status = cases[c].status
         /\ cases'[c].sla = cases[c].sla /\ cases'[c].completed = cases[c].completed
         /\ \A d \in DOMAIN cases : d # c => cases'[d] = cases[d]
  <1> DEFINE r == Telling("REPAIR_ASSIGNED", c, technician)
             row == [cases[c] EXCEPT !.technician = technician]
  <1>1. /\ desk' = [desk EXCEPT ![u] = r] /\ desk[u] = Idle
        /\ cases' = [cases EXCEPT ![c] = row]
        /\ UNCHANGED <<log, files, abandoned, told, clock, faults>>
    BY CaseFacts DEF AssignTechnician, MayStart
  <1>2. /\ row \in Case /\ row.technician = technician /\ row.status = cases[c].status
        /\ row.sla = cases[c].sla /\ row.completed = cases[c].completed
    BY CaseFacts DEF Case
  <1>3. /\ cases' \in Seq(Case) /\ Len(cases') = Len(cases) /\ DOMAIN cases' = DOMAIN cases
        /\ cases'[c] = row /\ \A d \in DOMAIN cases : d # c => cases'[d] = cases[d]
    BY <1>1, <1>2, SeqUpdate DEF Typed, TypeOK
  <1>4. r \in Request /\ Sound(r, DOMAIN cases')
    BY CaseFacts DEF Telling, Request, Sound, NoteType
  <1> HIDE DEF r, row
  <1>5. /\ desk' \in [Staff -> Request] /\ \A v \in Staff : Sound(desk'[v], DOMAIN cases')
        /\ Moves(u, r)
    BY <1>1, <1>3, <1>4, DeskTypes DEF Moves
  <1>6. Typed'
    BY <1>1, <1>3, <1>5 DEF Typed, TypeOK
  <1> QED
    BY <1>1, <1>2, <1>3, <1>5, <1>6 DEF r

LEMMA TellTechnicianDoes ==
  ASSUME Typed, NEW u \in Staff, TellTechnician(u)
  PROVE  /\ Typed' /\ Moves(u, Idle) /\ desk[u].pc = "tell"
         /\ UNCHANGED <<cases, log, files, abandoned, faults>>
         /\ told' = told \cup {<<desk[u].type, desk[u].case, desk[u].technician>>}
  <1>1. /\ desk[u].pc = "tell" /\ desk' = [desk EXCEPT ![u] = Idle]
        /\ UNCHANGED <<cases, log, files, abandoned, clock, faults>>
        /\ told' = told \cup {<<desk[u].type, desk[u].case, desk[u].technician>>}
    BY DEF TellTechnician, Leave
  <1>2. told' \subseteq NoteType \X Numbers \X Staff
    BY <1>1, CaseFacts, RequestFields DEF Typed, TypeOK
  <1> QED
    BY <1>1, <1>2, IdleFacts, OnlyDesk DEF Typed, TypeOK

LEMMA ReadCaseDoes ==
  ASSUME Typed, NEW u \in Staff, NEW c \in DOMAIN cases, NEW new \in Status,
         NEW image \in Images \cup {NoImage}, ReadCase(u, c, new, image)
  PROVE  /\ Typed' /\ UNCHANGED <<cases, log, files, abandoned, told, faults>>
         /\ desk[u] = Idle /\ new \in Flow(cases[c].status) /\ image \notin Used
         /\ \E r : /\ Moves(u, r) /\ r.pc = IF image = NoImage THEN "commit" ELSE "write"
                   /\ r.case = c /\ r.new = new /\ r.image = image /\ r.read = cases[c]
  <1> DEFINE r == [pc |-> IF image = NoImage THEN "commit" ELSE "write",
                   case |-> c, new |-> new, image |-> image, read |-> cases[c]]
  <1>1. /\ desk' = [desk EXCEPT ![u] = r] /\ desk[u] = Idle
        /\ new \in Flow(cases[c].status) /\ image \notin Used
        /\ UNCHANGED <<cases, log, files, abandoned, told, clock, faults>>
    BY DEF ReadCase, MayStart, Validate
  <1>2. r \in Request /\ Sound(r, DOMAIN cases)
    BY CaseFacts DEF Request, Sound
  <1>3. /\ r.pc = IF image = NoImage THEN "commit" ELSE "write"
        /\ r.case = c /\ r.new = new /\ r.image = image /\ r.read = cases[c]
    OBVIOUS
  <1> HIDE DEF r
  <1> QED
    BY <1>1, <1>2, <1>3, OnlyDesk DEF Typed, TypeOK

LEMMA WriteImageDoes ==
  ASSUME Typed, NEW u \in Staff, WriteImage(u)
  PROVE  /\ Typed' /\ UNCHANGED <<cases, log, abandoned, told, faults>>
         /\ desk[u].pc = "write" /\ desk[u].image \in Images
         /\ files' = files \cup {desk[u].image}
         /\ \E r : /\ Moves(u, r) /\ r.pc = "commit" /\ r.case = desk[u].case
                   /\ r.new = desk[u].new /\ r.image = desk[u].image /\ r.read = desk[u].read
  <1> DEFINE r == [desk[u] EXCEPT !.pc = "commit"]
  <1>1. /\ desk[u].pc = "write" /\ desk' = [desk EXCEPT ![u] = r]
        /\ files' = files \cup {desk[u].image}
        /\ UNCHANGED <<cases, log, abandoned, told, clock, faults>>
    BY CaseFacts DEF WriteImage, Typed, TypeOK
  <1>2. /\ desk[u] \in [pc : {"write", "commit"}, case : Numbers, new : Status,
                        image : Images \cup {NoImage}, read : Case]
        /\ desk[u].image \in Images /\ desk[u].case \in DOMAIN cases
    BY <1>1, CaseFacts DEF Sound, Request, Idle
  <1>3. /\ r \in Request /\ r.pc = "commit" /\ r.case = desk[u].case
        /\ r.new = desk[u].new /\ r.image = desk[u].image /\ r.read = desk[u].read
    BY <1>2 DEF Request
  <1>4. Sound(r, DOMAIN cases)
    BY <1>2, <1>3 DEF Sound
  <1> HIDE DEF r
  <1>5. files' \subseteq Images
    BY <1>1, <1>2 DEF Typed, TypeOK
  <1> QED
    BY <1>1, <1>2, <1>3, <1>4, <1>5, OnlyDesk DEF Typed, TypeOK

LEMMA CommitDoes ==
  ASSUME Typed, NEW u \in Staff, Commit(u)
  PROVE  LET r == desk[u]  c == r.case
             entry == [old |-> r.read.status, new |-> r.new, image |-> r.image] IN
         /\ Typed' /\ r.pc = "commit" /\ c \in DOMAIN cases /\ entry \in Entry
         /\ UNCHANGED <<files, abandoned, told, faults>>
         /\ DOMAIN cases' = DOMAIN cases
         /\ cases'[c] = Changed(c, r.new, r.read) /\ log'[c] = Append(log[c], entry)
         /\ \A d \in DOMAIN cases : d # c => cases'[d] = cases[d] /\ log'[d] = log[d]
         /\ \E next : Moves(u, next) /\ next.pc \in {"idle", "tell"}
  <1> DEFINE r == desk[u]
             c == r.case
             entry == [old |-> r.read.status, new |-> r.new, image |-> r.image]
             next == IF r.read.technician \in {NoOne, u} THEN Idle
                     ELSE Telling("REPAIR_STATUS_CHANGED", c, r.read.technician)
  <1>1. /\ r.pc = "commit" /\ cases' = [cases EXCEPT ![c] = Changed(c, r.new, r.read)]
        /\ log' = [log EXCEPT ![c] = Append(log[c], entry)]
        /\ desk' = [desk EXCEPT ![u] = next]
        /\ UNCHANGED <<files, abandoned, told, clock, faults>>
    BY CaseFacts DEF Commit, Leave, Typed, TypeOK
  <1>2. /\ c \in DOMAIN cases /\ c \in Numbers /\ r.new \in Status /\ r.image \in Images \cup {NoImage}
        /\ r.read \in Case /\ r.read.status \in Status /\ r.read.technician \in Staff \cup {NoOne}
    BY <1>1, CaseFacts, RequestFields DEF Sound, Case
  <1>3. entry \in Entry
    BY <1>2 DEF Entry
  <1>4. next \in Request /\ Sound(next, DOMAIN cases') /\ next.pc \in {"idle", "tell"}
    BY <1>2, IdleFacts DEF Telling, Request, Sound, NoteType, Idle
  <1> HIDE DEF r, c, entry, next
  <1>5. /\ cases' \in Seq(Case) /\ Len(cases') = Len(cases) /\ DOMAIN cases' = DOMAIN cases
        /\ cases'[c] = Changed(c, r.new, r.read)
        /\ \A d \in DOMAIN cases : d # c => cases'[d] = cases[d]
    BY <1>1, <1>2, ChangedTypes, SeqUpdate DEF Typed, TypeOK
  <1>6. /\ log' \in Seq(Seq(Entry)) /\ Len(log') = Len(log) /\ log'[c] = Append(log[c], entry)
        /\ \A d \in DOMAIN cases : d # c => log'[d] = log[d]
    <2>1. Append(log[c], entry) \in Seq(Entry)
      BY <1>2, <1>3, CaseFacts
    <2> QED
      BY <1>1, <1>2, <2>1, CaseFacts, SeqUpdate DEF Typed, TypeOK
  <1>7. /\ desk' \in [Staff -> Request] /\ \A v \in Staff : Sound(desk'[v], DOMAIN cases')
        /\ Moves(u, next)
    BY <1>1, <1>4, <1>5, DeskTypes DEF Moves
  <1>8. Typed'
    BY <1>1, <1>5, <1>6, <1>7 DEF Typed, TypeOK
  <1>9. \E n : Moves(u, n) /\ n.pc \in {"idle", "tell"}
    BY <1>4, <1>7
  <1> QED
    BY <1>1, <1>2, <1>3, <1>5, <1>6, <1>8, <1>9 DEF r, c, entry

LEMMA TransactionFailsDoes ==
  ASSUME Typed, NEW u \in Staff, TransactionFails(u)
  PROVE  /\ Typed' /\ Moves(u, Idle) /\ desk[u].pc = "commit" /\ faults' = faults + 1
         /\ UNCHANGED <<cases, log, told>>
         /\ \/ files' = files \ {desk[u].image} /\ UNCHANGED abandoned
            \/ /\ desk[u].image \in Images /\ abandoned' = abandoned \cup {desk[u].image}
               /\ UNCHANGED files
  <1>1. /\ desk[u].pc = "commit" /\ faults' = faults + 1 /\ desk' = [desk EXCEPT ![u] = Idle]
        /\ UNCHANGED <<cases, log, told, clock>>
        /\ \/ files' = files \ {desk[u].image} /\ UNCHANGED abandoned
           \/ /\ desk[u].image # NoImage /\ abandoned' = abandoned \cup {desk[u].image}
              /\ UNCHANGED files
    BY DEF TransactionFails, Fault, Leave
  <1>2. desk[u].image \in Images \cup {NoImage}
    BY <1>1, CaseFacts, RequestFields
  <1>3. files' \subseteq Images /\ abandoned' \subseteq Images /\ faults' \in Nat
    BY <1>1, <1>2 DEF Typed, TypeOK
  <1>4. Typed' /\ Moves(u, Idle)
    BY <1>1, <1>3, IdleFacts, OnlyDesk DEF Typed, TypeOK
  <1> QED
    BY <1>1, <1>2, <1>4

LEMMA DieDoes ==
  ASSUME Typed, NEW u \in Staff, Die(u)
  PROVE  /\ Typed' /\ Moves(u, Idle) /\ faults' = faults + 1
         /\ UNCHANGED <<cases, log, files, told>>
         /\ abandoned' = IF desk[u].pc = "commit" THEN abandoned \cup ({desk[u].image} \ {NoImage})
                         ELSE abandoned
  <1>1. /\ faults' = faults + 1 /\ desk' = [desk EXCEPT ![u] = Idle]
        /\ UNCHANGED <<cases, log, files, told, clock>>
        /\ abandoned' = IF desk[u].pc = "commit" THEN abandoned \cup ({desk[u].image} \ {NoImage})
                        ELSE abandoned
    BY DEF Die, Fault, Leave
  <1>2. desk[u].pc = "commit" => desk[u].image \in Images \cup {NoImage}
    BY CaseFacts, RequestFields
  <1>3. files' \subseteq Images /\ abandoned' \subseteq Images /\ faults' \in Nat
    BY <1>1, <1>2 DEF Typed, TypeOK
  <1>4. Typed' /\ Moves(u, Idle)
    BY <1>1, <1>3, IdleFacts, OnlyDesk DEF Typed, TypeOK
  <1> QED
    BY <1>1, <1>4

\* Time passes, or nothing happens.
LEMMA QuietDoes ==
  ASSUME Typed, Tick \/ UNCHANGED vars
  PROVE  Typed' /\ UNCHANGED <<cases, log, files, abandoned, told, desk, faults>>
  BY DEF Tick, vars, Typed, TypeOK

LEMMA InitTyped == Init => Typed
  <1> SUFFICES ASSUME Init PROVE Typed
    OBVIOUS
  <1>1. desk \in [Staff -> Request] /\ \A u \in Staff : desk[u] = Idle
    BY IdleFacts DEF Init
  <1>2. TypeOK
    BY <1>1 DEF Init, TypeOK
  <1> QED
    BY <1>1, <1>2, IdleFacts DEF Typed

\* A step is one of these.
LEMMA Steps ==
  ASSUME [Next]_vars
  PROVE  \/ \E u \in Staff :
              \/ \E hours \in SlaHours : Register(u, hours)
              \/ CreateCase(u) \/ TellTechnician(u) \/ WriteImage(u) \/ Commit(u)
              \/ TransactionFails(u) \/ Die(u)
              \/ \E c \in DOMAIN cases, technician \in Technicians : AssignTechnician(u, c, technician)
              \/ \E c \in DOMAIN cases, new \in Status, image \in Images \cup {NoImage} :
                   ReadCase(u, c, new, image)
         \/ Tick \/ UNCHANGED vars
  BY DEF Next

LEMMA NextTyped == Typed /\ [Next]_vars => Typed'
  BY Steps, RegisterDoes, CreateCaseDoes, TellTechnicianDoes, WriteImageDoes, CommitDoes,
     TransactionFailsDoes, DieDoes, AssignTechnicianDoes, ReadCaseDoes, QuietDoes

\* Every variable keeps its type, for any number of users, cases and photos.
THEOREM RepairsTypes == Spec => []TypeOK
  <1>1. Typed => TypeOK
    BY DEF Typed
  <1> QED
    BY <1>1, InitTyped, NextTyped, PTL DEF Spec

-----------------------------------------------------------------------------
(* The history of a case.  A request has read a status that is REGISTERED or *)
(* was set by an earlier change, and the log only grows.                     *)

Supported(status, history) ==
  status = "REGISTERED" \/ \E j \in DOMAIN history : history[j].new = status

\* What HistoryIsSupported says of one case.
CaseSupported(status, history) ==
  /\ status = IF history = << >> THEN "REGISTERED" ELSE history[Len(history)].new
  /\ \A i \in DOMAIN history :
       /\ history[i].new \in Flow(history[i].old)
       /\ history[i].old = "REGISTERED" \/ \E j \in 1 .. i - 1 : history[j].new = history[i].old

HistoryInv ==
  /\ \A c \in DOMAIN cases : CaseSupported(cases[c].status, log[c])
  /\ \A u \in Staff : desk[u].pc \in {"write", "commit"} =>
       /\ desk[u].new \in Flow(desk[u].read.status)
       /\ Supported(desk[u].read.status, log[desk[u].case])

LEMMA HistoryGrows ==
  ASSUME NEW history \in Seq(Entry), NEW e \in Entry, NEW status, CaseSupported(status, history),
         e.new \in Flow(e.old), Supported(e.old, history)
  PROVE  /\ CaseSupported(e.new, Append(history, e))
         /\ \A old : Supported(old, history) => Supported(old, Append(history, e))
  <1> DEFINE longer == Append(history, e)
             n == Len(history)
  <1>1. /\ longer \in Seq(Entry) /\ Len(longer) = n + 1 /\ longer[n + 1] = e /\ n \in Nat
        /\ DOMAIN history = 1 .. n /\ DOMAIN longer = 1 .. n + 1
        /\ \A j \in DOMAIN history : longer[j] = history[j]
    BY SeqAppend
  <1> HIDE DEF longer, n
  <1>2. longer # << >> /\ longer[Len(longer)].new = e.new
    BY <1>1
  <1>3. ASSUME NEW i \in DOMAIN longer
        PROVE  /\ longer[i].new \in Flow(longer[i].old)
               /\ longer[i].old = "REGISTERED" \/ \E j \in 1 .. i - 1 : longer[j].new = longer[i].old
    <2>1. CASE i = n + 1
      BY <1>1, <2>1 DEF Supported
    <2>2. CASE i # n + 1
      <3>1. i \in DOMAIN history /\ longer[i] = history[i]
        BY <1>1, <2>2
      <3>2. \A j \in 1 .. i - 1 : longer[j] = history[j]
        BY <1>1, <3>1
      <3> QED
        BY <3>1, <3>2 DEF CaseSupported
    <2> QED
      BY <2>1, <2>2
  <1>4. \A old : Supported(old, history) => Supported(old, longer)
    BY <1>1 DEF Supported
  <1>5. CaseSupported(e.new, longer)
    BY <1>2, <1>3 DEF CaseSupported
  <1> QED
    BY <1>4, <1>5 DEF longer

\* A step that changes no case and brings no new request to its write.
LEMMA HistoryKept ==
  ASSUME Typed, HistoryInv, NEW u \in Staff, NEW r, Moves(u, r),
         \/ r.pc \notin {"write", "commit"}
         \/ /\ desk[u].pc \in {"write", "commit"}
            /\ r.case = desk[u].case /\ r.new = desk[u].new /\ r.read = desk[u].read,
         DOMAIN cases \subseteq DOMAIN cases',
         \A c \in DOMAIN cases : cases'[c].status = cases[c].status /\ log'[c] = log[c],
         \A c \in DOMAIN cases' \ DOMAIN cases :
           cases'[c].status = "REGISTERED" /\ log'[c] = << >>
  PROVE  HistoryInv'
  <1>1. \A c \in DOMAIN cases' : CaseSupported(cases'[c].status, log'[c])
    <2> SUFFICES ASSUME NEW c \in DOMAIN cases' PROVE CaseSupported(cases'[c].status, log'[c])
      OBVIOUS
    <2>1. CASE c \in DOMAIN cases
      BY <2>1 DEF HistoryInv
    <2>2. CASE c \notin DOMAIN cases
      BY <2>2 DEF CaseSupported
    <2> QED
      BY <2>1, <2>2
  <1>2. ASSUME NEW v \in Staff, desk'[v].pc \in {"write", "commit"}
        PROVE  /\ desk'[v].new \in Flow(desk'[v].read.status)
               /\ Supported(desk'[v].read.status, log'[desk'[v].case])
    <2>1. /\ desk[v].pc \in {"write", "commit"} /\ desk'[v].case = desk[v].case
          /\ desk'[v].new = desk[v].new /\ desk'[v].read = desk[v].read
      BY <1>2 DEF Moves
    <2>2. desk[v].case \in DOMAIN cases
      BY <2>1, CaseFacts DEF Sound
    <2> QED
      BY <2>1, <2>2 DEF HistoryInv
  <1> QED
    BY <1>1, <1>2 DEF HistoryInv

LEMMA ReadCaseHistory ==
  ASSUME Typed, HistoryInv, NEW u \in Staff, NEW c \in DOMAIN cases, NEW new \in Status,
         NEW image \in Images \cup {NoImage}, ReadCase(u, c, new, image)
  PROVE  HistoryInv'
  <1>1. PICK r : /\ Moves(u, r) /\ r.case = c /\ r.new = new /\ r.read = cases[c]
                 /\ new \in Flow(cases[c].status) /\ UNCHANGED <<cases, log>>
    BY ReadCaseDoes
  <1>2. Supported(cases[c].status, log[c])
    <2>1. CaseSupported(cases[c].status, log[c]) /\ log[c] \in Seq(Entry)
      BY CaseFacts DEF HistoryInv
    <2>2. CASE log[c] = << >>
      BY <2>1, <2>2 DEF CaseSupported, Supported
    <2>3. CASE log[c] # << >>
      <3>1. Len(log[c]) \in DOMAIN log[c]
        BY <2>1, <2>3
      <3> QED
        BY <2>1, <2>3, <3>1 DEF CaseSupported, Supported
    <2> QED
      BY <2>2, <2>3
  <1> QED
    BY <1>1, <1>2 DEF HistoryInv, Moves

LEMMA CommitHistory ==
  ASSUME Typed, HistoryInv, NEW u \in Staff, Commit(u)
  PROVE  HistoryInv'
  <1> DEFINE r == desk[u]
             c == r.case
             entry == [old |-> r.read.status, new |-> r.new, image |-> r.image]
  <1>1. /\ r.pc = "commit" /\ c \in DOMAIN cases /\ entry \in Entry /\ DOMAIN cases' = DOMAIN cases
        /\ cases'[c] = Changed(c, r.new, r.read) /\ log'[c] = Append(log[c], entry)
        /\ \A d \in DOMAIN cases : d # c => cases'[d] = cases[d] /\ log'[d] = log[d]
        /\ \E next : Moves(u, next) /\ next.pc \in {"idle", "tell"}
    BY CommitDoes
  <1>2. cases'[c].status = r.new
    BY <1>1, CaseFacts, RequestFields, ChangedTypes
  <1>3. entry.old = r.read.status /\ entry.new = r.new
    OBVIOUS
  <1> HIDE DEF r, c, entry
  <1>4. /\ log[c] \in Seq(Entry) /\ CaseSupported(cases[c].status, log[c])
        /\ entry.new \in Flow(entry.old) /\ Supported(entry.old, log[c])
    BY <1>1, <1>3, CaseFacts DEF HistoryInv, r, c
  <1>5. /\ CaseSupported(entry.new, log'[c])
        /\ \A old : Supported(old, log[c]) => Supported(old, log'[c])
    BY <1>1, <1>4, HistoryGrows
  <1>6. \A d \in DOMAIN cases' : CaseSupported(cases'[d].status, log'[d])
    BY <1>1, <1>2, <1>3, <1>5 DEF HistoryInv
  <1>7. ASSUME NEW v \in Staff, desk'[v].pc \in {"write", "commit"}
        PROVE  /\ desk'[v].new \in Flow(desk'[v].read.status)
               /\ Supported(desk'[v].read.status, log'[desk'[v].case])
    <2>1. desk'[v] = desk[v]
      BY <1>1, <1>7 DEF Moves
    <2>2. desk[v].case \in DOMAIN cases
      BY <1>7, <2>1, CaseFacts DEF Sound
    <2> QED
      BY <1>1, <1>5, <1>7, <2>1, <2>2 DEF HistoryInv
  <1> QED
    BY <1>6, <1>7 DEF HistoryInv

LEMMA InitHistory == Init => HistoryInv
  BY DEF Init, HistoryInv, Idle

LEMMA NextHistory == Typed /\ HistoryInv /\ [Next]_vars => HistoryInv'
  <1> SUFFICES ASSUME Typed, HistoryInv, [Next]_vars PROVE HistoryInv'
    OBVIOUS
  <1>1. ASSUME NEW u \in Staff, NEW hours \in SlaHours, Register(u, hours) PROVE HistoryInv'
    BY <1>1, RegisterDoes, HistoryKept
  <1>2. ASSUME NEW u \in Staff, CreateCase(u) PROVE HistoryInv'
    BY <1>2, CreateCaseKeeps, HistoryKept
  <1>3. ASSUME NEW u \in Staff, TellTechnician(u) \/ TransactionFails(u) \/ Die(u) PROVE HistoryInv'
    <2>1. Moves(u, Idle) /\ Idle.pc \notin {"write", "commit"} /\ UNCHANGED <<cases, log>>
      BY <1>3, TellTechnicianDoes, TransactionFailsDoes, DieDoes DEF Idle
    <2> QED
      BY <2>1, HistoryKept
  <1>4. ASSUME NEW u \in Staff, WriteImage(u) PROVE HistoryInv'
    BY <1>4, WriteImageDoes, HistoryKept
  <1>5. ASSUME NEW u \in Staff, NEW c \in DOMAIN cases, NEW technician \in Technicians,
               AssignTechnician(u, c, technician)
        PROVE  HistoryInv'
    <2> DEFINE r == Telling("REPAIR_ASSIGNED", c, technician)
    <2>1. Moves(u, r) /\ r.pc \notin {"write", "commit"} /\ DOMAIN cases' = DOMAIN cases
      BY <1>5, AssignTechnicianDoes DEF Telling
    <2>2. \A d \in DOMAIN cases : cases'[d].status = cases[d].status /\ log'[d] = log[d]
      BY <1>5, AssignTechnicianDoes
    <2> QED
      BY <2>1, <2>2, HistoryKept
  <1>6. CASE Tick \/ UNCHANGED vars
    BY <1>6, QuietDoes DEF HistoryInv
  <1> QED
    BY Steps, <1>1, <1>2, <1>3, <1>4, <1>5, <1>6, ReadCaseHistory, CommitHistory

\* Racing requests may undo each other, but every change in the log of a case starts
\* from a status that an earlier change had set, and the newest one is the status.
THEOREM HistoriesAreSupported == Spec => []HistoryIsSupported
  <1>1. HistoryInv => HistoryIsSupported
    BY DEF HistoryInv, CaseSupported, HistoryIsSupported
  <1> QED
    BY <1>1, InitTyped, NextTyped, InitHistory, NextHistory, PTL DEF Spec

-----------------------------------------------------------------------------
(* The SLA.  It is only written together with the completion date it copies. *)

SlaAgrees(case) ==
  case.sla.due # Never =>
    /\ case.sla.completed = case.completed
    /\ case.sla.breached <=> case.sla.completed > case.sla.due

LEMMA SlaKept ==
  ASSUME NEW before \in Case, NEW after, SlaAgrees(before),
         after.sla = before.sla, after.completed = before.completed
  PROVE  SlaAgrees(after)
  BY DEF SlaAgrees

LEMMA CommitSla ==
  ASSUME Typed, NEW c \in DOMAIN cases, NEW new \in Status, NEW read \in Case, SlaAgrees(cases[c])
  PROVE  SlaAgrees(Changed(c, new, read))
  <1> DEFINE after == Changed(c, new, read)
             sla == cases[c].sla
             late == after.completed > sla.due
  <1>1. /\ after \in Case /\ after.sla = Closing(sla, new, after.completed) /\ sla \in Sla
        /\ new \notin Completed => after.completed = cases[c].completed
    BY ChangedTypes, CaseFacts DEF Case
  <1> SUFFICES SlaAgrees(after)
    OBVIOUS
  <1> HIDE DEF after
  <1>2. CASE new \notin Completed \/ sla.due = Never
    <2>1. after.sla = sla
      BY <1>1, <1>2 DEF Closing
    <2>2. CASE sla.due = Never
      BY <2>1, <2>2 DEF SlaAgrees
    <2>3. CASE new \notin Completed
      <3>1. after.completed = cases[c].completed /\ cases[c] \in Case
        BY <1>1, <2>3, CaseFacts
      <3> QED
        BY <2>1, <3>1, SlaKept
    <2> QED
      BY <1>2, <2>2, <2>3
  <1>3. CASE new \in Completed /\ sla.due # Never
    <2>1. after.sla = [sla EXCEPT !.completed = after.completed, !.breached = late]
      BY <1>1, <1>3 DEF Closing
    <2>2. /\ after.sla.due = sla.due /\ after.sla.completed = after.completed
          /\ after.sla.breached = late
      <3> HIDE DEF late
      <3> QED
        BY <1>1, <2>1 DEF Sla
    <2>3. late = (after.sla.completed > after.sla.due)
      BY <2>2
    <2>4. after.sla.breached <=> after.sla.completed > after.sla.due
      <3> HIDE DEF late
      <3> QED
        BY <2>2, <2>3
    <2> QED
      BY <2>2, <2>4 DEF SlaAgrees
  <1> QED
    BY <1>2, <1>3

LEMMA NextSla ==
  Typed /\ SlaAgreesWithCase /\ [Next]_vars => SlaAgreesWithCase'
  <1> SUFFICES ASSUME Typed, \A c \in DOMAIN cases : SlaAgrees(cases[c]), [Next]_vars
               PROVE  \A c \in DOMAIN cases' : SlaAgrees(cases'[c])
    BY DEF SlaAgreesWithCase, SlaAgrees
  <1>1. CASE UNCHANGED cases
    BY <1>1
  <1>2. ASSUME NEW u \in Staff, CreateCase(u)
        PROVE  \A c \in DOMAIN cases' : SlaAgrees(cases'[c])
    <2>1. SlaAgrees(NewCase(desk[u].due))
      <3>1. desk[u].due \in Time
        BY <1>2, CreateCaseDoes, CaseFacts, RequestFields
      <3> QED
        BY <3>1 DEF SlaAgrees, NewCase, Time, Never
    <2> QED
      BY <1>2, <2>1, CreateCaseDoes
  <1>3. ASSUME NEW u \in Staff, NEW c \in DOMAIN cases, NEW technician \in Technicians,
               AssignTechnician(u, c, technician)
        PROVE  \A d \in DOMAIN cases' : SlaAgrees(cases'[d])
    <2>1. /\ DOMAIN cases' = DOMAIN cases
          /\ cases'[c].sla = cases[c].sla /\ cases'[c].completed = cases[c].completed
          /\ \A d \in DOMAIN cases : d # c => cases'[d] = cases[d]
      BY <1>3, AssignTechnicianDoes
    <2> QED
      BY <2>1, SlaKept, CaseFacts
  <1>4. ASSUME NEW u \in Staff, Commit(u)
        PROVE  \A c \in DOMAIN cases' : SlaAgrees(cases'[c])
    <2> DEFINE c == desk[u].case
    <2>1. /\ c \in DOMAIN cases /\ desk[u].new \in Status /\ desk[u].read \in Case
          /\ DOMAIN cases' = DOMAIN cases
          /\ cases'[c] = Changed(c, desk[u].new, desk[u].read)
          /\ \A d \in DOMAIN cases : d # c => cases'[d] = cases[d]
      BY <1>4, CommitDoes, CaseFacts, RequestFields
    <2>2. SlaAgrees(cases'[c])
      BY <2>1, CommitSla
    <2> QED
      BY <2>1, <2>2
  <1> QED
    BY Steps, <1>1, <1>2, <1>3, <1>4, RegisterDoes, TellTechnicianDoes, WriteImageDoes,
       TransactionFailsDoes, DieDoes, ReadCaseDoes, QuietDoes

\* The SLA report carries the case's own completion date, and a breach exactly when
\* that date is past the due date, however changes of status race.
THEOREM SlaIsTrue == Spec => []SlaAgreesWithCase
  <1>1. Init => SlaAgreesWithCase
    BY DEF Init, SlaAgreesWithCase
  <1> QED
    BY <1>1, InitTyped, NextTyped, NextSla, PTL DEF Spec

-----------------------------------------------------------------------------
(* While nobody has died, the technician of a case has been told, or the      *)
(* request that assigned him is about to tell him.                            *)

Assigned(c) == Telling("REPAIR_ASSIGNED", c, cases[c].technician)

ToldInv ==
  faults = 0 => \A c \in DOMAIN cases : cases[c].technician # NoOne =>
    \/ <<"REPAIR_ASSIGNED", c, cases[c].technician>> \in told
    \/ \E u \in Staff : desk[u] = Assigned(c)

\* A step that changes no technician, by a request that was not telling.
LEMMA ToldKept ==
  ASSUME Typed, ToldInv, NEW u \in Staff, NEW r, Moves(u, r), desk[u].pc # "tell",
         faults' = faults, told' = told, DOMAIN cases \subseteq DOMAIN cases',
         \A c \in DOMAIN cases : cases'[c].technician = cases[c].technician,
         \A c \in DOMAIN cases' \ DOMAIN cases : cases'[c].technician = NoOne
  PROVE  ToldInv'
  <1> SUFFICES ASSUME faults' = 0, NEW c \in DOMAIN cases', cases'[c].technician # NoOne
               PROVE  \/ <<"REPAIR_ASSIGNED", c, cases'[c].technician>> \in told'
                      \/ \E v \in Staff : desk'[v] = Assigned(c)'
    BY DEF ToldInv
  <1>1. c \in DOMAIN cases /\ Assigned(c)' = Assigned(c)
    BY DEF Assigned
  <1>2. CASE <<"REPAIR_ASSIGNED", c, cases[c].technician>> \in told
    BY <1>1, <1>2
  <1>3. ASSUME NEW v \in Staff, desk[v] = Assigned(c)
        PROVE  desk'[v] = Assigned(c)'
    <2>1. v # u
      BY <1>3 DEF Assigned, Telling
    <2> QED
      BY <1>1, <1>3, <2>1 DEF Moves
  <1> QED
    BY <1>1, <1>2, <1>3 DEF ToldInv

LEMMA AssignTold ==
  ASSUME Typed, ToldInv, NEW u \in Staff, NEW c \in DOMAIN cases, NEW technician \in Technicians,
         AssignTechnician(u, c, technician)
  PROVE  ToldInv'
  <1>1. /\ Moves(u, Telling("REPAIR_ASSIGNED", c, technician)) /\ desk[u] = Idle
        /\ faults' = faults /\ told' = told /\ DOMAIN cases' = DOMAIN cases
        /\ cases'[c].technician = technician
        /\ \A d \in DOMAIN cases : d # c => cases'[d] = cases[d]
    BY AssignTechnicianDoes
  <1> SUFFICES ASSUME faults' = 0, NEW d \in DOMAIN cases', cases'[d].technician # NoOne
               PROVE  \/ <<"REPAIR_ASSIGNED", d, cases'[d].technician>> \in told'
                      \/ \E v \in Staff : desk'[v] = Assigned(d)'
    BY DEF ToldInv
  <1>2. CASE d = c
    BY <1>1, <1>2 DEF Moves, Assigned
  <1>3. CASE d # c
    <2>1. cases'[d] = cases[d] /\ Assigned(d)' = Assigned(d) /\ d \in DOMAIN cases
      BY <1>1, <1>3 DEF Assigned
    <2>2. ASSUME NEW v \in Staff, desk[v] = Assigned(d) PROVE desk'[v] = Assigned(d)'
      <3>1. v # u
        BY <1>1, <2>2 DEF Assigned, Telling, Idle
      <3> QED
        BY <1>1, <2>1, <2>2, <3>1 DEF Moves
    <2> QED
      BY <1>1, <2>1, <2>2 DEF ToldInv
  <1> QED
    BY <1>2, <1>3

LEMMA TellTold ==
  ASSUME Typed, ToldInv, NEW u \in Staff, TellTechnician(u)
  PROVE  ToldInv'
  <1>1. /\ Moves(u, Idle) /\ cases' = cases /\ faults' = faults
        /\ told' = told \cup {<<desk[u].type, desk[u].case, desk[u].technician>>}
    BY TellTechnicianDoes
  <1> SUFFICES ASSUME faults' = 0, NEW c \in DOMAIN cases, cases[c].technician # NoOne
               PROVE  \/ <<"REPAIR_ASSIGNED", c, cases[c].technician>> \in told'
                      \/ \E v \in Staff : desk'[v] = Assigned(c)'
    BY <1>1 DEF ToldInv
  <1>2. Assigned(c)' = Assigned(c)
    BY <1>1 DEF Assigned
  <1>3. CASE desk[u] = Assigned(c)
    BY <1>1, <1>3 DEF Assigned, Telling
  <1>4. CASE desk[u] # Assigned(c)
    <2>1. \A v \in Staff : desk[v] = Assigned(c) => desk'[v] = Assigned(c)'
      BY <1>1, <1>2, <1>4 DEF Moves
    <2> QED
      BY <1>1, <2>1 DEF ToldInv
  <1> QED
    BY <1>3, <1>4

LEMMA CommitTold ==
  ASSUME Typed, ToldInv, NEW u \in Staff, Commit(u)
  PROVE  ToldInv'
  <1> DEFINE c == desk[u].case
  <1>1. /\ desk[u].pc = "commit" /\ c \in DOMAIN cases /\ faults' = faults /\ told' = told
        /\ DOMAIN cases' = DOMAIN cases
        /\ cases'[c] = Changed(c, desk[u].new, desk[u].read)
        /\ \A d \in DOMAIN cases : d # c => cases'[d] = cases[d]
    BY CommitDoes
  <1>2. PICK next : Moves(u, next)
    BY CommitDoes
  <1>3. cases'[c].technician = cases[c].technician
    BY <1>1, CaseFacts, RequestFields, ChangedTypes
  <1>4. \A d \in DOMAIN cases : cases'[d].technician = cases[d].technician
    BY <1>1, <1>3
  <1> QED
    BY <1>1, <1>2, <1>4, ToldKept

LEMMA NextTold == Typed /\ ToldInv /\ [Next]_vars => ToldInv'
  <1> SUFFICES ASSUME Typed, ToldInv, [Next]_vars PROVE ToldInv'
    OBVIOUS
  <1>1. ASSUME NEW u \in Staff, NEW hours \in SlaHours, Register(u, hours) PROVE ToldInv'
    BY <1>1, RegisterDoes, ToldKept DEF Idle
  <1>2. ASSUME NEW u \in Staff, CreateCase(u) PROVE ToldInv'
    BY <1>2, CreateCaseKeeps, ToldKept
  <1>3. ASSUME NEW u \in Staff, TransactionFails(u) \/ Die(u) PROVE ToldInv'
    <2>1. faults' = faults + 1 /\ faults \in Nat
      BY <1>3, TransactionFailsDoes, DieDoes DEF Typed, TypeOK
    <2>2. faults' # 0
      BY <2>1
    <2> QED
      BY <2>2 DEF ToldInv
  <1>4. ASSUME NEW u \in Staff, WriteImage(u) PROVE ToldInv'
    BY <1>4, WriteImageDoes, ToldKept
  <1>5. ASSUME NEW u \in Staff, NEW c \in DOMAIN cases, NEW new \in Status,
               NEW image \in Images \cup {NoImage}, ReadCase(u, c, new, image)
        PROVE  ToldInv'
    BY <1>5, ReadCaseDoes, ToldKept DEF Idle
  <1>6. CASE Tick \/ UNCHANGED vars
    BY <1>6, QuietDoes DEF ToldInv, Assigned
  <1> QED
    BY Steps, <1>1, <1>2, <1>3, <1>4, <1>5, <1>6, AssignTold, TellTold, CommitTold

\* With no request about to tell and none dead, the technician of a case was told,
\* whoever else was assigned to it before and whatever changed meanwhile.
THEOREM TechniciansAreTold == Spec => []TechnicianIsTold
  <1>1. Init => ToldInv
    BY DEF Init, ToldInv
  <1>2. ToldInv => TechnicianIsTold
    <2>1. \A c \in DOMAIN cases : Assigned(c).pc = "tell"
      BY DEF Assigned, Telling
    <2> QED
      BY <2>1 DEF ToldInv, TechnicianIsTold
  <1> QED
    BY <1>1, <1>2, InitTyped, NextTyped, NextTold, PTL DEF Spec
-----------------------------------------------------------------------------
(* Photos.  Every photo has one holder: a request that is uploading it or    *)
(* about to commit it, the log, or nobody any more.                          *)

Logged(e) == \E c \in DOMAIN cases : \E i \in DOMAIN log[c] : log[c][i].image = e
Held(u, e) == desk[u].pc \in {"write", "commit"} /\ desk[u].image = e
Uploaded(e) == \E u \in Staff : desk[u].pc = "commit" /\ desk[u].image = e

OneHolder ==
  \A e \in Images, u \in Staff : Held(u, e) =>
    ~ Logged(e) /\ e \notin abandoned /\ \A v \in Staff : Held(v, e) => v = u

PhotosInv ==
  /\ \A e \in Images : e \in files <=> Logged(e) \/ Uploaded(e) \/ e \in abandoned
  /\ OneHolder

\* A request without a photo moves on, and the log says what it said.
LEMMA PhotosKept ==
  ASSUME Typed, PhotosInv, NEW u \in Staff, NEW r, Moves(u, r),
         ~ (\E e \in Images : Held(u, e)),
         r.pc \in {"write", "commit"} => r.image \notin Images,
         files' = files, abandoned' = abandoned,
         \A e \in Images : Logged(e)' <=> Logged(e)
  PROVE  PhotosInv'
  <1>1. \A e \in Images, v \in Staff : Held(v, e)' <=> Held(v, e)
    BY DEF Moves, Held
  <1>2. \A e \in Images : Uploaded(e)' <=> Uploaded(e)
    BY DEF Moves, Held, Uploaded
  <1> QED
    BY <1>1, <1>2 DEF PhotosInv, OneHolder

LEMMA LogKept ==
  ASSUME Typed, DOMAIN cases \subseteq DOMAIN cases', \A c \in DOMAIN cases : log'[c] = log[c],
         \A c \in DOMAIN cases' \ DOMAIN cases : log'[c] = << >>
  PROVE  \A e \in Images : Logged(e)' <=> Logged(e)
  <1>1. \A c \in DOMAIN cases' \ DOMAIN cases : DOMAIN log'[c] = {}
    OBVIOUS
  <1> QED
    BY <1>1 DEF Logged

LEMMA ReadCasePhotos ==
  ASSUME Typed, PhotosInv, NEW u \in Staff, NEW c \in DOMAIN cases, NEW new \in Status,
         NEW image \in Images \cup {NoImage}, ReadCase(u, c, new, image)
  PROVE  PhotosInv'
  <1>1. PICK r : /\ Moves(u, r) /\ r.pc = IF image = NoImage THEN "commit" ELSE "write"
                 /\ r.image = image
    BY ReadCaseDoes
  <1>2. /\ UNCHANGED <<cases, log, files, abandoned>> /\ desk[u].pc = "idle" /\ image \notin Used
    BY ReadCaseDoes DEF Idle
  <1>3. \A e \in Images : Logged(e)' <=> Logged(e)
    BY <1>2 DEF Logged
  <1>4. CASE image = NoImage
    <2>1. ~ (\E e \in Images : Held(u, e))
      BY <1>2 DEF Held
    <2> QED
      BY <1>1, <1>2, <1>3, <1>4, <2>1, PhotosKept
  <1>5. CASE image # NoImage
    <2>1. image \in Images /\ ~ Logged(image) /\ image \notin abandoned
          /\ \A v \in Staff : ~ Held(v, image)
      BY <1>2, <1>5 DEF Used, PhotosInv, Held, Uploaded
    <2>2. \A e \in Images : Uploaded(e)' <=> Uploaded(e)
      BY <1>1, <1>2, <1>5 DEF Uploaded, Moves
    <2>3. \A e \in Images, v \in Staff : Held(v, e)' <=> Held(v, e) \/ (v = u /\ e = image)
      BY <1>1, <1>2, <1>5 DEF Held, Moves
    <2>4. OneHolder'
      BY <1>2, <1>3, <2>1, <2>3 DEF OneHolder, PhotosInv
    <2> QED
      BY <1>2, <1>3, <2>2, <2>4 DEF PhotosInv
  <1> QED
    BY <1>4, <1>5

LEMMA WriteImagePhotos ==
  ASSUME Typed, PhotosInv, NEW u \in Staff, WriteImage(u)
  PROVE  PhotosInv'
  <1>1. PICK r : Moves(u, r) /\ r.pc = "commit" /\ r.image = desk[u].image
    BY WriteImageDoes
  <1>2. /\ UNCHANGED <<cases, log, abandoned>> /\ desk[u].pc = "write"
        /\ desk[u].image \in Images /\ files' = files \cup {desk[u].image}
    BY WriteImageDoes
  <1>3. \A e \in Images : Logged(e)' <=> Logged(e)
    BY <1>2 DEF Logged
  <1>4. \A e \in Images, v \in Staff : Held(v, e)' <=> Held(v, e)
    BY <1>1, <1>2 DEF Held, Moves
  <1>5. \A e \in Images : Uploaded(e)' <=> Uploaded(e) \/ e = desk[u].image
    BY <1>1, <1>2 DEF Uploaded, Moves
  <1>6. OneHolder'
    BY <1>2, <1>3, <1>4 DEF OneHolder, PhotosInv
  <1> QED
    BY <1>2, <1>3, <1>5, <1>6 DEF PhotosInv

\* A photo that its request lets go of is in the log now, abandoned, or deleted.
LEMMA LetGo ==
  ASSUME Typed, PhotosInv, NEW u \in Staff, NEW r, Moves(u, r), r.pc \notin {"write", "commit"},
         \A e \in Images : Logged(e) => Logged(e)',
         \A e \in Images : Logged(e)' => Logged(e) \/ Held(u, e),
         \A e \in Images : e \in abandoned => e \in abandoned',
         \A e \in Images : e \in abandoned' => e \in abandoned \/ Held(u, e),
         \A e \in Images : e \in files' => e \in files,
         \A e \in Images : e \in files => e \in files' \/ Held(u, e),
         \A e \in Images : Held(u, e) => (e \in files' <=> Logged(e)' \/ e \in abandoned')
  PROVE  PhotosInv'
  <1>1. \A e \in Images, v \in Staff : Held(v, e)' <=> Held(v, e) /\ v # u
    BY DEF Held, Moves
  <1>2. OneHolder'
    BY <1>1 DEF OneHolder, PhotosInv
  <1>3. ASSUME NEW e \in Images
        PROVE  e \in files' <=> Logged(e)' \/ Uploaded(e)' \/ e \in abandoned'
    <2>1. CASE Held(u, e)
      <3>1. ~ Uploaded(e)'
        BY <2>1 DEF Uploaded, Held, Moves, OneHolder, PhotosInv
      <3> QED
        BY <2>1, <3>1
    <2>2. CASE ~ Held(u, e)
      <3>1. Uploaded(e)' <=> Uploaded(e)
        BY <2>2 DEF Uploaded, Held, Moves
      <3> QED
        BY <2>2, <3>1 DEF PhotosInv
    <2> QED
      BY <2>1, <2>2
  <1> QED
    BY <1>2, <1>3 DEF PhotosInv

LEMMA CommitPhotos ==
  ASSUME Typed, PhotosInv, NEW u \in Staff, Commit(u)
  PROVE  PhotosInv'
  <1> DEFINE c == desk[u].case
             entry == [old |-> desk[u].read.status, new |-> desk[u].new, image |-> desk[u].image]
  <1>1. /\ desk[u].pc = "commit" /\ c \in DOMAIN cases /\ entry \in Entry
        /\ UNCHANGED <<files, abandoned>> /\ DOMAIN cases' = DOMAIN cases
        /\ log'[c] = Append(log[c], entry)
        /\ \A d \in DOMAIN cases : d # c => log'[d] = log[d]
    BY CommitDoes
  <1>2. PICK next : Moves(u, next) /\ next.pc \in {"idle", "tell"}
    BY CommitDoes
  <1>3. entry.image = desk[u].image
    OBVIOUS
  <1> HIDE DEF c, entry
  <1>4. /\ DOMAIN log[c] \subseteq DOMAIN log'[c]
        /\ \A i \in DOMAIN log[c] : log'[c][i] = log[c][i]
        /\ \A i \in DOMAIN log'[c] : i \notin DOMAIN log[c] => log'[c][i] = entry
        /\ \E i \in DOMAIN log'[c] : log'[c][i] = entry
    <2>1. log[c] \in Seq(Entry)
      BY <1>1, CaseFacts
    <2> QED
      BY <1>1, <2>1, SeqAppend
  <1>5. \A e : Logged(e)' <=> Logged(e) \/ e = desk[u].image
    <2> SUFFICES ASSUME NEW e PROVE Logged(e)' <=> Logged(e) \/ e = desk[u].image
      OBVIOUS
    <2>1. Logged(e) => Logged(e)'
      BY <1>1, <1>4 DEF Logged
    <2>2. e = desk[u].image => Logged(e)'
      BY <1>1, <1>3, <1>4 DEF Logged
    <2>3. Logged(e)' => Logged(e) \/ e = desk[u].image
      BY <1>1, <1>3, <1>4 DEF Logged
    <2> QED
      BY <2>1, <2>2, <2>3
  <1>6. \A e \in Images : e = desk[u].image <=> Held(u, e)
    BY <1>1 DEF Held
  <1>7. \A e \in Images : Held(u, e) => e \in files
    BY <1>1, <1>6 DEF PhotosInv, Uploaded
  <1> QED
    BY <1>1, <1>2, <1>5, <1>6, <1>7, LetGo

LEMMA TransactionFailsPhotos ==
  ASSUME Typed, PhotosInv, NEW u \in Staff, TransactionFails(u)
  PROVE  PhotosInv'
  <1>1. /\ Moves(u, Idle) /\ Idle.pc \notin {"write", "commit"} /\ desk[u].pc = "commit"
        /\ UNCHANGED <<cases, log>>
    BY TransactionFailsDoes DEF Idle
  <1>2. \A e \in Images : Logged(e)' <=> Logged(e)
    BY <1>1 DEF Logged
  <1>3. \A e \in Images : Held(u, e) <=> e = desk[u].image
    BY <1>1 DEF Held
  <1>4. \A e \in Images : Held(u, e) => e \in files /\ ~ Logged(e) /\ e \notin abandoned
    BY <1>1, <1>3 DEF PhotosInv, OneHolder, Uploaded
  <1>5. CASE files' = files \ {desk[u].image} /\ UNCHANGED abandoned
    BY <1>1, <1>2, <1>3, <1>4, <1>5, LetGo
  <1>6. CASE abandoned' = abandoned \cup {desk[u].image} /\ UNCHANGED files
    BY <1>1, <1>2, <1>3, <1>4, <1>6, LetGo
  <1> QED
    BY <1>5, <1>6, TransactionFailsDoes

LEMMA DiePhotos ==
  ASSUME Typed, PhotosInv, NEW u \in Staff, Die(u)
  PROVE  PhotosInv'
  <1>1. /\ Moves(u, Idle) /\ Idle.pc \notin {"write", "commit"} /\ UNCHANGED <<cases, log, files>>
        /\ abandoned' = IF desk[u].pc = "commit" THEN abandoned \cup ({desk[u].image} \ {NoImage})
                        ELSE abandoned
    BY DieDoes DEF Idle
  <1>2. \A e \in Images : Logged(e)' <=> Logged(e)
    BY <1>1 DEF Logged
  <1>3. CASE desk[u].pc = "commit"
    <2>1. \A e \in Images : Held(u, e) <=> e = desk[u].image
      BY <1>3 DEF Held
    <2>2. \A e \in Images : Held(u, e) => e \in files
      BY <1>3, <2>1 DEF PhotosInv, Uploaded
    <2>3. \A e \in Images : e \in abandoned' <=> e \in abandoned \/ Held(u, e)
      BY <1>1, <1>3, <2>1
    <2> QED
      BY <1>1, <1>2, <2>2, <2>3, LetGo
  <1>4. CASE desk[u].pc # "commit"
    <2>1. \A e \in Images, v \in Staff : Held(v, e)' <=> Held(v, e) /\ v # u
      BY <1>1 DEF Held, Moves
    <2>2. \A e \in Images : Uploaded(e)' <=> Uploaded(e)
      BY <1>1, <1>4 DEF Uploaded, Moves
    <2>3. OneHolder'
      BY <1>1, <1>2, <1>4, <2>1 DEF OneHolder, PhotosInv
    <2> QED
      BY <1>1, <1>2, <1>4, <2>2, <2>3 DEF PhotosInv
  <1> QED
    BY <1>3, <1>4

LEMMA NextPhotos == Typed /\ PhotosInv /\ [Next]_vars => PhotosInv'
  <1> SUFFICES ASSUME Typed, PhotosInv, [Next]_vars PROVE PhotosInv'
    OBVIOUS
  <1>1. ASSUME NEW u \in Staff, NEW hours \in SlaHours, Register(u, hours) PROVE PhotosInv'
    <2>1. PICK r : Moves(u, r) /\ r.pc = "create"
      BY <1>1, RegisterDoes
    <2>2. desk[u].pc = "idle" /\ UNCHANGED <<cases, log, files, abandoned>>
      BY <1>1, RegisterDoes DEF Idle
    <2>3. \A e \in Images : Logged(e)' <=> Logged(e)
      BY <2>2 DEF Logged
    <2>4. ~ (\E e \in Images : Held(u, e))
      BY <2>2 DEF Held
    <2> QED
      BY <2>1, <2>2, <2>3, <2>4, PhotosKept
  <1>2. ASSUME NEW u \in Staff, CreateCase(u) PROVE PhotosInv'
    <2>1. /\ Moves(u, Idle) /\ Idle.pc = "idle" /\ desk[u].pc = "create"
          /\ UNCHANGED <<files, abandoned>>
      BY <1>2, CreateCaseDoes, CreateCaseKeeps
    <2>2. \A e \in Images : Logged(e)' <=> Logged(e)
      BY <1>2, CreateCaseKeeps, LogKept
    <2>3. ~ (\E e \in Images : Held(u, e))
      BY <2>1 DEF Held
    <2> QED
      BY <2>1, <2>2, <2>3, PhotosKept
  <1>3. ASSUME NEW u \in Staff, TellTechnician(u) PROVE PhotosInv'
    <2>1. /\ Moves(u, Idle) /\ Idle.pc = "idle" /\ desk[u].pc = "tell"
          /\ UNCHANGED <<cases, log, files, abandoned>>
      BY <1>3, TellTechnicianDoes DEF Idle
    <2>2. \A e \in Images : Logged(e)' <=> Logged(e)
      BY <2>1 DEF Logged
    <2>3. ~ (\E e \in Images : Held(u, e))
      BY <2>1 DEF Held
    <2> QED
      BY <2>1, <2>2, <2>3, PhotosKept
  <1>4. ASSUME NEW u \in Staff, NEW c \in DOMAIN cases, NEW technician \in Technicians,
               AssignTechnician(u, c, technician)
        PROVE  PhotosInv'
    <2> DEFINE r == Telling("REPAIR_ASSIGNED", c, technician)
    <2>1. /\ Moves(u, r) /\ r.pc = "tell" /\ desk[u].pc = "idle"
          /\ DOMAIN cases' = DOMAIN cases /\ UNCHANGED <<log, files, abandoned>>
      BY <1>4, AssignTechnicianDoes DEF Telling, Idle
    <2> HIDE DEF r
    <2>2. \A e \in Images : Logged(e)' <=> Logged(e)
      BY <2>1 DEF Logged
    <2>3. ~ (\E e \in Images : Held(u, e))
      BY <2>1 DEF Held
    <2> QED
      BY <2>1, <2>2, <2>3, PhotosKept
  <1>5. CASE Tick \/ UNCHANGED vars
    <2>1. UNCHANGED <<cases, log, files, abandoned, desk>>
      BY <1>5, QuietDoes
    <2> QED
      BY <2>1 DEF PhotosInv, OneHolder, Logged, Uploaded, Held
  <1> QED
    BY Steps, <1>1, <1>2, <1>3, <1>4, <1>5, ReadCasePhotos, WriteImagePhotos, CommitPhotos,
       TransactionFailsPhotos, DiePhotos

\* The photos on disk are those of the log, of requests about to commit, and of requests
\* that could not clean up: none is lost that the log refers to, none is left unexplained.
THEOREM PhotosAreKnown == Spec => []PhotosAreAccounted
  <1>1. Init => PhotosInv
    BY DEF Init, PhotosInv, OneHolder, Logged, Uploaded, Held, Idle
  <1>2. Typed /\ PhotosInv => PhotosAreAccounted
    BY DEF Typed, TypeOK, PhotosInv, PhotosAreAccounted, Logged, Uploaded
  <1> QED
    BY <1>1, <1>2, InitTyped, NextTyped, NextPhotos, PTL DEF Spec
==============================================================================
