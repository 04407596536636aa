-------------------------- MODULE CustomerEventsProofs --------------------------
(***************************************************************************)
(* Two arguments about the events of a customer.  An event whose request   *)
(* was answered had reached the broker, and what befalls events on the way *)
(* to the broker spares it.  And a task reads after its event was          *)
(* published and after all those that are acknowledged: what they announce *)
(* is written by then, and what is written later is newer.                 *)
(***************************************************************************)
EXTENDS CustomerEvents, SequenceTheorems, TLAPS

USE DEF Parts

USE EventsAssumption

Pcs == {"idle", "row", "contacts", "sales", "activities", "insert", "log", "ack"}
Task == [pc : Pcs, event : Nat, snapshot : Snapshot]
Record == [exists : BOOLEAN, version : [Parts -> Nat], opened : Nat, sales : SUBSET Opportunity]

Reached == {"queued", "delivered", "done", "rejected"}

Holds(q, e) == \E i \in DOMAIN q : q[i] = e
Distinct(q) == \A i, j \in DOMAIN q : q[i] = q[j] => i = j

Typed ==
  /\ customer \in Record
  /\ events \in Seq(EventRow)
  /\ ready \in BOOLEAN /\ mishaps \in Nat
  /\ task \in Task
  /\ latest \in Snapshot

\* The queue holds the queued events, each of them once.
InQueue ==
  /\ queue \in Seq(Nat) /\ Distinct(queue)
  /\ \A e : Holds(queue, e) <=> e \in DOMAIN events /\ events[e].fate = "queued"

\* The worker holds the delivered event.
InTask ==
  /\ \A e \in DOMAIN events : (events[e].fate = "delivered") <=> (task.event = e)
  /\ task.pc # "idle" => task.event \in DOMAIN events
  /\ task.pc = "idle" => task = NoTask

\* Who was told "queued" has an event in the broker, who was told nothing yet has
\* not lost his.
Answered ==
  /\ QueuedIsKept
  /\ \A e \in DOMAIN events :
       events[e].fate = "dropped" /\ events[e].part = "request" => events[e].answer = "unavailable"

\* What an event announces is written; an opportunity that is gone stays away, as new
\* ones get new numbers.
Written ==
  /\ \A e \in DOMAIN events :
       /\ events[e].part \in Parts => events[e].version <= customer.version[events[e].part]
       /\ events[e].part = "sales" =>
            /\ events[e].opp <= customer.opened
            /\ \A s \in customer.sales : s.opp = events[e].opp => s.version >= events[e].version
  /\ \A s \in customer.sales : s.opp <= customer.opened
  /\ \A s, t \in customer.sales : s.opp = t.opp => s = t

\* The steps of the task at which it has read each part.
Read(part) ==
  CASE part = "row" -> {"contacts", "sales", "activities", "insert"}
    [] part = "contacts" -> {"sales", "activities", "insert"}
    [] part = "sales" -> {"activities", "insert"}
    [] part = "activities" -> {"insert"}
    [] OTHER -> {}

\* What the task has read covers its event and those that are acknowledged.
Informed ==
  \A e \in DOMAIN events : events[e].fate = "done" \/ e = task.event =>
    /\ task.pc \in Read(events[e].part) => Knows(task.snapshot, events[e])
    /\ task.pc \in {"log", "ack"} /\ customer.exists => Knows(latest, events[e])

EventsInv ==
  Typed /\ InQueue /\ InTask /\ Answered /\ Written /\ Informed /\ AnalysisCoversEvents

-----------------------------------------------------------------------------
(* Queues *)

\* A new element goes to the end of the queue.
LEMMA AppendQueue ==
  ASSUME NEW q \in Seq(Nat), NEW x \in Nat, Distinct(q), ~Holds(q, x)
  PROVE  /\ Append(q, x) \in Seq(Nat) /\ Distinct(Append(q, x))
         /\ \A e : Holds(Append(q, x), e) <=> Holds(q, e) \/ e = x
<1> DEFINE r == Append(q, x)
           n == Len(q)
<1>1. /\ r \in Seq(Nat) /\ n \in Nat /\ DOMAIN q = 1 .. n /\ DOMAIN r = 1 .. n + 1
      /\ \A i \in 1 .. n : r[i] = q[i]
      /\ r[n + 1] = x
  BY AppendProperties, LenProperties
<1> HIDE DEF r, n
<1>2. \A e : Holds(r, e) <=> Holds(q, e) \/ e = x
  <2>1. ASSUME NEW e, Holds(r, e) PROVE Holds(q, e) \/ e = x
    <3> PICK i \in 1 .. n + 1 : r[i] = e
      BY <1>1, <2>1 DEF Holds
    <3>1. i \in 1 .. n \/ i = n + 1
      BY <1>1
    <3> QED
      BY <1>1, <3>1 DEF Holds
  <2>2. ASSUME NEW e, Holds(q, e) PROVE Holds(r, e)
    BY <1>1, <2>2 DEF Holds
  <2>3. Holds(r, x)
    BY <1>1 DEF Holds
  <2> QED
    BY <2>1, <2>2, <2>3
<1>3. Distinct(r)
  BY <1>1 DEF Distinct, Holds
<1> QED
  BY <1>1, <1>2, <1>3 DEF r

\* The head of the queue leaves it.
LEMMA TailQueue ==
  ASSUME NEW q \in Seq(Nat), q # <<>>, Distinct(q)
  PROVE  /\ Tail(q) \in Seq(Nat) /\ Distinct(Tail(q)) /\ Head(q) \in Nat /\ Holds(q, Head(q))
         /\ \A e : Holds(Tail(q), e) <=> Holds(q, e) /\ e # Head(q)
<1> DEFINE r == Tail(q)
           n == Len(q)
           x == Head(q)
<1>1. /\ r \in Seq(Nat) /\ n \in Nat \ {0} /\ DOMAIN q = 1 .. n /\ DOMAIN r = 1 .. n - 1
      /\ \A i \in 1 .. n - 1 : r[i] = q[i + 1]
      /\ x = q[1] /\ x \in Nat
  BY HeadTailProperties, LenProperties, EmptySeq
<1> HIDE DEF r, n, x
<1>2. \A e : Holds(r, e) <=> Holds(q, e) /\ e # x
  <2>1. ASSUME NEW e, Holds(r, e) PROVE Holds(q, e) /\ e # x
    <3> PICK i \in 1 .. n - 1 : q[i + 1] = e
      BY <1>1, <2>1 DEF Holds
    <3>1. i + 1 \in 1 .. n /\ i + 1 # 1 /\ 1 \in 1 .. n
      BY <1>1
    <3> QED
      BY <1>1, <3>1 DEF Holds, Distinct
  <2>2. ASSUME NEW e, Holds(q, e), e # x PROVE Holds(r, e)
    <3> PICK i \in 1 .. n : q[i] = e
      BY <1>1, <2>2 DEF Holds
    <3>1. i # 1
      BY <1>1, <2>2
    <3>2. i - 1 \in 1 .. n - 1 /\ i - 1 + 1 = i
      BY <1>1, <3>1
    <3> QED
      BY <1>1, <3>2 DEF Holds
  <2> QED
    BY <2>1, <2>2
<1>3. ASSUME NEW i \in 1 .. n - 1, NEW j \in 1 .. n - 1, r[i] = r[j] PROVE i = j
  <2>1. i + 1 \in 1 .. n /\ j + 1 \in 1 .. n
    BY <1>1
  <2>2. q[i + 1] = q[j + 1]
    BY <1>1, <1>3
  <2>3. i + 1 = j + 1
    BY <1>1, <2>1, <2>2 DEF Distinct
  <2> QED
    BY <1>1, <2>3
<1>4. Holds(q, x)
  <2>1. 1 \in DOMAIN q /\ q[1] = x
    BY <1>1
  <2> QED
    BY <2>1 DEF Holds
<1>5. Distinct(r)
  BY <1>1, <1>3 DEF Distinct
<1> QED
  BY <1>1, <1>2, <1>4, <1>5 DEF r, x

\* An element comes back to the front of the queue.
LEMMA FrontQueue ==
  ASSUME NEW q \in Seq(Nat), NEW x \in Nat, Distinct(q), ~Holds(q, x)
  PROVE  /\ <<x>> \o q \in Seq(Nat) /\ Distinct(<<x>> \o q)
         /\ \A e : Holds(<<x>> \o q, e) <=> Holds(q, e) \/ e = x
<1> DEFINE r == <<x>> \o q
           n == Len(q)
<1>1. <<x>> \in Seq(Nat) /\ Len(<<x>>) = 1 /\ <<x>>[1] = x
  OBVIOUS
<1>2. /\ r \in Seq(Nat) /\ Len(r) = 1 + n /\ n \in Nat
      /\ \A i \in 1 .. 1 + n : r[i] = IF i <= 1 THEN <<x>>[i] ELSE q[i - 1]
  BY <1>1, ConcatProperties, LenProperties
<1>3. /\ DOMAIN q = 1 .. n /\ DOMAIN r = 1 .. n + 1
      /\ \A i \in 1 .. n + 1 : r[i] = IF i = 1 THEN x ELSE q[i - 1]
  <2>1. DOMAIN q = 1 .. n /\ DOMAIN r = 1 .. 1 + n
    BY <1>2, LenProperties
  <2>2. \A i \in 1 .. n + 1 : r[i] = IF i = 1 THEN x ELSE q[i - 1]
    <3> HIDE DEF r, n
    <3> TAKE i \in 1 .. n + 1
    <3>1. i \in 1 .. 1 + n /\ (i <= 1 <=> i = 1)
      BY <1>2
    <3> QED
      BY <1>1, <1>2, <3>1
  <2> HIDE DEF r, n
  <2>3. 1 + n = n + 1
    BY <1>2
  <2> QED
    BY <2>1, <2>2, <2>3
<1> HIDE DEF r, n
<1>4. \A e : Holds(r, e) <=> Holds(q, e) \/ e = x
  <2>1. ASSUME NEW e, Holds(r, e) PROVE Holds(q, e) \/ e = x
    <3> PICK i \in 1 .. n + 1 : r[i] = e
      BY <1>3, <2>1 DEF Holds
    <3>1. i = 1 \/ i - 1 \in 1 .. n
      BY <1>2
    <3> QED
      BY <1>2, <1>3, <3>1 DEF Holds
  <2>2. ASSUME NEW e, Holds(q, e) PROVE Holds(r, e)
    <3> PICK i \in 1 .. n : q[i] = e
      BY <1>3, <2>2 DEF Holds
    <3>1. i + 1 \in 1 .. n + 1 /\ i + 1 # 1 /\ i + 1 - 1 = i
      BY <1>2
    <3> QED
      BY <1>3, <3>1 DEF Holds
  <2>3. Holds(r, x)
    BY <1>2, <1>3 DEF Holds
  <2> QED
    BY <2>1, <2>2, <2>3
<1>5. ASSUME NEW i \in 1 .. n + 1, NEW j \in 1 .. n + 1, r[i] = r[j] PROVE i = j
  <2>1. CASE i = 1 /\ j = 1
    BY <2>1
  <2>2. CASE i # 1 /\ j # 1
    <3>1. i - 1 \in 1 .. n /\ j - 1 \in 1 .. n
      BY <1>2, <2>2
    <3>2. q[i - 1] = q[j - 1]
      BY <1>3, <1>5, <2>2
    <3>3. i - 1 = j - 1
      BY <1>3, <3>1, <3>2 DEF Distinct
    <3> QED
      BY <3>3
  <2>3. CASE i = 1 /\ j # 1
    <3>1. j - 1 \in 1 .. n /\ q[j - 1] = x
      BY <1>2, <1>3, <1>5, <2>3
    <3> QED
      BY <1>3, <3>1 DEF Holds
  <2>4. CASE i # 1 /\ j = 1
    <3>1. i - 1 \in 1 .. n /\ q[i - 1] = x
      BY <1>2, <1>3, <1>5, <2>4
    <3> QED
      BY <1>3, <3>1 DEF Holds
  <2> QED
    BY <2>1, <2>2, <2>3, <2>4
<1>6. Distinct(r)
  BY <1>3, <1>5 DEF Distinct
<1> QED
  BY <1>2, <1>4, <1>6 DEF r

-----------------------------------------------------------------------------
(* Events *)

\* The events are rows, numbered from 1.
LEMMA Rows ==
  ASSUME Typed
  PROVE  /\ Len(events) \in Nat /\ DOMAIN events = 1 .. Len(events)
         /\ \A e \in DOMAIN events : events[e] \in EventRow
BY LenProperties, ElementOfSeq DEF Typed

\* One row changes.
LEMMA OneRow ==
  ASSUME Typed, NEW e \in DOMAIN events, NEW row \in EventRow, events' = [events EXCEPT ![e] = row]
  PROVE  /\ events' \in Seq(EventRow) /\ DOMAIN events' = DOMAIN events
         /\ events'[e] = row
         /\ \A d \in DOMAIN events : d # e => events'[d] = events[d]
<1>1. e \in 1 .. Len(events) /\ events \in Seq(EventRow)
  BY Rows DEF Typed
<1>2. events' \in Seq(EventRow)
  BY <1>1, ExceptSeq
<1> QED
  BY <1>2

\* A row is added.
LEMMA NewRow ==
  ASSUME Typed, NEW row \in EventRow, events' = Append(events, row)
  PROVE  /\ events' \in Seq(EventRow) /\ DOMAIN events' = DOMAIN events \cup {Len(events) + 1}
         /\ Len(events) + 1 \notin DOMAIN events
         /\ events'[Len(events) + 1] = row
         /\ \A d \in DOMAIN events : events'[d] = events[d]
<1>1. events \in Seq(EventRow)
  BY DEF Typed
<1>2. /\ events' \in Seq(EventRow) /\ Len(events') = Len(events) + 1
      /\ \A d \in 1 .. Len(events) : events'[d] = events[d]
      /\ events'[Len(events) + 1] = row
  BY <1>1, AppendProperties
<1>3. DOMAIN events' = 1 .. Len(events) + 1
  BY <1>2, LenProperties
<1> QED
  BY <1>2, <1>3, Rows

\* What remains true when the worker rests and no event becomes done.
LEMMA Undisturbed ==
  ASSUME EventsInv, UNCHANGED <<customer, latest, task>>, DOMAIN events' = DOMAIN events,
         \A e \in DOMAIN events : /\ events'[e].part = events[e].part
                                  /\ events'[e].version = events[e].version
                                  /\ events'[e].opp = events[e].opp
                                  /\ events'[e].fate = "done" => events[e].fate = "done"
  PROVE  Written' /\ Informed' /\ AnalysisCoversEvents'
<1>1. Written'
  BY DEF EventsInv, Written
<1>2. Informed'
  BY DEF EventsInv, Informed, Knows, KnowsSale
<1>3. AnalysisCoversEvents'
  BY DEF EventsInv, AnalysisCoversEvents, Knows, KnowsSale
<1> QED
  BY <1>1, <1>2, <1>3

\* The queue and the task still fit when no event enters or leaves either.
LEMMA SamePlaces ==
  ASSUME InQueue, InTask, UNCHANGED <<queue, task>>, DOMAIN events' = DOMAIN events,
         \A e \in DOMAIN events :
           /\ (events'[e].fate = "queued") <=> (events[e].fate = "queued")
           /\ (events'[e].fate = "delivered") <=> (events[e].fate = "delivered")
  PROVE  InQueue' /\ InTask'
<1>1. \A e : Holds(queue', e) <=> Holds(queue, e)
  BY DEF Holds
<1>2. Distinct(queue)'
  BY DEF InQueue, Distinct
<1>3. InQueue'
  BY <1>1, <1>2 DEF InQueue, Holds
<1>4. InTask'
  BY DEF InTask
<1> QED
  BY <1>3, <1>4

LEMMA InitEvents == Init => EventsInv
<1> SUFFICES ASSUME Init PROVE EventsInv
  OBVIOUS
<1>1. /\ events \in Seq(EventRow) /\ DOMAIN events = {1}
      /\ events[1] = Event("row", 0, 1)
  BY DEF Init, Event, EventRow, Fates, Answers
<1>2. Typed
  <2>1. customer \in Record
    <3>1. PICK version \in [Parts -> Nat] : version = [p \in Parts |-> 1]
      OBVIOUS
    <3>2. [opp : {1, 2}, version : {1}] \subseteq Opportunity
      BY DEF Opportunity
    <3>3. PICK sales \in SUBSET Opportunity : sales = [opp : {1, 2}, version : {1}]
      BY <3>2
    <3>4. customer = [exists |-> TRUE, version |-> version, opened |-> 2, sales |-> sales]
      BY <3>1, <3>3 DEF Init
    <3>5. TRUE \in BOOLEAN /\ 2 \in Nat
      OBVIOUS
    <3> QED
      BY <3>4, <3>5 DEF Record
  <2>2. Nothing \in Snapshot
    BY DEF Nothing, Snapshot
  <2> QED
    BY <1>1, <2>1, <2>2 DEF Init, Typed, Task, NoTask, Pcs
<1>3. InQueue
  BY <1>1 DEF Init, InQueue, Distinct, Holds, Event
<1>4. InTask
  BY <1>1 DEF Init, InTask, NoTask, Event
<1>5. Answered /\ AnalysisCoversEvents
  BY <1>1 DEF Init, Answered, QueuedIsKept, AnalysisCoversEvents, Event
<1>6. Written
  <2>1. /\ customer.opened = 2 /\ customer.sales = [opp : {1, 2}, version : {1}]
        /\ customer.version["row"] = 1
    BY DEF Init
  <2>2. /\ \A s \in customer.sales : s.opp \in {1, 2} /\ s.version = 1
        /\ \A s, t \in customer.sales : s.opp = t.opp => s = t
    BY <2>1
  <2>3. events[1].part = "row" /\ events[1].version = 1
    BY <1>1 DEF Event
  <2> QED
    BY <1>1, <2>1, <2>2, <2>3 DEF Written
<1>7. Informed
  BY <1>1 DEF Init, Informed, NoTask, Event
<1> QED
  BY <1>2, <1>3, <1>4, <1>5, <1>6, <1>7 DEF EventsInv

-----------------------------------------------------------------------------
(* The backend *)

\* What is written while the worker goes on with its task: an opportunity that is gone
\* does not come back, and the customer neither.
LEMMA InformedStays ==
  ASSUME EventsInv, UNCHANGED <<task, latest>>, customer'.exists => customer.exists,
         \A opp \in 0 .. customer.opened :
           (\A s \in customer.sales : s.opp # opp) => (\A s \in customer'.sales : s.opp # opp),
         \A e \in DOMAIN events' : events'[e].fate = "done" \/ e = task.event =>
           e \in DOMAIN events /\ events'[e] = events[e]
  PROVE  Informed' /\ AnalysisCoversEvents'
<1>1. Typed /\ customer.opened \in Nat /\ \A e \in DOMAIN events : events[e] \in EventRow
  BY Rows DEF EventsInv, Typed, Record
<1>2. ASSUME NEW e \in DOMAIN events', events'[e].fate = "done" \/ e = task.event
      PROVE  /\ Knows(task.snapshot, events[e]) => Knows(task.snapshot, events[e])'
             /\ Knows(latest, events[e]) => Knows(latest, events[e])'
  <2>1. e \in DOMAIN events /\ events'[e] = events[e]
    BY <1>2
  <2>2. CASE events[e].part # "sales"
    BY <2>1, <2>2 DEF Knows
  <2>3. CASE events[e].part = "sales"
    <3>1. events[e].opp \in 0 .. customer.opened
      BY <1>1, <2>1, <2>3 DEF EventsInv, Written, EventRow
    <3>2. (\A s \in customer.sales : s.opp # events[e].opp)
            => (\A s \in customer'.sales : s.opp # events[e].opp)
      BY <3>1
    <3> QED
      BY <2>1, <2>3, <3>2 DEF Knows, KnowsSale
  <2> QED
    BY <2>2, <2>3
<1>3. Informed'
  BY <1>2 DEF EventsInv, Informed
<1>4. AnalysisCoversEvents'
  BY <1>2 DEF EventsInv, AnalysisCoversEvents
<1> QED
  BY <1>3, <1>4

\* A change is a new version and a new event.
LEMMA CommitsStep ==
  ASSUME EventsInv, NEW part \in Parts \cup {"sales"}, NEW opp \in Nat, NEW version \in Nat,
         NEW opened \in Nat, NEW sales \in SUBSET Opportunity,
         Commits(part, opp, version, opened, sales),
         part \in Parts => version = customer.version[part] + 1,
         part = "sales" => opp <= opened /\ \A s \in sales : s.opp = opp => s.version >= version,
         customer.opened <= opened,
         \A s \in sales : s.opp <= opened,
         \A s, t \in sales : s.opp = t.opp => s = t,
         \A s \in sales : s.opp <= customer.opened =>
           \E t \in customer.sales : t.opp = s.opp /\ t.version <= s.version
  PROVE  EventsInv'
<1> DEFINE row == Event(part, opp, version)
           n == Len(events) + 1
<1>1. Typed /\ customer.version \in [Parts -> Nat] /\ customer.opened \in Nat
      /\ customer.sales \subseteq Opportunity
  BY DEF EventsInv, Typed, Record
<1>2. row \in EventRow /\ row.part = part /\ row.opp = opp /\ row.version = version
      /\ row.fate = "committed" /\ row.answer = "none"
  BY <1>1 DEF Event, EventRow, Fates, Answers
<1>3. /\ events' \in Seq(EventRow) /\ DOMAIN events' = DOMAIN events \cup {n}
      /\ n \notin DOMAIN events /\ events'[n] = row
      /\ \A d \in DOMAIN events : events'[d] = events[d]
  BY <1>1, <1>2, NewRow DEF Commits
<1>4. UNCHANGED <<queue, ready, task, latest, mishaps>> /\ customer.exists
  BY DEF Commits
<1>5. /\ customer' \in Record /\ customer'.opened = opened /\ customer'.sales = sales
      /\ customer'.version = Newer(part) /\ customer'.exists
  <2>1. Newer(part) \in [Parts -> Nat]
    BY <1>1 DEF Newer
  <2>2. customer' = [customer EXCEPT !.version = Newer(part), !.opened = opened, !.sales = sales]
    BY DEF Commits
  <2> QED
    BY <1>1, <1>4, <2>1, <2>2 DEF Typed, Record
<1>6. /\ \A p \in Parts : customer.version[p] <= customer'.version[p]
      /\ part \in Parts => customer'.version[part] = version
  BY <1>1, <1>5 DEF Newer
<1> HIDE DEF row, n
<1>7. Typed'
  BY <1>3, <1>4, <1>5 DEF EventsInv, Typed
<1>8. InQueue'
  BY <1>2, <1>3, <1>4 DEF EventsInv, InQueue, Holds, Distinct
<1>9. task.event # n
  BY <1>1, <1>3, Rows DEF EventsInv, InTask, NoTask, n
<1>10. InTask'
  BY <1>2, <1>3, <1>4, <1>9 DEF EventsInv, InTask
<1>11. Answered'
  BY <1>2, <1>3 DEF EventsInv, Answered, QueuedIsKept
<1>12. Written'
  <2>1. ASSUME NEW e \in DOMAIN events'
        PROVE  /\ events'[e].part \in Parts =>
                    events'[e].version <= customer'.version[events'[e].part]
               /\ events'[e].part = "sales" =>
                    /\ events'[e].opp <= customer'.opened
                    /\ \A s \in customer'.sales :
                         s.opp = events'[e].opp => s.version >= events'[e].version
    <3>1. CASE e = n
      BY <1>2, <1>3, <1>5, <1>6, <3>1
    <3>2. CASE e \in DOMAIN events
      <4>1. events'[e] = events[e] /\ events[e] \in EventRow
        BY <1>1, <1>3, <3>2, Rows
      <4>2. ASSUME events[e].part \in Parts
            PROVE  events[e].version <= customer'.version[events[e].part]
        <5>1. PICK p \in Parts : p = events[e].part
          BY <4>2
        <5>2. /\ customer.version[p] \in Nat /\ customer'.version[p] \in Nat
              /\ events[e].version \in Nat /\ events[e].version <= customer.version[p]
              /\ customer.version[p] <= customer'.version[p]
          BY <1>1, <1>5, <1>6, <3>2, <4>1, <5>1 DEF EventsInv, Written, EventRow, Record
        <5> QED
          BY <5>1, <5>2
      <4>3. ASSUME events[e].part = "sales"
            PROVE  /\ events[e].opp <= opened
                   /\ \A s \in sales : s.opp = events[e].opp => s.version >= events[e].version
        <5>1. /\ events[e].opp \in Nat /\ events[e].version \in Nat
              /\ events[e].opp <= customer.opened
              /\ \A t \in customer.sales : t.opp = events[e].opp => t.version >= events[e].version
          BY <3>2, <4>1, <4>3 DEF EventsInv, Written, EventRow
        <5>2. events[e].opp <= opened
          BY <1>1, <5>1
        <5>3. ASSUME NEW s \in sales, s.opp = events[e].opp PROVE s.version >= events[e].version
          <6>1. PICK t \in customer.sales : t.opp = s.opp /\ t.version <= s.version
            BY <5>1, <5>3
          <6>2. t.version \in Nat /\ s.version \in Nat /\ t.version >= events[e].version
            BY <1>1, <5>1, <5>3, <6>1 DEF Opportunity
          <6> QED
            BY <5>1, <6>1, <6>2
        <5> QED
          BY <5>2, <5>3
      <4> QED
        BY <1>5, <4>1, <4>2, <4>3
    <3> QED
      BY <1>3, <3>1, <3>2
  <2> QED
    BY <1>5, <2>1 DEF Written
<1>13. Informed' /\ AnalysisCoversEvents'
  <2>1. \A e \in DOMAIN events' : events'[e].fate = "done" \/ e = task.event =>
          e \in DOMAIN events /\ events'[e] = events[e]
    BY <1>2, <1>3, <1>9
  <2>2. \A o \in 0 .. customer.opened :
          (\A s \in customer.sales : s.opp # o) => (\A s \in customer'.sales : s.opp # o)
    BY <1>1, <1>5
  <2> QED
    BY <1>4, <2>1, <2>2, InformedStays
<1> QED
  BY <1>7, <1>8, <1>10, <1>11, <1>12, <1>13 DEF EventsInv

\* A part of its own gets its next version.
LEMMA ReviseStep ==
  ASSUME EventsInv, NEW part \in Parts, Revise(part)
  PROVE  EventsInv'
<1>1. /\ customer.version[part] + 1 \in Nat /\ customer.opened \in Nat
      /\ customer.sales \in SUBSET Opportunity
  BY DEF EventsInv, Typed, Record
<1>2. PICK version \in Nat, opened \in Nat, sales \in SUBSET Opportunity :
        version = customer.version[part] + 1 /\ opened = customer.opened /\ sales = customer.sales
  BY <1>1
<1>3. Commits(part, 0, version, opened, sales)
  BY <1>2 DEF Revise
<1>4. \A s \in sales : s.version <= s.version
  BY DEF Opportunity
<1>5. part # "sales"
  OBVIOUS
<1> QED
  BY <1>2, <1>3, <1>4, <1>5, CommitsStep DEF EventsInv, Written

LEMMA CreateSalesStep ==
  ASSUME EventsInv, CreateSalesOpportunity
  PROVE  EventsInv'
<1>1. /\ customer.opened \in Nat /\ customer.sales \in SUBSET Opportunity
      /\ \A s \in customer.sales : s.opp <= customer.opened /\ s.opp \in Nat /\ s.version \in Nat
      /\ \A s, t \in customer.sales : s.opp = t.opp => s = t
  BY DEF EventsInv, Typed, Record, Written, Opportunity
<1>2. PICK opp \in Nat : opp = customer.opened + 1
  BY <1>1
<1>3. PICK sales \in SUBSET Opportunity :
        sales = customer.sales \cup {[opp |-> opp, version |-> 1]}
  <2>1. [opp |-> opp, version |-> 1] \in Opportunity
    BY DEF Opportunity
  <2> QED
    BY <1>1, <2>1
<1>4. Commits("sales", opp, 1, opp, sales)
  BY <1>2, <1>3 DEF CreateSalesOpportunity
<1>5. /\ \A s \in sales : s.opp = opp => s.version >= 1
      /\ \A s \in sales : s.opp <= opp
      /\ \A s, t \in sales : s.opp = t.opp => s = t
      /\ \A s \in sales : s.opp <= customer.opened =>
           \E t \in customer.sales : t.opp = s.opp /\ t.version <= s.version
  BY <1>1, <1>2, <1>3
<1> QED
  BY <1>1, <1>2, <1>4, <1>5, CommitsStep

LEMMA UpdateSalesStep ==
  ASSUME EventsInv, NEW s \in customer.sales, UpdateSalesOpportunity(s)
  PROVE  EventsInv'
<1>1. /\ customer.opened \in Nat /\ customer.sales \in SUBSET Opportunity /\ s \in Opportunity
      /\ \A t \in customer.sales : t.opp <= customer.opened /\ t.opp \in Nat /\ t.version \in Nat
      /\ \A t, u \in customer.sales : t.opp = u.opp => t = u
  BY DEF EventsInv, Typed, Record, Written, Opportunity
<1>2. PICK opened \in Nat : opened = customer.opened
  BY <1>1
<1>3. PICK next \in Opportunity : /\ next = [s EXCEPT !.version = @ + 1]
                                 /\ next.opp = s.opp /\ next.version = s.version + 1
  <2>1. PICK o \in Opportunity : o = s
    BY <1>1
  <2>2. /\ o.version + 1 \in Nat
        /\ [o EXCEPT !.version = @ + 1] = [opp |-> o.opp, version |-> o.version + 1]
    BY DEF Opportunity
  <2>3. [o EXCEPT !.version = @ + 1] \in Opportunity
    BY <2>2 DEF Opportunity
  <2> QED
    BY <2>1, <2>2, <2>3
<1>4. PICK sales \in SUBSET Opportunity : sales = (customer.sales \ {s}) \cup {next}
  BY <1>1
<1>5. PICK opp \in Nat, version \in Nat : opp = s.opp /\ version = s.version + 1
  BY <1>1
<1>6. Commits("sales", opp, version, opened, sales)
  BY <1>2, <1>3, <1>4, <1>5 DEF UpdateSalesOpportunity
<1>7. /\ opp <= opened
      /\ \A t \in sales : t.opp = opp => t.version >= version
      /\ \A t \in sales : t.opp <= opened
      /\ \A t, u \in sales : t.opp = u.opp => t = u
      /\ \A t \in sales : t.opp <= customer.opened =>
           \E u \in customer.sales : u.opp = t.opp /\ u.version <= t.version
  <2>1. \A t \in sales : t = next \/ (t \in customer.sales /\ t.opp # s.opp)
    BY <1>1, <1>4
  <2>2. ASSUME NEW t \in sales
        PROVE  (t.opp = opp => t.version >= version) /\ t.opp <= opened
    <3>1. s.opp <= customer.opened /\ next.version >= version
      BY <1>1, <1>3, <1>5
    <3>2. CASE t = next
      BY <1>2, <1>3, <3>1, <3>2
    <3>3. CASE t \in customer.sales /\ t.opp # s.opp
      BY <1>1, <1>2, <1>5, <3>3
    <3> QED
      BY <2>1, <3>2, <3>3
  <2>3. \A t, u \in sales : t.opp = u.opp => t = u
    BY <1>1, <1>3, <2>1
  <2>4. ASSUME NEW t \in sales
        PROVE  \E u \in customer.sales : u.opp = t.opp /\ u.version <= t.version
    <3>1. CASE t = next
      <4>1. s.opp = t.opp /\ s.version <= t.version
        BY <1>1, <1>3, <3>1
      <4> QED
        BY <4>1
    <3>2. CASE t \in customer.sales
      <4>1. t.version <= t.version
        BY <1>1, <3>2
      <4> QED
        BY <3>2, <4>1
    <3> QED
      BY <2>1, <3>1, <3>2
  <2> QED
    BY <1>1, <1>2, <1>5, <2>2, <2>3, <2>4
<1> QED
  BY <1>2, <1>6, <1>7, CommitsStep

LEMMA RemoveSalesStep ==
  ASSUME EventsInv, NEW s \in customer.sales, RemoveSalesOpportunity(s)
  PROVE  EventsInv'
<1>1. /\ customer.opened \in Nat /\ customer.sales \in SUBSET Opportunity /\ s \in Opportunity
      /\ \A t \in customer.sales : t.opp <= customer.opened /\ t.opp \in Nat /\ t.version \in Nat
      /\ \A t, u \in customer.sales : t.opp = u.opp => t = u
  BY DEF EventsInv, Typed, Record, Written, Opportunity
<1>2. PICK opened \in Nat : opened = customer.opened
  BY <1>1
<1>3. PICK sales \in SUBSET Opportunity : sales = customer.sales \ {s}
  BY <1>1
<1>4. PICK opp \in Nat, version \in Nat : opp = s.opp /\ version = s.version + 1
  BY <1>1
<1>5. Commits("sales", opp, version, opened, sales)
  BY <1>2, <1>3, <1>4 DEF RemoveSalesOpportunity
<1>6. /\ opp <= opened
      /\ \A t \in sales : t.opp = opp => t.version >= version
      /\ \A t \in sales : t.opp <= opened
      /\ \A t, u \in sales : t.opp = u.opp => t = u
      /\ \A t \in sales : t.opp <= customer.opened =>
           \E u \in customer.sales : u.opp = t.opp /\ u.version <= t.version
  BY <1>1, <1>2, <1>3, <1>4
<1>7. customer.opened <= opened
  BY <1>2
<1>8. "sales" \in Parts \cup {"sales"} /\ "sales" \notin Parts
  OBVIOUS
<1> QED
  BY <1>5, <1>6, <1>7, <1>8, CommitsStep

\* A request is a new event without a version.
LEMMA RequestStep ==
  ASSUME EventsInv, RequestAiAnalysis
  PROVE  EventsInv'
<1> DEFINE row == Event("request", 0, 0)
           n == Len(events) + 1
<1>1. Typed
  BY DEF EventsInv
<1>2. row \in EventRow /\ row.part = "request" /\ row.fate = "committed" /\ row.answer = "none"
  BY DEF Event, EventRow, Fates, Answers
<1>3. /\ events' \in Seq(EventRow) /\ DOMAIN events' = DOMAIN events \cup {n}
      /\ n \notin DOMAIN events /\ events'[n] = row
      /\ \A d \in DOMAIN events : events'[d] = events[d]
  BY <1>1, <1>2, NewRow DEF RequestAiAnalysis
<1>4. UNCHANGED <<customer, queue, ready, task, latest, mishaps>>
  BY DEF RequestAiAnalysis
<1> HIDE DEF row, n
<1>5. Typed'
  BY <1>3, <1>4 DEF EventsInv, Typed
<1>6. InQueue'
  BY <1>2, <1>3, <1>4 DEF EventsInv, InQueue, Holds, Distinct
<1>7. task.event # n
  BY <1>1, <1>3, Rows DEF EventsInv, InTask, NoTask, n
<1>8. InTask'
  BY <1>2, <1>3, <1>4, <1>7 DEF EventsInv, InTask
<1>9. Answered'
  BY <1>2, <1>3 DEF EventsInv, Answered, QueuedIsKept
<1>10. Written'
  BY <1>2, <1>3, <1>4 DEF EventsInv, Written
<1>11. Informed' /\ AnalysisCoversEvents'
  <2>1. \A e \in DOMAIN events' : events'[e].fate = "done" \/ e = task.event =>
          e \in DOMAIN events /\ events'[e] = events[e]
    BY <1>2, <1>3, <1>7
  <2> QED
    BY <1>4, <2>1, InformedStays
<1> QED
  BY <1>5, <1>6, <1>8, <1>9, <1>10, <1>11 DEF EventsInv

\* A deleted customer has no analysis.
LEMMA RemoveStep ==
  ASSUME EventsInv, Remove
  PROVE  EventsInv'
<1>1. /\ UNCHANGED <<events, queue, ready, task, mishaps>> /\ latest' = Nothing /\ ~customer'.exists
      /\ customer'.version = customer.version /\ customer'.opened = customer.opened
      /\ customer'.sales = {} /\ customer' \in Record
  BY DEF Remove, EventsInv, Typed, Record
<1>2. Typed'
  BY <1>1 DEF EventsInv, Typed, Nothing, Snapshot
<1>3. InQueue' /\ InTask' /\ Answered'
  BY <1>1 DEF EventsInv, InQueue, InTask, Answered, QueuedIsKept, Holds, Distinct
<1>4. Written'
  BY <1>1 DEF EventsInv, Written
<1>5. Informed'
  <2> SUFFICES ASSUME NEW e \in DOMAIN events, events[e].fate = "done" \/ e = task.event,
                      task.pc \in Read(events[e].part)
               PROVE  Knows(task.snapshot, events[e])'
    BY <1>1 DEF Informed
  <2>1. Knows(task.snapshot, events[e])
    BY DEF EventsInv, Informed
  <2> QED
    BY <1>1, <2>1 DEF Knows, KnowsSale
<1>6. AnalysisCoversEvents'
  BY <1>1 DEF AnalysisCoversEvents
<1> QED
  BY <1>2, <1>3, <1>4, <1>5, <1>6 DEF EventsInv

\* The event that is published is sent or dropped.
LEMMA PublishStep ==
  ASSUME EventsInv, NEW e \in DOMAIN events, Publish(e)
  PROVE  EventsInv'
<1> DEFINE row == IF ready THEN [events[e] EXCEPT !.fate = "sending"] ELSE Dropped(events[e])
<1>1. Typed /\ events[e] \in EventRow /\ events[e].fate = "committed"
  BY Rows DEF EventsInv, Publish
<1>2. /\ row \in EventRow /\ row.fate \in {"sending", "dropped"}
      /\ row.part = events[e].part /\ row.version = events[e].version
      /\ row.opp = events[e].opp
      /\ row.answer = "queued" => events[e].answer = "queued"
      /\ row.fate = "dropped" /\ row.part = "request" => row.answer = "unavailable"
  BY <1>1 DEF Dropped, EventRow, Fates, Answers
<1>3. /\ events' \in Seq(EventRow) /\ DOMAIN events' = DOMAIN events
      /\ events'[e] = row
      /\ \A d \in DOMAIN events : d # e => events'[d] = events[d]
  <2>1. events' = [events EXCEPT ![e] = row]
    BY DEF Publish
  <2> HIDE DEF row
  <2> QED
    BY <1>1, <1>2, <2>1, OneRow
<1>4. UNCHANGED <<customer, queue, ready, task, latest, mishaps>>
  BY DEF Publish
<1> HIDE DEF row
<1>5. Typed'
  BY <1>3, <1>4 DEF EventsInv, Typed
<1>6. InQueue' /\ InTask'
  <2>1. \A d \in DOMAIN events : /\ (events'[d].fate = "queued") <=> (events[d].fate = "queued")
                                 /\ (events'[d].fate = "delivered") <=> (events[d].fate = "delivered")
    BY <1>1, <1>2, <1>3
  <2> QED
    BY <1>3, <1>4, <2>1, SamePlaces DEF EventsInv
<1>7. Answered'
  BY <1>1, <1>2, <1>3 DEF EventsInv, Answered, QueuedIsKept
<1>8. Written' /\ Informed' /\ AnalysisCoversEvents'
  BY <1>2, <1>3, <1>4, Undisturbed
<1> QED
  BY <1>5, <1>6, <1>7, <1>8 DEF EventsInv

\* The event that the broker stores goes to the end of the queue.
LEMMA EnqueueStep ==
  ASSUME EventsInv, NEW e \in DOMAIN events, Enqueue(e)
  PROVE  EventsInv'
<1> DEFINE row == [events[e] EXCEPT !.fate = "queued"]
<1>1. Typed /\ events[e] \in EventRow /\ events[e].fate = "sending" /\ e \in Nat
  BY Rows DEF EventsInv, Enqueue
<1>2. /\ row \in EventRow /\ row.fate = "queued"
      /\ row.part = events[e].part /\ row.version = events[e].version
      /\ row.opp = events[e].opp
  BY <1>1 DEF EventRow, Fates
<1>3. /\ events' \in Seq(EventRow) /\ DOMAIN events' = DOMAIN events
      /\ events'[e] = row
      /\ \A d \in DOMAIN events : d # e => events'[d] = events[d]
  <2>1. events' = [events EXCEPT ![e] = row]
    BY DEF Enqueue, Becomes
  <2> HIDE DEF row
  <2> QED
    BY <1>1, <1>2, <2>1, OneRow
<1>4. UNCHANGED <<customer, ready, task, latest, mishaps>> /\ queue' = Append(queue, e)
  BY DEF Enqueue
<1> HIDE DEF row
<1>5. Typed'
  BY <1>3, <1>4 DEF EventsInv, Typed
<1>6. InQueue'
  <2>1. queue \in Seq(Nat) /\ Distinct(queue) /\ ~Holds(queue, e)
    BY <1>1 DEF EventsInv, InQueue
  <2>2. queue' \in Seq(Nat) /\ Distinct(queue') /\ \A d : Holds(queue', d) <=> Holds(queue, d) \/ d = e
    BY <1>1, <1>4, <2>1, AppendQueue
  <2>3. \A d : Holds(queue', d) <=> d \in DOMAIN events' /\ events'[d].fate = "queued"
    BY <1>2, <1>3, <2>2 DEF EventsInv, InQueue
  <2>4. InQueue' <=> /\ queue' \in Seq(Nat) /\ Distinct(queue')
                     /\ \A d : Holds(queue', d) <=> d \in DOMAIN events' /\ events'[d].fate = "queued"
    BY DEF InQueue, Holds, Distinct
  <2> QED
    BY <2>2, <2>3, <2>4
<1>7. InTask'
  BY <1>1, <1>2, <1>3, <1>4 DEF EventsInv, InTask
<1>8. Answered'
  BY <1>2, <1>3 DEF EventsInv, Answered, QueuedIsKept
<1>9. Written' /\ Informed' /\ AnalysisCoversEvents'
  BY <1>2, <1>3, <1>4, Undisturbed
<1> QED
  BY <1>5, <1>6, <1>7, <1>8, <1>9 DEF EventsInv

\* Whoever waits is told that his request is queued, which it is.
LEMMA ConfirmStep ==
  ASSUME EventsInv, NEW e \in DOMAIN events, Confirm(e)
  PROVE  EventsInv'
<1> DEFINE row == [events[e] EXCEPT !.answer = "queued"]
<1>1. Typed /\ events[e] \in EventRow
  BY Rows DEF EventsInv
<1>2. /\ row \in EventRow /\ row.fate = events[e].fate
      /\ row.part = events[e].part /\ row.version = events[e].version
      /\ row.opp = events[e].opp
      /\ row.fate \in Reached
  BY <1>1 DEF EventRow, Fates, Answers, Confirm, Reached, EventsInv, Answered
<1>3. /\ events' \in Seq(EventRow) /\ DOMAIN events' = DOMAIN events
      /\ events'[e] = row
      /\ \A d \in DOMAIN events : d # e => events'[d] = events[d]
  <2>1. events' = [events EXCEPT ![e] = row]
    BY DEF Confirm
  <2> HIDE DEF row
  <2> QED
    BY <1>1, <1>2, <2>1, OneRow
<1>4. UNCHANGED <<customer, queue, ready, task, latest, mishaps>>
  BY DEF Confirm
<1> HIDE DEF row
<1>5. Typed'
  BY <1>3, <1>4 DEF EventsInv, Typed
<1>6. InQueue' /\ InTask'
  <2>1. \A d \in DOMAIN events : /\ (events'[d].fate = "queued") <=> (events[d].fate = "queued")
                                 /\ (events'[d].fate = "delivered") <=> (events[d].fate = "delivered")
    BY <1>1, <1>2, <1>3
  <2> QED
    BY <1>3, <1>4, <2>1, SamePlaces DEF EventsInv
<1>7. Answered'
  BY <1>2, <1>3 DEF EventsInv, Answered, QueuedIsKept, Reached
<1>8. Written' /\ Informed' /\ AnalysisCoversEvents'
  BY <1>2, <1>3, <1>4, Undisturbed
<1> QED
  BY <1>5, <1>6, <1>7, <1>8 DEF EventsInv

\* Losing what is on the way to the broker touches nothing that has reached it.
LEMMA AbandonStep ==
  ASSUME EventsInv, NEW fates \in SUBSET {"committed", "sending"}, "sending" \in fates,
         events' = [e \in DOMAIN events |-> Abandoned(events[e], fates)],
         UNCHANGED <<customer, queue, task, latest>>, ready' \in BOOLEAN, mishaps' \in Nat
  PROVE  EventsInv'
<1>1. Typed /\ Len(events) \in Nat /\ DOMAIN events = 1 .. Len(events)
      /\ \A e \in DOMAIN events : events[e] \in EventRow
  BY Rows DEF EventsInv
<1>2. ASSUME NEW e \in DOMAIN events
      PROVE  LET row == Abandoned(events[e], fates) IN
             /\ row \in EventRow
             /\ row.part = events[e].part /\ row.version = events[e].version
             /\ row.opp = events[e].opp
             /\ \/ row.fate = events[e].fate
                \/ row.fate = "dropped" /\ events[e].fate \in {"committed", "sending"}
             /\ row.answer = events[e].answer \/ row.answer = "unavailable"
             /\ row.fate = "dropped" /\ row.part = "request" =>
                  row.answer = "unavailable" \/ events[e].fate = "dropped"
  <2> DEFINE event == events[e]
  <2>1. event \in EventRow
    BY <1>1
  <2> HIDE DEF event
  <2>2. CASE event.fate \in fates
    <3>1. Abandoned(event, fates) = Dropped(event)
      BY <2>2 DEF Abandoned
    <3> QED
      BY <2>1, <2>2, <3>1 DEF Dropped, EventRow, Fates, Answers, event
  <2>3. CASE event.fate \notin fates
    <3>1. Abandoned(event, fates) \in {event, [event EXCEPT !.answer = "unavailable"]}
      BY <2>3 DEF Abandoned
    <3>2. ASSUME NEW row \in {event, [event EXCEPT !.answer = "unavailable"]}
          PROVE  /\ row \in EventRow /\ row.part = event.part /\ row.version = event.version
                 /\ row.opp = event.opp /\ row.fate = event.fate
                 /\ row.answer = event.answer \/ row.answer = "unavailable"
      BY <2>1 DEF EventRow, Answers
    <3>3. /\ Abandoned(event, fates) \in EventRow /\ Abandoned(event, fates).part = event.part
          /\ Abandoned(event, fates).version = event.version
          /\ Abandoned(event, fates).opp = event.opp
          /\ Abandoned(event, fates).fate = event.fate
          /\ \/ Abandoned(event, fates).answer = event.answer
             \/ Abandoned(event, fates).answer = "unavailable"
      BY <3>1, <3>2
    <3> QED
      BY <3>3 DEF event
  <2> QED
    BY <2>2, <2>3
<1>3. DOMAIN events' = DOMAIN events /\ \A e \in DOMAIN events : events'[e] = Abandoned(events[e], fates)
  OBVIOUS
<1>4. events' \in Seq(EventRow)
  <2>1. events' \in [1 .. Len(events) -> EventRow]
    BY <1>1, <1>2
  <2> QED
    BY <1>1, <2>1, SeqDef
<1>5. Typed'
  BY <1>4 DEF EventsInv, Typed
<1>6. InQueue' /\ InTask'
  <2>1. \A e \in DOMAIN events : /\ (events'[e].fate = "queued") <=> (events[e].fate = "queued")
                                 /\ (events'[e].fate = "delivered") <=> (events[e].fate = "delivered")
    BY <1>2, <1>3
  <2> QED
    BY <1>3, <2>1, SamePlaces DEF EventsInv
<1>7. Answered'
  <2> SUFFICES ASSUME NEW e \in DOMAIN events
               PROVE  /\ events'[e].answer = "queued" => events'[e].fate \in Reached
                      /\ events'[e].fate = "dropped" /\ events'[e].part = "request" =>
                           events'[e].answer = "unavailable"
    BY <1>3 DEF Answered, QueuedIsKept, Reached
  <2>1. /\ events[e].answer = "queued" => events[e].fate \in Reached
        /\ events[e].fate = "dropped" /\ events[e].part = "request" => events[e].answer = "unavailable"
    BY DEF EventsInv, Answered, QueuedIsKept, Reached
  <2> QED
    BY <1>2, <1>3, <2>1 DEF Reached
<1>8. Written' /\ Informed' /\ AnalysisCoversEvents'
  <2>1. \A e \in DOMAIN events : /\ events'[e].part = events[e].part
                                 /\ events'[e].version = events[e].version
                                 /\ events'[e].opp = events[e].opp
                                 /\ events'[e].fate = "done" => events[e].fate = "done"
    BY <1>2, <1>3
  <2> QED
    BY <1>3, <2>1, Undisturbed
<1> QED
  BY <1>5, <1>6, <1>7, <1>8 DEF EventsInv

LEMMA LoseConnectionStep ==
  ASSUME EventsInv, LoseConnection
  PROVE  EventsInv'
<1>1. events' = [e \in DOMAIN events |-> Abandoned(events[e], {"sending"})]
  BY DEF LoseConnection
<1>2. UNCHANGED <<customer, queue, task, latest>> /\ ready' \in BOOLEAN /\ mishaps' \in Nat
  <2>1. UNCHANGED <<customer, queue, task, latest>> /\ ready' = FALSE /\ mishaps' = mishaps + 1
    BY Zenon DEF LoseConnection, Mishap
  <2>2. mishaps' \in Nat
    BY <2>1 DEF EventsInv, Typed
  <2>3. ready' \in BOOLEAN
    BY Zenon, <2>1
  <2> QED
    BY <2>1, <2>2, <2>3
<1> QED
  BY <1>1, <1>2, AbandonStep

LEMMA RestartServerStep ==
  ASSUME EventsInv, RestartServer
  PROVE  EventsInv'
<1>1. events' = [e \in DOMAIN events |-> Abandoned(events[e], {"committed", "sending"})]
  BY DEF RestartServer
<1>2. UNCHANGED <<customer, queue, task, latest>> /\ ready' \in BOOLEAN /\ mishaps' \in Nat
  BY DEF RestartServer, Mishap, EventsInv, Typed
<1> QED
  BY <1>1, <1>2, AbandonStep

-----------------------------------------------------------------------------
(* The worker *)

\* The head of the queue becomes the worker's task.
LEMMA DeliverStep ==
  ASSUME EventsInv, Deliver
  PROVE  EventsInv'
<1> DEFINE e == Head(queue)
           row == [events[e] EXCEPT !.fate = "delivered"]
<1>1. /\ Typed /\ queue' = Tail(queue) /\ UNCHANGED <<customer, ready, latest, mishaps>>
      /\ task = NoTask /\ queue \in Seq(Nat) /\ queue # <<>> /\ Distinct(queue)
  BY DEF EventsInv, Deliver, InQueue
<1>2. /\ e \in Nat /\ Holds(queue, e) /\ queue' \in Seq(Nat) /\ Distinct(queue')
      /\ \A d : Holds(queue', d) <=> Holds(queue, d) /\ d # e
  BY <1>1, TailQueue
<1>3. e \in DOMAIN events /\ events[e].fate = "queued" /\ events[e] \in EventRow
  BY <1>2, Rows DEF EventsInv, InQueue
<1>4. /\ row \in EventRow /\ row.fate = "delivered" /\ row.answer = events[e].answer
      /\ row.part = events[e].part /\ row.version = events[e].version
      /\ row.opp = events[e].opp
  BY <1>3 DEF EventRow, Fates
<1>5. /\ events' \in Seq(EventRow) /\ DOMAIN events' = DOMAIN events
      /\ events'[e] = row
      /\ \A d \in DOMAIN events : d # e => events'[d] = events[d]
  <2>1. events' = [events EXCEPT ![e] = row]
    BY DEF Deliver, Becomes
  <2> HIDE DEF row, e
  <2> QED
    BY <1>1, <1>3, <1>4, <2>1, OneRow
<1>6. /\ task' \in Task /\ task'.pc = "row" /\ task'.event = e
      /\ task'.snapshot = task.snapshot
  <2>1. task \in Task
    BY <1>1 DEF Typed
  <2> QED
    BY <1>1, <1>2, <2>1 DEF Deliver, NoTask, Task, Pcs
<1> HIDE DEF row, e
<1>7. Typed'
  BY <1>1, <1>5, <1>6 DEF Typed
<1>8. InQueue'
  <2>1. \A d : Holds(queue', d) <=> d \in DOMAIN events' /\ events'[d].fate = "queued"
    BY <1>2, <1>3, <1>4, <1>5 DEF EventsInv, InQueue
  <2>2. InQueue' <=> /\ queue' \in Seq(Nat) /\ Distinct(queue')
                     /\ \A d : Holds(queue', d) <=> d \in DOMAIN events' /\ events'[d].fate = "queued"
    BY DEF InQueue, Holds, Distinct
  <2> QED
    BY <1>2, <2>1, <2>2
<1>9. InTask'
  <2>1. \A d \in DOMAIN events : events[d].fate # "delivered"
    BY <1>1, Rows DEF EventsInv, InTask, NoTask
  <2> QED
    BY <1>3, <1>4, <1>5, <1>6, <2>1 DEF InTask
<1>10. Answered'
  BY <1>4, <1>5 DEF EventsInv, Answered, QueuedIsKept
<1>11. Written'
  BY <1>1, <1>4, <1>5 DEF EventsInv, Written
<1>12. Informed'
  BY <1>6 DEF Informed, Read
<1>13. AnalysisCoversEvents'
  BY <1>1, <1>4, <1>5 DEF EventsInv, AnalysisCoversEvents, Knows, KnowsSale
<1> QED
  BY <1>7, <1>8, <1>9, <1>10, <1>11, <1>12, <1>13 DEF EventsInv

\* The task ends: its event gets a fate, and maybe a place in the queue.
LEMMA EndOfTask ==
  ASSUME EventsInv, task.pc # "idle", NEW fate \in {"queued", "done", "rejected"}, Becomes(task.event, fate),
         task' = NoTask, UNCHANGED <<customer, ready, latest>>, mishaps' \in Nat,
         fate # "queued" => UNCHANGED queue,
         fate = "queued" => queue' = <<task.event>> \o queue,
         fate = "done" => task.pc = "ack"
  PROVE  EventsInv'
<1> DEFINE e == task.event
           row == [events[e] EXCEPT !.fate = fate]
<1>1. /\ Typed /\ e \in DOMAIN events /\ events[e] \in EventRow /\ events[e].fate = "delivered"
      /\ e \in Nat
  BY Rows DEF EventsInv, InTask
<1>2. /\ row \in EventRow /\ row.fate = fate /\ row.answer = events[e].answer
      /\ row.part = events[e].part /\ row.version = events[e].version
      /\ row.opp = events[e].opp
  BY <1>1 DEF EventRow, Fates
<1>3. /\ events' \in Seq(EventRow) /\ DOMAIN events' = DOMAIN events
      /\ events'[e] = row
      /\ \A d \in DOMAIN events : d # e => events'[d] = events[d]
  <2>1. events' = [events EXCEPT ![e] = row]
    BY DEF Becomes
  <2> HIDE DEF row, e
  <2> QED
    BY <1>1, <1>2, <2>1, OneRow
<1>4. task' \in Task /\ task'.pc = "idle" /\ task'.event = 0
  BY DEF NoTask, Nothing, Snapshot, Task, Pcs
<1>5. \A d \in DOMAIN events : (events[d].fate = "delivered") <=> d = e
  BY DEF EventsInv, InTask
<1> HIDE DEF row, e
<1>6. Typed'
  BY <1>3, <1>4 DEF EventsInv, Typed
<1>7. InQueue'
  <2>1. queue \in Seq(Nat) /\ Distinct(queue) /\ ~Holds(queue, e)
    BY <1>1 DEF EventsInv, InQueue
  <2>2. /\ queue' \in Seq(Nat) /\ Distinct(queue')
        /\ \A d : Holds(queue', d) <=> Holds(queue, d) \/ (fate = "queued" /\ d = e)
    <3>1. CASE fate = "queued"
      <4>1. queue' = <<e>> \o queue
        BY <3>1 DEF e
      <4> QED
        BY <1>1, <2>1, <3>1, <4>1, FrontQueue
    <3>2. CASE fate # "queued"
      <4>1. queue' = queue
        BY <3>2
      <4> QED
        BY <2>1, <3>2, <4>1
    <3> QED
      BY <3>1, <3>2
  <2>3. \A d : Holds(queue', d) <=> d \in DOMAIN events' /\ events'[d].fate = "queued"
    BY <1>1, <1>2, <1>3, <2>2 DEF EventsInv, InQueue
  <2>4. InQueue' <=> /\ queue' \in Seq(Nat) /\ Distinct(queue')
                     /\ \A d : Holds(queue', d) <=> d \in DOMAIN events' /\ events'[d].fate = "queued"
    BY DEF InQueue, Holds, Distinct
  <2> QED
    BY <2>2, <2>3, <2>4
<1>8. InTask'
  <2>1. 0 \notin DOMAIN events
    BY <1>1, Rows
  <2>2. \A d \in DOMAIN events' : events'[d].fate # "delivered" /\ d # 0
    BY <1>2, <1>3, <1>5, <2>1
  <2> QED
    BY <1>4, <2>2 DEF InTask
<1>9. Answered'
  BY <1>2, <1>3 DEF EventsInv, Answered, QueuedIsKept
<1>10. Written'
  BY <1>2, <1>3 DEF EventsInv, Written
<1>11. Informed'
  <2>1. 0 \notin DOMAIN events
    BY <1>1, Rows
  <2> QED
    BY <1>4 DEF Informed, Read
<1>12. AnalysisCoversEvents'
  <2> SUFFICES ASSUME customer.exists, NEW d \in DOMAIN events, events'[d].fate = "done"
               PROVE  Knows(latest, events[d])
    BY <1>2, <1>3 DEF AnalysisCoversEvents, Knows, KnowsSale
  <2>1. CASE d = e
    BY <1>2, <1>3, <2>1 DEF EventsInv, Informed, e
  <2>2. CASE d # e
    BY <1>3, <2>2 DEF EventsInv, AnalysisCoversEvents
  <2> QED
    BY <2>1, <2>2
<1> QED
  BY <1>6, <1>7, <1>8, <1>9, <1>10, <1>11, <1>12 DEF EventsInv

LEMMA CustomerIsGoneStep ==
  ASSUME EventsInv, CustomerIsGone
  PROVE  EventsInv'
<1>1. mishaps' \in Nat
  BY DEF CustomerIsGone, EventsInv, Typed
<1> QED
  BY <1>1, EndOfTask DEF CustomerIsGone, Reject

LEMMA TaskFailsStep ==
  ASSUME EventsInv, TaskFails
  PROVE  EventsInv'
<1>1. mishaps' \in Nat
  BY DEF TaskFails, Mishap, EventsInv, Typed
<1> QED
  BY <1>1, EndOfTask DEF TaskFails, Reject

LEMMA AckStep ==
  ASSUME EventsInv, Ack
  PROVE  EventsInv'
<1>1. mishaps' \in Nat
  BY DEF Ack, EventsInv, Typed
<1> QED
  BY <1>1, EndOfTask DEF Ack

LEMMA WorkerStopsStep ==
  ASSUME EventsInv, WorkerStops
  PROVE  EventsInv'
<1>1. mishaps' \in Nat /\ task.pc # "idle"
  BY DEF WorkerStops, Mishap, EventsInv, Typed, InTask
<1> QED
  BY <1>1, EndOfTask DEF WorkerStops

-----------------------------------------------------------------------------
(* The task *)

\* What a step of the task leaves alone.
LEMMA TaskGoesOn ==
  ASSUME EventsInv, task.pc # "idle", UNCHANGED <<customer, events, queue, ready, mishaps>>,
         task' \in Task, task'.event = task.event, task'.pc # "idle", latest' \in Snapshot
  PROVE  Typed' /\ InQueue' /\ InTask' /\ Answered'
<1>1. Typed'
  BY DEF EventsInv, Typed
<1>2. InQueue'
  BY DEF EventsInv, InQueue, Holds, Distinct
<1>3. InTask'
  BY DEF EventsInv, InTask
<1>4. Answered'
  BY DEF EventsInv, Answered, QueuedIsKept
<1> QED
  BY <1>1, <1>2, <1>3, <1>4

\* What is read of a part is as new as can be.
LEMMA ReadPartStep ==
  ASSUME EventsInv, NEW part \in Parts, NEW next \in Pcs \ {"idle", "log", "ack"}, ReadPart(part, next),
         \A p \in Parts \cup {"sales", "request"} :
           next \in Read(p) => p = part \/ part \in Read(p)
  PROVE  EventsInv'
<1>1. /\ Typed /\ task \in Task /\ UNCHANGED <<customer, events, queue, ready, latest, mishaps>>
      /\ task.pc = part /\ \A e \in DOMAIN events : events[e] \in EventRow
  BY Rows DEF EventsInv, Typed, ReadPart
<1>2. PICK w \in Snapshot :
        /\ w = [task.snapshot EXCEPT !.version[part] = customer.version[part]]
        /\ w.version[part] = customer.version[part] /\ w.sales = task.snapshot.sales
        /\ \A p \in Parts : p # part => w.version[p] = task.snapshot.version[p]
  <2>1. task.snapshot \in Snapshot /\ customer.version[part] \in Nat
    BY <1>1 DEF Typed, Task, Record
  <2>2. PICK old \in Snapshot, n \in Nat : old = task.snapshot /\ n = customer.version[part]
    BY <2>1
  <2> DEFINE new == [old EXCEPT !.version[part] = n]
  <2>3. /\ new \in Snapshot /\ new.version[part] = n /\ new.sales = old.sales
        /\ \A p \in Parts : p # part => new.version[p] = old.version[p]
    <3>1. old.version \in [Parts -> Nat] /\ old.sales \in SUBSET Opportunity
      BY <2>2 DEF Snapshot
    <3>2. /\ new = [old EXCEPT !.version = [old.version EXCEPT ![part] = n]]
          /\ [old.version EXCEPT ![part] = n] \in [Parts -> Nat]
      BY <2>2, <3>1 DEF Snapshot
    <3> QED
      BY <2>2, <3>1, <3>2 DEF Snapshot
  <2> QED
    BY <2>2, <2>3
<1>3. /\ task' \in Task /\ task'.pc = next /\ task'.event = task.event /\ task'.snapshot = w
  BY <1>1, <1>2 DEF ReadPart, Task
<1>4. Typed' /\ InQueue' /\ InTask' /\ Answered'
  <2>1. task.pc # "idle" /\ latest' \in Snapshot
    BY <1>1 DEF Typed
  <2> QED
    BY <1>1, <1>3, <2>1, TaskGoesOn
<1>5. Written' /\ AnalysisCoversEvents'
  BY <1>1 DEF EventsInv, Written, AnalysisCoversEvents, Knows, KnowsSale
<1>6. Informed'
  <2> SUFFICES ASSUME NEW e \in DOMAIN events, events[e].fate = "done" \/ e = task.event,
                      next \in Read(events[e].part)
               PROVE  Knows(w, events[e])
    BY <1>1, <1>3 DEF Informed, Knows, KnowsSale
  <2>1. events[e].part \in Parts \cup {"sales", "request"} /\ events[e].version \in Nat
    BY <1>1 DEF EventRow
  <2>2. CASE events[e].part = part
    <3>1. events[e].version <= customer.version[part] /\ customer.version[part] \in Nat
      BY <1>1, <2>2 DEF EventsInv, Written, Typed, Record
    <3> QED
      BY <1>2, <2>1, <2>2, <3>1 DEF Knows
  <2>3. CASE events[e].part # part
    <3>1. Knows(task.snapshot, events[e])
      BY <1>1, <2>1, <2>3 DEF EventsInv, Informed
    <3> QED
      BY <1>2, <2>1, <2>3, <3>1 DEF Knows
  <2> QED
    BY <2>2, <2>3
<1> QED
  BY <1>4, <1>5, <1>6 DEF EventsInv

LEMMA ReadPartsStep ==
  ASSUME EventsInv, ReadRow \/ ReadContacts \/ ReadActivities
  PROVE  EventsInv'
<1>1. CASE ReadRow
  BY <1>1, ReadPartStep DEF ReadRow, Pcs, Read
<1>2. CASE ReadContacts
  BY <1>2, ReadPartStep DEF ReadContacts, Pcs, Read
<1>3. CASE ReadActivities
  BY <1>3, ReadPartStep DEF ReadActivities, Pcs, Read
<1> QED
  BY <1>1, <1>2, <1>3

\* An opportunity that is written and not read is older than all those that are.
LEMMA ReadSalesStep ==
  ASSUME EventsInv, ReadSales
  PROVE  EventsInv'
<1>1. /\ Typed /\ task \in Task /\ UNCHANGED <<customer, events, queue, ready, latest, mishaps>>
      /\ task.pc = "sales" /\ \A e \in DOMAIN events : events[e] \in EventRow
      /\ customer.sales \in SUBSET Opportunity
  BY Rows DEF EventsInv, Typed, ReadSales, Record
<1>2. PICK read \in Newest(customer.sales) :
        task' = [task EXCEPT !.pc = "activities", !.snapshot.sales = read]
  BY DEF ReadSales
<1>3. /\ read \in SUBSET Opportunity /\ read \subseteq customer.sales
      /\ \/ read = customer.sales
         \/ /\ Cardinality(read) = SalesLimit
            /\ \A s \in read, t \in customer.sales \ read : s.opp > t.opp
  BY <1>1, <1>2 DEF Newest
<1>4. /\ task' \in Task /\ task'.pc = "activities" /\ task'.event = task.event
      /\ task'.snapshot.sales = read /\ task'.snapshot.version = task.snapshot.version
  BY <1>1, <1>2, <1>3 DEF Task, Snapshot, Pcs
<1>5. Typed' /\ InQueue' /\ InTask' /\ Answered'
  <2>1. latest' \in Snapshot
    BY <1>1 DEF Typed
  <2> QED
    BY <1>1, <1>4, <2>1, TaskGoesOn
<1>6. Written' /\ AnalysisCoversEvents'
  BY <1>1 DEF EventsInv, Written, AnalysisCoversEvents, Knows, KnowsSale
<1>7. ASSUME NEW e \in DOMAIN events, events[e].part = "sales"
      PROVE  KnowsSale(read, events[e].opp, events[e].version)
  <2>1. /\ events[e].opp \in Nat /\ events[e].version \in Nat
        /\ \A s \in customer.sales : s.opp = events[e].opp => s.version >= events[e].version
    BY <1>1, <1>7 DEF EventsInv, Written, EventRow
  <2>2. CASE \E s \in read : s.opp = events[e].opp
    BY <1>3, <2>1, <2>2 DEF KnowsSale
  <2>3. CASE \A s \in read : s.opp # events[e].opp
    BY <1>3, <2>1, <2>3 DEF KnowsSale
  <2> QED
    BY <2>2, <2>3
<1>8. Informed'
  <2>1. ASSUME NEW e \in DOMAIN events, events[e].fate = "done" \/ e = task.event,
               "activities" \in Read(events[e].part)
        PROVE  Knows([version |-> task.snapshot.version, sales |-> read], events[e])
    <3>1. events[e].part = "sales" \/ "sales" \in Read(events[e].part)
      BY <1>1, <2>1 DEF EventRow, Read
    <3>2. CASE events[e].part = "sales"
      BY <1>7, <3>2 DEF Knows
    <3>3. CASE events[e].part # "sales"
      <4>1. Knows(task.snapshot, events[e])
        BY <1>1, <2>1, <3>1, <3>3 DEF EventsInv, Informed
      <4> QED
        BY <3>3, <4>1 DEF Knows
    <3> QED
      BY <3>2, <3>3
  <2> QED
    BY <1>1, <1>4, <2>1 DEF Informed, Knows, KnowsSale
<1> QED
  BY <1>5, <1>6, <1>8 DEF EventsInv

\* The new analysis knows all that its task has read.
LEMMA InsertAnalysisStep ==
  ASSUME EventsInv, InsertAnalysis
  PROVE  EventsInv'
<1>1. /\ Typed /\ task \in Task /\ UNCHANGED <<customer, events, queue, ready, mishaps>>
      /\ \A e \in DOMAIN events : events[e] \in EventRow
      /\ latest' = task.snapshot /\ latest' \in Snapshot /\ task.pc = "insert"
  BY Rows DEF EventsInv, Typed, InsertAnalysis, Task
<1>2. /\ task' \in Task /\ task'.pc = "log" /\ task'.event = task.event
  BY <1>1 DEF InsertAnalysis, Goto, Task, Pcs
<1>3. Typed' /\ InQueue' /\ InTask' /\ Answered'
  BY <1>1, <1>2, TaskGoesOn
<1>4. Written'
  BY <1>1 DEF EventsInv, Written
<1>5. ASSUME NEW e \in DOMAIN events, events[e].fate = "done" \/ e = task.event
      PROVE  Knows(task.snapshot, events[e])
  <2>1. events[e].part \in Parts \cup {"sales", "request"}
    BY <1>1 DEF EventRow
  <2>2. CASE events[e].part = "request"
    BY <2>2 DEF Knows
  <2>3. CASE events[e].part # "request"
    <3>1. "insert" \in Read(events[e].part)
      BY <2>1, <2>3 DEF Read
    <3> QED
      BY <1>1, <1>5, <3>1 DEF EventsInv, Informed
  <2> QED
    BY <2>2, <2>3
<1>6. Informed'
  <2>1. \A part : "log" \notin Read(part)
    BY DEF Read
  <2> QED
    BY <1>1, <1>2, <1>5, <2>1 DEF Informed, Knows, KnowsSale
<1>7. AnalysisCoversEvents'
  BY <1>1, <1>5 DEF AnalysisCoversEvents, Knows, KnowsSale
<1> QED
  BY <1>3, <1>4, <1>6, <1>7 DEF EventsInv

\* The worker's own activity is news to no one.
LEMMA InsertActivityStep ==
  ASSUME EventsInv, InsertActivity
  PROVE  EventsInv'
<1>1. /\ Typed /\ task \in Task /\ UNCHANGED <<events, queue, ready, latest, mishaps>>
      /\ task.pc = "log" /\ customer.exists /\ \A e \in DOMAIN events : events[e] \in EventRow
  BY Rows DEF EventsInv, Typed, InsertActivity
<1>2. /\ task' \in Task /\ task'.pc = "ack" /\ task'.event = task.event
      /\ task'.snapshot = task.snapshot
  BY <1>1 DEF InsertActivity, Goto, Task, Pcs
<1>3. /\ customer' \in Record /\ customer'.exists /\ customer'.opened = customer.opened
      /\ customer'.sales = customer.sales
      /\ \A p \in Parts : customer.version[p] <= customer'.version[p]
  <2> DEFINE w == [customer.version EXCEPT !["activities"] = @ + 1]
  <2>1. w \in [Parts -> Nat] /\ \A p \in Parts : customer.version[p] <= w[p]
    BY <1>1 DEF Typed, Record
  <2>2. customer' = [customer EXCEPT !.version = w]
    BY <1>1 DEF InsertActivity, Typed, Record
  <2> HIDE DEF w
  <2> QED
    BY <1>1, <2>1, <2>2 DEF Typed, Record
<1>4. Typed'
  BY <1>1, <1>2, <1>3 DEF Typed
<1>5. InQueue' /\ InTask' /\ Answered'
  BY <1>1, <1>2 DEF EventsInv, InQueue, InTask, Answered, QueuedIsKept, Holds, Distinct
<1>6. Written'
  <2>1. ASSUME NEW e \in DOMAIN events, events[e].part \in Parts
        PROVE  events[e].version <= customer'.version[events[e].part]
    <3>1. PICK p \in Parts : p = events[e].part
      BY <2>1
    <3>2. /\ customer.version[p] \in Nat /\ customer'.version[p] \in Nat
          /\ events[e].version \in Nat /\ events[e].version <= customer.version[p]
          /\ customer.version[p] <= customer'.version[p]
      BY <1>1, <1>3, <2>1, <3>1 DEF EventsInv, Written, EventRow, Typed, Record
    <3> QED
      BY <3>1, <3>2
  <2> QED
    BY <1>1, <1>3, <2>1 DEF EventsInv, Written
<1>7. Informed'
  <2>1. \A part : "ack" \notin Read(part)
    BY DEF Read
  <2> QED
    BY <1>1, <1>2, <1>3, <2>1 DEF EventsInv, Informed, Knows, KnowsSale
<1>8. AnalysisCoversEvents'
  BY <1>1, <1>3 DEF EventsInv, AnalysisCoversEvents, Knows, KnowsSale
<1> QED
  BY <1>4, <1>5, <1>6, <1>7, <1>8 DEF EventsInv

-----------------------------------------------------------------------------
(* The theorems *)

LEMMA NextEvents == EventsInv /\ [Next]_vars => EventsInv'
<1> SUFFICES ASSUME EventsInv, [Next]_vars PROVE EventsInv'
  OBVIOUS
<1>1. CASE UpdateCustomer \/ ChangeContact \/ CreateActivity
  BY <1>1, ReviseStep DEF UpdateCustomer, ChangeContact, CreateActivity
<1>9. CASE \/ CreateSalesOpportunity
           \/ \E s \in customer.sales : UpdateSalesOpportunity(s) \/ RemoveSalesOpportunity(s)
  BY <1>9, CreateSalesStep, UpdateSalesStep, RemoveSalesStep
<1>2. CASE Remove
  BY <1>2, RemoveStep
<1>3. CASE RequestAiAnalysis
  BY <1>3, RequestStep
<1>4. CASE \E e \in DOMAIN events : Publish(e) \/ Enqueue(e) \/ Confirm(e)
  BY <1>4, PublishStep, EnqueueStep, ConfirmStep
<1>5. CASE LoseConnection \/ RestartServer
  BY <1>5, LoseConnectionStep, RestartServerStep
<1>6. CASE Work
  BY <1>6, DeliverStep, ReadPartsStep, ReadSalesStep, InsertAnalysisStep, InsertActivityStep,
     CustomerIsGoneStep, AckStep DEF Work
<1>7. CASE TaskFails \/ WorkerStops
  BY <1>7, TaskFailsStep, WorkerStopsStep
<1>8. CASE UNCHANGED vars
  <2>1. UNCHANGED <<customer, events, queue, ready, task, latest, mishaps>>
    BY <1>8 DEF vars
  <2>2. Typed' /\ InQueue' /\ InTask' /\ Answered'
    BY <2>1 DEF EventsInv, Typed, InQueue, InTask, Answered, QueuedIsKept, Holds, Distinct
  <2>3. Written' /\ Informed' /\ AnalysisCoversEvents'
    BY <2>1, Undisturbed
  <2> QED
    BY <2>2, <2>3 DEF EventsInv
<1> QED
  BY <1>1, <1>2, <1>3, <1>4, <1>5, <1>6, <1>7, <1>8, <1>9 DEF Next

LEMMA AlwaysEvents == Spec => []EventsInv
<1> QED
  BY InitEvents, NextEvents, PTL DEF Spec

\* Type correctness: the queue holds each queued event once and the worker the
\* delivered one, whatever is lost and delivered again.
THEOREM EventTypes == Spec => []TypeOK
<1>1. EventsInv => TypeOK
  <2> SUFFICES ASSUME EventsInv PROVE TypeOK
    OBVIOUS
  <2>1. /\ Typed /\ Distinct(queue)
        /\ \A e \in DOMAIN events :
             /\ (events[e].fate = "queued") <=> Holds(queue, e)
             /\ (events[e].fate = "delivered") <=> (task.event = e)
    BY DEF EventsInv, InQueue, InTask
  <2> QED
    BY <2>1 DEF TypeOK, Typed, Task, Pcs, Record, Holds, Distinct
<1> QED
  BY <1>1, AlwaysEvents, PTL

\* Once the event of a change is acknowledged, the worker's last analysis was made
\* from that change or a later one, or from as many newer opportunities as its query
\* takes: for any limit, and any number of events, changes and mishaps.
THEOREM DoneIsAnalysed == Spec => []AnalysisCoversEvents
<1>1. EventsInv => AnalysisCoversEvents
  BY DEF EventsInv
<1> QED
  BY <1>1, AlwaysEvents, PTL

\* Who was told "queued" has an event that the broker keeps until it is settled.
THEOREM ToldIsKept == Spec => []QueuedIsKept
<1>1. EventsInv => QueuedIsKept
  BY DEF EventsInv, Answered
<1> QED
  BY <1>1, AlwaysEvents, PTL
=============================================================================
