---------------------------- MODULE CustomerEvents ----------------------------
(***************************************************************************)
(* From a change of a customer to the analysis that takes it into account. *)
(* customer.service.ts commits a change and then publishes an event;       *)
(* RabbitMQ keeps what it has confirmed; crm_worker.py takes one event at  *)
(* a time, reads the customer with several queries, asks the language      *)
(* model and stores an analysis.  The event only names the customer: what  *)
(* an analysis knows is what its task has read.                            *)
(*                                                                         *)
(* A change is the number of the version of what it writes: the row of the *)
(* customer, its contacts, its timeline of activities, or one of its sales *)
(* opportunities.  The worker reads the contacts in full, but only the     *)
(* newest activities and opportunities.  Activities are only ever added,   *)
(* so that to have read version n of the timeline is to have read its n-th *)
(* activity or as many newer ones as the query takes.                      *)
(***************************************************************************)
EXTENDS Integers, Sequences, FiniteSets

CONSTANTS
  SalesLimit,   \* LIMIT of the query for sales opportunities
  MaxEvents,    \* bound: events of the customer
  MaxMishaps    \* bound: lost connections, restarts and failures

ASSUME EventsAssumption == SalesLimit \in Nat /\ MaxEvents \in Nat /\ MaxMishaps \in Nat

VARIABLES
  customer,   \* whether the customer exists, the version of each part, the opportunities
  events,     \* every event, with the change it announces and what became of it
  queue,      \* the broker's queue: positions in events
  ready,      \* RabbitMQService.isReady, with a connection behind it
  task,       \* what the worker does, and what it has read
  latest,     \* the snapshot that the worker's last analysis was made from
  mishaps     \* mishaps so far

vars == <<customer, events, queue, ready, task, latest, mishaps>>

Parts == {"row", "contacts", "activities"}
Fates == {"committed", "sending", "queued", "delivered", "done", "rejected", "dropped"}

\* Opportunities are numbered in the order of createdAt, here that of their commits.
Opportunity == [opp : Nat, version : Nat]

Nothing == [version |-> [p \in Parts |-> 0], sales |-> {}]
NoTask == [pc |-> "idle", event |-> 0, snapshot |-> Nothing]

\* part is "sales" for a change of opportunity opp, and "request" for an analysis that
\* somebody asked for; answer is what he was told.
Event(part, opp, version) ==
  [part |-> part, opp |-> opp, version |-> version, fate |-> "committed", answer |-> "none"]

\* A customer with opportunities from before, and the event of a change of its row.
Init ==
  /\ customer \in [exists : {TRUE}, version : {[p \in Parts |-> 1]}, opened : {2},
                   sales : {[opp : {1, 2}, version : {1}]}]
  /\ events = <<Event("row", 0, 1)>>
  /\ queue = <<>>
  /\ ready \in BOOLEAN
  /\ task = NoTask
  /\ latest = Nothing
  /\ mishaps = 0

-----------------------------------------------------------------------------
(* The backend.  "committed" is a request that has returned from its       *)
(* transaction and has not yet published.                                  *)

\* A change is committed together with an activity; one that somebody adds to the
\* timeline is that activity.
Newer(part) ==
  [p \in Parts |-> customer.version[p] + IF p \in {part, "activities"} THEN 1 ELSE 0]

Commits(part, opp, version, opened, sales) ==
  /\ customer.exists /\ Len(events) < MaxEvents
  /\ customer' = [customer EXCEPT !.version = Newer(part), !.opened = opened, !.sales = sales]
  /\ events' = Append(events, Event(part, opp, version))
  /\ UNCHANGED <<queue, ready, task, latest, mishaps>>

Revise(part) == Commits(part, 0, customer.version[part] + 1, customer.opened, customer.sales)

\* update writes the row of the customer.
UpdateCustomer == Revise("row")

\* createContact, updateContact and removeContact.
ChangeContact == Revise("contacts")

CreateActivity == Revise("activities")

CreateSalesOpportunity ==
  LET opp == customer.opened + 1 IN
  Commits("sales", opp, 1, opp, customer.sales \cup {[opp |-> opp, version |-> 1]})

UpdateSalesOpportunity(s) ==
  Commits("sales", s.opp, s.version + 1, customer.opened,
          (customer.sales \ {s}) \cup {[s EXCEPT !.version = @ + 1]})

RemoveSalesOpportunity(s) ==
  Commits("sales", s.opp, s.version + 1, customer.opened, customer.sales \ {s})

\* remove deletes the customer and by cascade all that belongs to it; no event.
Remove ==
  /\ customer.exists
  /\ customer' = [customer EXCEPT !.exists = FALSE, !.sales = {}]
  /\ latest' = Nothing
  /\ UNCHANGED <<events, queue, ready, task, mishaps>>

RequestAiAnalysis ==
  /\ customer.exists /\ Len(events) < MaxEvents
  /\ events' = Append(events, Event("request", 0, 0))
  /\ UNCHANGED <<customer, queue, ready, task, latest, mishaps>>

Becomes(e, fate) == events' = [events EXCEPT ![e].fate = fate]

\* What the sender of an event that fails learns: a change only logs it, a request
\* is answered with 503.
Dropped(event) ==
  [event EXCEPT !.fate = "dropped",
                !.answer = IF event.part = "request" THEN "unavailable" ELSE @]

\* MUTANT of Publish: the request is answered before the broker has confirmed.
PublishAndAnswer(e) ==
  /\ events[e].fate = "committed"
  /\ events' = [events EXCEPT ![e] =
       IF ready THEN [@ EXCEPT !.fate = "sending", !.answer = "queued"] ELSE Dropped(@)]
  /\ UNCHANGED <<customer, queue, ready, task, latest, mishaps>>

\* publishToExchange: nothing is sent, and nothing kept, while the channel is not ready.
Publish(e) ==
  /\ events[e].fate = "committed"
  /\ events' = [events EXCEPT ![e] = IF ready THEN [@ EXCEPT !.fate = "sending"] ELSE Dropped(@)]
  /\ UNCHANGED <<customer, queue, ready, task, latest, mishaps>>

\* The broker stores the message: the queue is durable, the message persistent.
Enqueue(e) ==
  /\ events[e].fate = "sending"
  /\ Becomes(e, "queued")
  /\ queue' = Append(queue, e)
  /\ UNCHANGED <<customer, ready, task, latest, mishaps>>

\* The confirm arrives; only requestAiAnalysis has waited for it.
Confirm(e) ==
  /\ ready /\ events[e].part = "request" /\ events[e].answer = "none"
  /\ events[e].fate \notin {"committed", "sending"}
  /\ events' = [events EXCEPT ![e].answer = "queued"]
  /\ UNCHANGED <<customer, queue, ready, task, latest, mishaps>>

Mishap == mishaps < MaxMishaps /\ mishaps' = mishaps + 1

\* What has not reached the broker is gone, what was not confirmed has failed.
Abandoned(event, fates) ==
  IF event.fate \in fates THEN Dropped(event)
  ELSE IF event.part = "request" /\ event.answer = "none" /\ event.fate # "committed"
       THEN [event EXCEPT !.answer = "unavailable"] ELSE event

\* The connection breaks: isReady is false until the server restarts.
LoseConnection ==
  /\ ready /\ Mishap
  /\ ready' = FALSE
  /\ events' = [e \in DOMAIN events |-> Abandoned(events[e], {"sending"})]
  /\ UNCHANGED <<customer, queue, task, latest>>

\* The server restarts, and init reaches the broker or not.
RestartServer ==
  /\ Mishap
  /\ ready' \in BOOLEAN
  /\ events' = [e \in DOMAIN events |-> Abandoned(events[e], {"committed", "sending"})]
  /\ UNCHANGED <<customer, queue, task, latest>>

-----------------------------------------------------------------------------
(* The worker.  prefetch_count is 1: it holds one message at a time. *)

Goto(pc) == task' = [task EXCEPT !.pc = pc]

\* MUTANT of Deliver: the message is acknowledged when it is received.
DeliverAndAck ==
  /\ task = NoTask /\ queue # <<>>
  /\ task' = [NoTask EXCEPT !.pc = "row", !.event = Head(queue)]
  /\ Becomes(Head(queue), "done")
  /\ queue' = Tail(queue)
  /\ UNCHANGED <<customer, ready, latest, mishaps>>

Deliver ==
  /\ task = NoTask /\ queue # <<>>
  /\ task' = [NoTask EXCEPT !.pc = "row", !.event = Head(queue)]
  /\ Becomes(Head(queue), "delivered")
  /\ queue' = Tail(queue)
  /\ UNCHANGED <<customer, ready, latest, mishaps>>

\* MUTANT of Reject: process(requeue=True), the failed message goes back.
Requeue ==
  /\ Becomes(task.event, "queued")
  /\ queue' = Append(queue, task.event)
  /\ task' = NoTask

\* process(requeue=False): an exception rejects the message for good.
Reject ==
  /\ Becomes(task.event, "rejected")
  /\ task' = NoTask
  /\ UNCHANGED queue

\* fetch_customer_snapshot: its queries run one after the other, in no transaction.
ReadPart(part, next) ==
  /\ task.pc = part
  /\ task' = [task EXCEPT !.pc = next, !.snapshot.version[part] = customer.version[part]]
  /\ UNCHANGED <<customer, events, queue, ready, latest, mishaps>>

ReadRow == customer.exists /\ ReadPart("row", "contacts")
ReadContacts == ReadPart("contacts", "sales")
ReadActivities == ReadPart("activities", "insert")

\* MUTANT of Newest: ORDER BY "createdAt" ASC.
Oldest(all) ==
  {read \in SUBSET all :
     \/ read = all /\ Cardinality(all) <= SalesLimit
     \/ Cardinality(read) = SalesLimit /\ \A s \in read, t \in all \ read : s.opp < t.opp}

\* ORDER BY "createdAt" DESC LIMIT n: all of them or n, and none that is left out is newer.
Newest(all) ==
  {read \in SUBSET all :
     \/ read = all /\ Cardinality(all) <= SalesLimit
     \/ Cardinality(read) = SalesLimit /\ \A s \in read, t \in all \ read : s.opp > t.opp}

ReadSales ==
  /\ task.pc = "sales"
  /\ \E read \in Newest(customer.sales) :
       task' = [task EXCEPT !.pc = "activities", !.snapshot.sales = read]
  /\ UNCHANGED <<customer, events, queue, ready, latest, mishaps>>

\* The model has answered; the analysis is the latest from here on.
InsertAnalysis ==
  /\ task.pc = "insert" /\ customer.exists
  /\ latest' = task.snapshot
  /\ Goto("log")
  /\ UNCHANGED <<customer, events, queue, ready, mishaps>>

\* The worker's own activity; written past the backend, it publishes no event.
InsertActivity ==
  /\ task.pc = "log" /\ customer.exists
  /\ customer' = [customer EXCEPT !.version["activities"] = @ + 1]
  /\ Goto("ack")
  /\ UNCHANGED <<events, queue, ready, latest, mishaps>>

\* "Customer not found", or a foreign key that refuses the insert.
CustomerIsGone ==
  /\ task.pc \in {"row", "insert", "log"} /\ ~customer.exists
  /\ Reject
  /\ UNCHANGED <<customer, ready, latest, mishaps>>

Ack ==
  /\ task.pc = "ack"
  /\ Becomes(task.event, "done")
  /\ task' = NoTask
  /\ UNCHANGED <<customer, queue, ready, latest, mishaps>>

\* A query or the call of the model fails, before or after the analysis is stored.
TaskFails ==
  /\ task.pc \notin {"idle", "ack"} /\ Mishap
  /\ Reject
  /\ UNCHANGED <<customer, ready, latest>>

\* The worker dies or loses its connection: the broker delivers the message again.
WorkerStops ==
  /\ task # NoTask /\ Mishap
  /\ Becomes(task.event, "queued")
  /\ queue' = <<task.event>> \o queue
  /\ task' = NoTask
  /\ UNCHANGED <<customer, ready, latest>>

Work ==
  \/ Deliver \/ ReadRow \/ ReadContacts \/ ReadSales \/ ReadActivities
  \/ InsertAnalysis \/ InsertActivity \/ CustomerIsGone \/ Ack

Next ==
  \/ UpdateCustomer \/ ChangeContact \/ CreateActivity \/ CreateSalesOpportunity
  \/ \E s \in customer.sales : UpdateSalesOpportunity(s) \/ RemoveSalesOpportunity(s)
  \/ Remove \/ RequestAiAnalysis
  \/ \E e \in DOMAIN events : Publish(e) \/ Enqueue(e) \/ Confirm(e)
  \/ LoseConnection \/ RestartServer
  \/ Work \/ TaskFails \/ WorkerStops

Spec == Init /\ [][Next]_vars

\* Compose restarts the worker, the event loop resumes its task, and every call it
\* awaits returns or fails: where the worker has a key of the language model, without
\* which it dies when it starts.
FairSpec == Spec /\ WF_vars(Work)

-----------------------------------------------------------------------------
(* Properties *)

Answers == {"none", "queued", "unavailable"}
EventRow == [part : Parts \cup {"sales", "request"}, opp : Nat, version : Nat,
             fate : Fates, answer : Answers]
Snapshot == [version : [Parts -> Nat], sales : SUBSET Opportunity]

\* The queue holds each queued event once, and the worker the delivered one.
TypeOK ==
  /\ customer \in [exists : BOOLEAN, version : [Parts -> Nat], opened : Nat,
                  sales : SUBSET Opportunity]
  /\ events \in Seq(EventRow)
  /\ \A e \in DOMAIN events :
       /\ (events[e].fate = "queued") <=> (\E i \in DOMAIN queue : queue[i] = e)
       /\ (events[e].fate = "delivered") <=> (task.event = e)
  /\ \A i, j \in DOMAIN queue : queue[i] = queue[j] => i = j
  /\ ready \in BOOLEAN /\ mishaps \in Nat
  /\ task \in [pc : {"idle", "row", "contacts", "sales", "activities", "insert", "log", "ack"},
               event : Nat, snapshot : Snapshot]
  /\ latest \in Snapshot

\* An analysis knows a change of an opportunity: it has read it in that version or a
\* later one; or it has not read it, because it was deleted, or because the query took
\* as many as it takes, all of them newer.
KnowsSale(read, opp, version) ==
  \/ \E s \in read : s.opp = opp /\ s.version >= version
  \/ /\ \A s \in read : s.opp # opp
     /\ \/ \A s \in customer.sales : s.opp # opp
        \/ Cardinality(read) = SalesLimit /\ \A s \in read : s.opp > opp

Knows(snapshot, event) ==
  /\ event.part \in Parts => snapshot.version[event.part] >= event.version
  /\ event.part = "sales" => KnowsSale(snapshot.sales, event.opp, event.version)

\* Whatever is committed, published and analysed in which order, after whatever
\* redeliveries: once the event of a change is acknowledged, the latest analysis
\* was made from that change or from a later one, as far as the limits of its queries
\* reach.  Changes whose event was lost are covered by the next event that is not.
AnalysisCoversEvents ==
  customer.exists =>
    \A e \in DOMAIN events : events[e].fate = "done" => Knows(latest, events[e])

\* Who was told "queued" has an event that the broker keeps until the worker has
\* settled it: no lost connection and no restart drops it.
QueuedIsKept ==
  \A e \in DOMAIN events :
    events[e].answer = "queued" => events[e].fate \in {"queued", "delivered", "done", "rejected"}

\* Every event that reached the queue is eventually analysed or rejected: a failing
\* one does not hold up the others, and analyses do not cause events.
EventuallySettled ==
  \A e \in 1 .. MaxEvents :
    (e \in DOMAIN events /\ events[e].fate = "queued")
      ~> (e \in DOMAIN events /\ events[e].fate \in {"done", "rejected"})
=============================================================================
