----------------------------- MODULE BaleDelivery -----------------------------
(***************************************************************************)
(* backend/src/notifications/bale-notification-delivery.service.ts: every  *)
(* server process polls the notifications table and sends what is due to   *)
(* the Bale messenger.  A notification is claimed by a compare-and-set on  *)
(* its status and due time; a claim that is two minutes old is taken over. *)
(* Time is counted in units of 30 seconds, the first retry delay.          *)
(***************************************************************************)
EXTENDS Integers, FiniteSets, FiniteSetsExt, Functions

CONSTANTS
  Pollers,        \* server processes
  NumNotes,       \* notifications 1 .. NumNotes in createdAt order
  BatchSize,      \* take: 25 in the code
  MaxAttempts,    \* maxAttempts: 5 in the code
  Stale,          \* age at which a claim is taken over: 4 units in the code
  MaxHold,        \* a live process settles what it has claimed within so many units
  MaxPause,       \* a flush, or the restart of a crashed process, takes at most so many units
  MaxClock,       \* bound: how long the system is observed
  MaxMishaps      \* bound: crashes, failed queries and lost answers

VARIABLES
  rows,        \* the delivery columns of each notification
  linked,      \* notifications whose user has linked a Bale chat
  pollers,     \* where each process is in flush(), since when, and its batch
  clock,
  tries,       \* messages sent to Bale for each notification
  delivered,   \* messages that reached the user
  mishaps

baleVars == <<rows, linked, pollers, clock, tries, delivered, mishaps>>

Notes == 1 .. NumNotes

ASSUME BaleAssumption ==
  /\ NumNotes \in Nat /\ BatchSize \in Nat \ {0} /\ MaxAttempts \in Nat \ {0}
  /\ Stale \in Nat /\ MaxHold \in Nat /\ MaxHold < Stale
  /\ MaxPause \in Nat

Row == [status : {"PENDING", "SENDING", "SENT", "SKIPPED", "FAILED"},
        attempts : 0 .. MaxAttempts, next : Nat]
Settled == {"SENT", "SKIPPED", "FAILED"}

\* What findMany returned for a notification, and whether its user had a chat.
Item == [row : Row, chat : BOOLEAN]

\* 30 s, twice as long after every further failure, but at most an hour.
Delay(attempts) == IF attempts <= 7 THEN <<1, 2, 4, 8, 16, 32, 64>>[attempts] ELSE 120

BaleInit ==
  /\ rows = [n \in Notes |-> [status |-> "PENDING", attempts |-> 0, next |-> 0]]
  /\ linked \in SUBSET Notes
  /\ pollers = [p \in Pollers |-> [pc |-> "idle", since |-> 0, batch |-> << >>]]
  /\ clock = 0
  /\ tries = [n \in Notes |-> 0]
  /\ delivered = [n \in Notes |-> 0]
  /\ mishaps = 0

-----------------------------------------------------------------------------
(* flush() *)

\* MUTANT of Due: claims that a crash has abandoned are not taken over.
DuePending(n) == rows[n].status = "PENDING" /\ rows[n].next <= clock

Due(n) ==
  \/ rows[n].status = "PENDING" /\ rows[n].next <= clock
  \/ rows[n].status = "SENDING" /\ rows[n].next + Stale <= clock

DueNotes == {n \in Notes : Due(n)}

\* The oldest due notifications, at most BatchSize of them.
Batch == {n \in DueNotes : Cardinality({m \in DueNotes : m < n}) < BatchSize}

Flush(p) ==
  /\ pollers[p].pc = "idle" /\ DueNotes # {}
  /\ pollers' = [pollers EXCEPT ![p] =
       [pc |-> "claim", since |-> clock, batch |-> [n \in Batch |-> [row |-> rows[n], chat |-> n \in linked]]]]
  /\ UNCHANGED <<rows, linked, clock, tries, delivered, mishaps>>

\* The notification a poller is at, and what it knows of it.
On(p) == Min(DOMAIN pollers[p].batch)
Known(p) == pollers[p].batch[On(p)]

Move(p, pc) == pollers' = [pollers EXCEPT ![p].pc = pc]
GiveUp(p) == pollers' = [pollers EXCEPT ![p] = [pc |-> "idle", since |-> 0, batch |-> << >>]]

\* On to the next notification of the batch.
Step(p) ==
  LET rest == DOMAIN pollers[p].batch \ {On(p)} IN
  IF rest = {} THEN GiveUp(p)
  ELSE pollers' = [pollers EXCEPT ![p].pc = "claim", ![p].batch = Restrict(@, rest)]

Unclaimed(p) ==
  rows[On(p)].status = Known(p).row.status /\ rows[On(p)].next = Known(p).row.next

\* MUTANT of Claim: the update is by id only, whoever else has claimed the row.
ClaimById(p) ==
  /\ pollers[p].pc = "claim"
  /\ rows' = [rows EXCEPT ![On(p)].status = "SENDING", ![On(p)].next = clock]
  /\ Move(p, IF Known(p).chat THEN "send" ELSE "skip")
  /\ UNCHANGED <<linked, clock, tries, delivered, mishaps>>

\* updateMany with the status and due time the poller has read.
Claim(p) ==
  /\ pollers[p].pc = "claim"
  /\ \/ /\ Unclaimed(p)
        /\ rows' = [rows EXCEPT ![On(p)].status = "SENDING", ![On(p)].next = clock]
        /\ Move(p, IF Known(p).chat THEN "send" ELSE "skip")
     \/ ~Unclaimed(p) /\ Step(p) /\ UNCHANGED rows
  /\ UNCHANGED <<linked, clock, tries, delivered, mishaps>>

Skip(p) ==
  /\ pollers[p].pc = "skip"
  /\ rows' = [rows EXCEPT ![On(p)].status = "SKIPPED"]
  /\ Step(p)
  /\ UNCHANGED <<linked, clock, tries, delivered, mishaps>>

\* Bale accepts the message, or refuses it (or cannot be reached).
SendMessage(p) ==
  /\ pollers[p].pc = "send"
  /\ tries' = [tries EXCEPT ![On(p)] = @ + 1]
  /\ \/ delivered' = [delivered EXCEPT ![On(p)] = @ + 1] /\ Move(p, "sent")
     \/ Move(p, "failed") /\ UNCHANGED delivered
  /\ UNCHANGED <<rows, linked, clock, mishaps>>

\* MUTANT of RecordSent: what was sent is not recorded.
RecordNothing(p) ==
  /\ pollers[p].pc = "sent"
  /\ rows' = [rows EXCEPT ![On(p)].attempts = @ + 1, ![On(p)].status = "PENDING"]
  /\ Step(p)
  /\ UNCHANGED <<linked, clock, tries, delivered, mishaps>>

RecordSent(p) ==
  /\ pollers[p].pc = "sent"
  /\ rows' = [rows EXCEPT ![On(p)].status = "SENT", ![On(p)].attempts = @ + 1]
  /\ Step(p)
  /\ UNCHANGED <<linked, clock, tries, delivered, mishaps>>

\* MUTANT of RecordFailure: a failed notification is retried for ever.
RecordEndless(p) ==
  /\ pollers[p].pc = "failed"
  /\ LET attempts == Known(p).row.attempts + 1 IN
       rows' = [rows EXCEPT ![On(p)] = [status |-> "PENDING", attempts |-> attempts,
                                        next |-> clock + Delay(attempts)]]
  /\ Step(p)
  /\ UNCHANGED <<linked, clock, tries, delivered, mishaps>>

\* The catch branch counts from the attempts the poller has read.
RecordFailure(p) ==
  /\ pollers[p].pc = "failed"
  /\ LET attempts == Known(p).row.attempts + 1 IN
       rows' = [rows EXCEPT ![On(p)] =
         [status |-> IF attempts >= MaxAttempts THEN "FAILED" ELSE "PENDING",
          attempts |-> attempts, next |-> clock + Delay(attempts)]]
  /\ Step(p)
  /\ UNCHANGED <<linked, clock, tries, delivered, mishaps>>

-----------------------------------------------------------------------------
(* What goes wrong, and the world outside. *)

Mishap == mishaps < MaxMishaps /\ mishaps' = mishaps + 1

\* The message is delivered but the answer does not come in time.
AnswerLost(p) ==
  /\ pollers[p].pc = "send" /\ Mishap
  /\ tries' = [tries EXCEPT ![On(p)] = @ + 1]
  /\ delivered' = [delivered EXCEPT ![On(p)] = @ + 1]
  /\ Move(p, "failed")
  /\ UNCHANGED <<rows, linked, clock>>

\* Recording SENT fails inside the try: the message counts as not sent.  Any
\* other query that fails ends the whole flush.
QueryFails(p) ==
  /\ pollers[p].pc \in {"claim", "skip", "sent", "failed"} /\ Mishap
  /\ IF pollers[p].pc = "sent" THEN Move(p, "failed") ELSE GiveUp(p)
  /\ UNCHANGED <<rows, linked, clock, tries, delivered>>

Crash(p) ==
  /\ pollers[p].pc # "down" /\ Mishap
  /\ pollers' = [pollers EXCEPT ![p] = [pc |-> "down", since |-> clock, batch |-> << >>]]
  /\ UNCHANGED <<rows, linked, clock, tries, delivered>>

Restart(p) ==
  /\ pollers[p].pc = "down"
  /\ GiveUp(p)
  /\ UNCHANGED <<rows, linked, clock, tries, delivered, mishaps>>

\* The webhook links the chat of a user who has none.
Link(n) ==
  /\ n \notin linked
  /\ linked' = linked \cup {n}
  /\ UNCHANGED <<rows, pollers, clock, tries, delivered, mishaps>>

\* An administrator resets it; a poller at work keeps the chat it has read.
ResetBaleChat(n) ==
  /\ linked' = linked \ {n}
  /\ UNCHANGED <<rows, pollers, clock, tries, delivered, mishaps>>

Holds(p) == pollers[p].pc \in {"skip", "send", "sent", "failed"}

\* Polling every 10 s is faster than a unit, so time does not pass over due work
\* while a process is idle; sends time out after 12 s, so a live process does not
\* sit on a claim for longer than MaxHold, nor on a batch for longer than MaxPause.
Tick ==
  /\ clock < MaxClock
  /\ \A p \in Pollers :
       /\ pollers[p].pc = "idle" => DueNotes = {}
       /\ pollers[p].pc # "idle" => clock < pollers[p].since + MaxPause
       /\ Holds(p) => clock < rows[On(p)].next + MaxHold
  /\ clock' = clock + 1
  /\ UNCHANGED <<rows, linked, pollers, tries, delivered, mishaps>>

Polling(p) ==
  Flush(p) \/ Claim(p) \/ Skip(p) \/ SendMessage(p) \/ RecordSent(p) \/ RecordFailure(p) \/ Restart(p)

BaleNext ==
  \/ \E p \in Pollers : Polling(p) \/ AnswerLost(p) \/ QueryFails(p) \/ Crash(p)
  \/ \E n \in Notes : Link(n) \/ ResetBaleChat(n)
  \/ Tick

BaleSpec == BaleInit /\ [][BaleNext]_baleVars

\* The timer fires, queries return, a crashed server is started again, time passes.
BaleFairSpec == BaleSpec /\ WF_baleVars(Tick) /\ \A p \in Pollers : WF_baleVars(Polling(p))

-----------------------------------------------------------------------------
(* Properties *)

BaleTypeOK ==
  /\ rows \in [Notes -> Row]
  /\ linked \subseteq Notes
  /\ \A p \in Pollers :
       /\ pollers[p].pc \in {"idle", "claim", "skip", "send", "sent", "failed", "down"}
       /\ pollers[p].since \in 0 .. clock
       /\ DOMAIN pollers[p].batch \subseteq Notes
       /\ \A n \in DOMAIN pollers[p].batch : pollers[p].batch[n] \in Item
       /\ (DOMAIN pollers[p].batch = {}) <=> (pollers[p].pc \in {"idle", "down"})
  /\ clock \in Nat /\ mishaps \in Nat
  /\ tries \in [Notes -> Nat] /\ delivered \in [Notes -> Nat]

\* Two processes are never at work on the same notification.
OneHolder ==
  \A p, q \in Pollers : p # q /\ Holds(p) /\ Holds(q) => On(p) # On(q)

\* A user receives a notification once, and once more for each crash, lost answer
\* or failed query at most: the claims leave no other way to a duplicate.
NoDuplicates == \A n \in Notes : delivered[n] <= 1 + mishaps

\* "Durable, restart-safe": whatever crashes, every notification is settled in the end.
EventuallySettled == \A n \in Notes : <>[](rows[n].status \in Settled)
=============================================================================
