# Rahyaft platform: a verification project

TLA+ models of the parts of the platform where requests, processes and
connections interleave, checked with TLC, and theorems about all of them, proved
with TLAPS. Paths are relative to the repository; `S/` stands for `backend/src/`.

To check a run, in this directory: `tlc -config MCProductionRun.cfg MCProductionRun`.
To check the proofs of a module: `tlapm ProductionRunProofs.tla`.

## 1. The system

A NestJS backend (one or more Node processes) over PostgreSQL, with Redis for
one-time codes and caches and RabbitMQ towards Python analytics workers; a
Next.js frontend with one WebSocket per tab; the Bale messenger for codes and
notifications.

Node runs one callback at a time, so a handler is atomic between two `await`s
and everything else may happen at each of them. PostgreSQL runs at its default
isolation (read committed) and no handler retries. This gives the models their
grain: **a handler is cut at every await whose result another handler can make
stale**, each cut is a place where other requests run and where the handler may
die (a query that throws, a process that stops), and nothing undoes what was
written before it.

| component | code | state | operations | what is hard | correct when |
|---|---|---|---|---|---|
| Production runs | `S/production` | `ProductionRun`, `ProductionRunStep`, `ProductionStepReview` | begin, checklist, submit, supervisor and approver review, QC, pause, resume, cancel | guards read before the write; several writes without a transaction; advance after notify | no step is opened or run closed before everything before it was submitted and approved |
| Production flows, start of runs | same | `ProductionFlow`, `ProductionFlowStep`, reference numbers | create, edit, delete a flow; start a run | count then insert; edit and delete against start; only keys refuse what comes late | a run keeps the steps it was copied from; the numbers of a day are 1..n |
| Form approvals | `S/approvals`, `S/form-submissions` | policy, instance, actions | save policy, submit, answer a step | two approvers, policy replaced underneath, action committed before validation | approved means endorsed at every step, in order; pending means somebody can act |
| Bale delivery | `S/notifications/bale-notification-delivery.service.ts`, `S/bale` | delivery columns of `AppNotification` | poll, claim, send, record, retry, link and reset a chat | several processes, crashes, lost answers, stale claims | sent once unless something fails; settled in the end |
| Repairs | `S/repairs` | case, status log, SLA, photo files | register, assign, change status | validation against a stale status; file and transaction | log, dates, SLA, files and status agree |
| Recruitment | `S/recruitment`, `S/users` | application with version, forms, assignments, transitions; accounts | apply, review, interview, assign, approve; open, renumber, delete an account | optimistic locking; two active applications; numbers that are freed | the history is one path; hired means interviewed, and one account |
| Communication threads | `S/communication/communication.service.ts` | participants, assignments, messages, notifications | create, add, remove, assign, unassign, send and resend | overlapping membership changes; retries with an idempotency key | one message per key, announced once, to everybody; work belongs to members |
| Realtime channel | `S/communication/communication.websocket.ts`, `...realtime.service.ts`, `frontend/src/lib/realtime/communication.ts`, `CommunicationsPage.tsx` | registry of sockets, the tab's client | connect, log in, join, leave, expire, reconnect, replace the socket | closing under an await; join overtaken by leave or refused; two timers; the late close of an old socket | a connected tab gets the events of its thread; closed sockets are forgotten |
| Sessions | `S/auth`, `S/redis`, `frontend/src/lib/api/client.ts` | codes and counters in Redis, the stored refresh token | request and verify a code, refresh, log out | refreshes of several requests at once; INCR and EXPIRE apart | a user who is logged in stays so |
| Customers and their analyses | `S/customer`, `S/events`, `S/rabbitmq`, `analytics/src` | customer with contacts, opportunities, activities; the queue; analyses | change, remove, ask for an analysis; publish, confirm, deliver, acknowledge, reject | publication after commit, connection lost, worker crash, several queries per analysis | what is acknowledged was analysed; what is queued is settled |
| Users and departments | `S/users`, `S/departments` | manager and parent links; signatures, their requests and files | change a manager, upload and review a signature, remove a user | walk then write; two verdicts at once; files outside of transactions | no cycles; no signature loses its file; both sides are told |
| Roles and guards, forms, attendance, personal information, AI summaries, pages, schema | `S/roles`, `S/common`, `S/forms`, ... | single rows | one-row updates, queries | little | |

How they meet: production steps and public forms create submissions, which
start approvals; all of them, repairs and threads create in-app notifications,
which the Bale poller delivers; threads push to the realtime registry; changes
of customers and form submissions go through one publisher to RabbitMQ.

## 2. The modules

| module | stands for |
|---|---|
| `ProductionRules` | the rows of a run and the effect of each database write; no variables |
| `ProductionWorkflow` | the abstract promise: every request is one atomic step |
| `ProductionRun` | the same requests cut at their awaits, concurrent, and mortal |
| `ProductionRefinement` | the mapping from `ProductionRun` to `ProductionWorkflow` |
| `ProductionRunProofs` | theorems about the two and the mapping between them |
| `ProductionFlows`, `ProductionFlowsProofs` | the editor of flows and the start of runs, and theorems |
| `Approvals`, `ApprovalsProofs` | policies, instances and answers, and theorems |
| `BaleDelivery` | the poller, with time |
| `Repairs`, `RepairsProofs` | repair cases, and theorems |
| `Recruitment`, `RecruitmentProofs` | applications, and theorems about them |
| `Communication` | one thread: members, assignments, messages |
| `Realtime` | one tab and its connections |
| `CommunicationProofs` | theorems about `Communication`, `Realtime` and `BaleDelivery`, the ways in which a user hears of something |
| `CustomerEvents`, `CustomerEventsProofs` | one customer, the queue and the worker that analyses him, and theorems |
| `Users`, `UsersProofs` | managers and signatures, and theorems |
| `MC...` | constants for TLC |

`Realtime` and `BaleDelivery` prefix the names of their specification (`LiveSpec`,
`BaleSpec`), so that one module can hold the theorems about them and the threads.
In every module a variable is a table (or the few columns that matter), a
record of the requests in flight (`handlers`, `requests`, `desk`, `pollers`, `server`, `task`), or a
counter that bounds failures. A request in flight carries what it has *read*;
actions that write use the row as it is now where the code updates by id, and
what was read where the code writes that back (the checklist, the dates of a
repair, the attempts of a delivery). Operators named `MUTANT of ...` in comments
are plausible mistakes kept beside the definitions they would break; no
specification uses them.

### Production

`Arrive` (with `SubmitStep`, `ReviewStep`, ...) is `getRunStep`'s first query
with the guards on it; `CheckRun` its second query and the row inserted next
(form submission or review); `WriteStep` the update by id; `Notify` the
notification; `AdvanceRun` the transaction of `advanceRun`. `NoStep` = 0 is
`currentStepOrder = null`. Supervisors, approvers and assignees are fixed per
step, so users are left out: any request the right user could make may come at
any time, also twice. The answers of a checklist are the set of items checked;
the contents of forms are left out. A run starts as `startRun` leaves it, its
first notification still to be sent.

### Flows and the start of runs

`edition` stands for the ids of a flow's steps: `updateFlow` deletes the steps
and creates new ones, so a run copied from an older edition refers to rows that
are gone. `StartRun`, `ReadSteps`, `CheckSerial`, `DrawNumber`, `CreateRun` and
`NotifyFirst` are the queries of `startRun` (a relation in an `include` is a
query of its own); `UpdateFlow` and `RewriteSteps` the check and the transaction
of `updateFlow`; `DeleteFlow` the count, `Deactivate` and `Delete` what follows
it. `Insertable` and `StepsAreFree` are the unique and foreign keys of
`prisma/schema.prisma`, which do the work here.

### Approvals

`ReadInstance`, `ReadStep`, `Check`, `Record`, `Decide`, `Notify` are the awaits
of `approveStep`; `Submit` to `NotifyFirst` those of `FormSubmissionsService.create`.
Replacing a policy gives its steps a new version, since actions refer to step
rows; the foreign key without cascade then refuses to replace a policy that has
been acted on. Signature snapshots are copies of a file name and left out.

### Bale delivery

Time runs in units of 30 s, the first retry delay. `Claim` is the `updateMany`
with the status and time that were read. The poller's timer (10 s) is finer than
a unit: `Tick` waits until idle pollers have nothing due. `MaxHold < Stale` says
a live process settles a claim before it counts as abandoned: a send is aborted
after 12 s, the take-over comes after 120 s. This is an assumption on the
database's latency, named in `BaleAssumption`. `Link` is the webhook,
`ResetBaleChat` the administrator's `resetBaleChat` in `users.service.ts`: a poller
goes on with the chat it has read.

### Repairs

`ReadCase` reads and validates, `WriteImage` stores the photo, `Commit` is the
transaction; it fails with or without cleaning up in `TransactionFails`. The
dates are set when they were null in what was *read*. `Register` and
`CreateCase` are the count of cases and the insert with its unique number.

### Recruitment

`ReadApplication` is the read and `ensureStage`; the other actions the
transaction with `where: {id, version}`. `transitions` is append-only as in the
code. A refused update throws and changes nothing. Accounts are in `holder`, which
says whose number it is; an account is known by the application it was made
for and a number. `CreateUser`, `ChangePhone` and `RemoveUser` are `create`, `update`
and `remove` of `users.service.ts`, which accept only the numbers in `Mobiles`, the
spelling of their validation. Deleting a user sets `finalUserId` to null
without a new version of the application. The staff who act keep their
own accounts. `finalApprove` compares numbers as they were typed, the rule for open
applications normalized ones, so that one person with two spellings can be hired
twice; the instance has such a person.

### Communication

Adding, removing and assigning first touch the `ThreadParticipant` row of the
user, so their transactions wait for each other and each is one step. Sending
counts the mentioned participants without a lock: `CheckMentions` and `Insert`
are two steps. `audience` is a history variable: who was a member when a message
was stored and has not left since. One thread is modelled, from the commit of
`createThread` on: its request is the first one under way, with the assignees and
then the other participants still to be told. An assignment is a number, and
`announced` holds those that were told; `lost` those whose own request died first.
The opening message that `createThread` may store is left out: it notifies nobody.
Threads share nothing but users.

### Realtime

`tab` is the browser's singleton client and the page's selected thread, or none;
each connection gets a new element of `Sockets`. `Receive` takes messages in order,
but `Verified`, `Loaded`, `Joined` and `JoinFails` are the continuations after awaits
and finish in any order, also after `OnServerClose`. `outlived` records what was
still awaited when the server side closed. A join is refused without a word, or
fails with an error the page has no handler for (`JoinFails`); `refused` records
the threads whose last join came to nothing.

`Reload` is the clean-up and re-run of the page's effect when the view, a filter or
the search changes: `disconnect()` and `connect()`. The tab hears of the close of
its old socket later (`OnClose`, of any socket that has closed), and its client has
one `connected` for all: a close that comes after the new socket has connected
clears it, and the tab sends nothing any more although the server has it
registered. `muted` records this. The close also sets a reconnect timer, since
`connect()` has reset `manualClose`.

Not modelled: leaving the page; a tab without a token, which closes its socket
at once and tries again; the moment between the close frame of the server and
the browser's close event, in which a socket is closing; several tabs, which
share nothing but the user.

### Customers and analyses

One customer; a change is the version of the part it writes: his row, his
contacts, his timeline, or one of his sales opportunities (`UpdateCustomer`,
`ChangeContact`, `CreateActivity`, and the three actions on opportunities). Every
change but one of the timeline adds an activity in its transaction, and so does the
worker, which publishes nothing. An event is
`committed` between the end of the transaction and `publishToExchange`,
`sending` until the broker has it, `queued`, `delivered`, and then `done` or
`rejected`; `dropped` when the channel was not ready or broke. `isReady` is set by `init` only.
The worker's `task` is `process_customer_event` cut at its queries, in their order:
row, contacts, opportunities, activities; analysis and activity are stored apart. A
worker that loses its connection counts as stopped.

The worker reads the ten newest opportunities and the thirty newest activities.
`SalesLimit` is the first limit, and `Newest` the query; what an analysis knows of an
opportunity beyond it is that there were as many newer ones. The timeline only
grows, so that its version says which activity is the newest that was read: the
limit needs no constant, and a version "known" means that the activity was read, or
as many newer ones as the query takes. The ten repairs are left out, since a change
of a repair publishes no event of the customer, and so is the last analysis, which
the worker reads back. Opportunities get their `createdAt` in the order of their
commits.

### Users

`Climb` is one turn of the loop in `validateManager`, with the query that gives
it the next manager; `Move` the update that follows. `files` are the names under
`uploads/signatures`; keys are fresh numbers for random ids. `Review` reads a
pending request, the steps up to `TellRequester` are the awaits of
`reviewSignatureChange`. `overlapped` records whether two changes of managers
were ever under way at once. Departments do the same with `parentId`.

## 3. The runs

| run | module, cfg | question and instance |
|---|---|---|
| production_run | `MCProductionRun` | `NoBypass`, `QcGate`, `SubmissionAccounting`: what survives two concurrent requests and one that dies; `CompletionOpensNext`: a completed step opens the next one unless a request dies. 2 steps, of which an approver reviews the first and nobody the second, with QC; 2 submissions per step. Other flows are the business of the proofs and of production_serial |
| production_serial | `MCProductionSerial` | `ImplementsWorkflow`: one request at a time, the cuts add no behaviour, and what is proved of the atomic workflow holds of the code. 3 steps, all 128 flows of three steps, 1 checklist item |
| production_qc (fails) | `MCProductionRun`, `MCProductionQc` | `QcAfterAllSteps`. 1 step without reviewers, submitted once, QC required: nothing but a stale `beginStep` is left to break it |
| production_flows | `MCProductionFlows` | `FlowIsFrozen`, `NumbersAreDense`, and `TypeOK`, which says that steps are numbered 1..n: one flow, valid and invalid inputs, two requests, two editions, two runs, two days, serial numbers with and without spaces, one failure |
| approvals | `MCApprovals` | `ReachedInOrder`, `ApprovedIsEarned`, `DueRoleIsNotified`, `StuckIsExplained`: two approvers who share a role, policies of none to three steps replaced once, one failure |
| bale_delivery | `MCBaleDelivery` | `OneHolder`, `NoDuplicates`, `BaleTypeOK`, which bounds the attempts, and `EventuallySettled`: two pollers, two notifications and batches of one, so that one has to wait for the other, two attempts, one mishap, eleven units of time, enough for the last retry after a take-over |
| repairs | `MCRepairs` | `HistoryIsSupported`, `SlaAgreesWithCase`, `TechnicianIsTold`, `PhotosAreAccounted`, and `TypeOK`, which keeps case numbers unique: one case, one who may touch all cases and a technician, one photo, four status changes (up to READY_FOR_DELIVERY), one failure, with and without an SLA of one unit, two units of time |
| recruitment | `MCRecruitment` | `HistoryIsPath`, `HiredIsEvaluated`, `OneAccountPerHire`: two applications, two spellings of one number of which accounts take one, two members of staff, six changes of an application (the whole way to hiring and one change more), two changes of accounts: enough to free a number and to take it |
| communication | `MCCommunication` | `AssigneesAreMembers`, `AssigneesAreTold`, `AnnouncedOnce`, `EveryoneIsTold`: three users, created with any members and assignees, one message that mentions one of them and may be sent again and again, two requests (the one that created the thread is one of them at first), two assignments, one failure |
| realtime | `MCRealtime` | `ConnectedIsRegistered`, `LeftoversAreLate`, `EventuallyRegistered`, `LiveTypeOK`: two threads, two switches, one reload and one outage, and therefore three sockets |
| customer_events | `MCCustomerEvents` | `AnalysisCoversEvents`, `QueuedIsKept`, `EventuallySettled`, and `TypeOK`, which ties queue, task and events together: three events, one mishap, two opportunities from before and a query that takes one |
| users | `MCUsers` | `DrawingsExist`, `BothAreTold`, `CyclesNeedOverlap`, `ClimbEnds`: a chain of three users, one who signs and one who may be removed, two changes of managers, four changes and files together, one failure |

Every property has a mutant of the model that breaks it. Several invariants
hold although the code is not careful, and say what its carelessness cannot do;
`LeftoversAreLate`, `HistoryIsSupported`, `NoDuplicates` and
`SubmissionAccounting` are as strong as the code allows: a socket can stay in
the registry, racing changes can leave the status flow, a lost answer sends a
notification twice, a dead handler leaves a submission without its step.
`StuckIsExplained` lists the ways in which a submission stays PENDING for ever: its
step is missing from a policy that replaced the first before anybody had answered
(`approvals.service.ts:393`), a rejection was refused after it was recorded, a step was
answered twice, or a request died. `OneAccountPerHire` says that approvals make one
account for an application, even where the number is freed under them.
`CyclesNeedOverlap` and `ClimbEnds` say that a cycle of managers, which lets the
walk run for ever, takes two changes at once, and `AnalysisCoversEvents` says that
an event that was dropped is made up for by the next one that is not, as far as the
limits of the worker's queries reach. `EventuallyRegistered` names what may keep a tab
from its events: a renewal that failed, a join that was refused, the late close of an
old socket.

Two things that are as the code has it, and not as a reader may expect: a
rejection without a reason is refused after its action was stored, and the
submission then takes no more answers (`approvals.service.ts:427`); a rejected
application keeps its stage, and later operations look at the stage only
(`recruitment.service.ts:33`), so that it can go on.

Bounds, and why they suffice. Two requests in flight show every race of one
check with one write, which is what this code has: no handler waits for
another. Two submissions per step are the least that allow a repeated and a
late one; two steps have a next and a last step, three (in the serial run) also
a middle one. One failure per run of requests suffices for each place a handler
may stop; that larger batches and further mishaps do not harm the safety of the
poller is what its theorems say. Two attempts (five in the code) cover a retry and
the end of retrying. Four changes of status take a case through repair and QC, or through its completion
and a racing second one; DELIVERED and CLOSED, each the only successor of the
status before, lie beyond. Symmetry is
declared only over handlers, users or requests that no constant distinguishes,
and not in runs with liveness. Bounds are guards or constants named `Max...`;
deadlock is not checked where the bounds, or the end of a process, stop the
system (`CHECK_DEADLOCK FALSE`).

One run is expected to fail, and shows that the code does not do what it says
itself. **production_qc**: `reviewQc` answers unfinished work with "all production
steps must be completed first" (`production.service.ts:451`), but looks at
`currentStepOrder` only. `beginStep` writes IN_PROGRESS by id (line 359) over whatever the
status has become since it was read. In the run's trace it has read READY; the
step is submitted and completed meanwhile, and the late write opens it
again; the submission's `advanceRun` then ends the pipeline, and QC passes a run with
a step in progress. A step submitted twice comes to the same in larger
instances, by its late advance; the run has room for one submission only, so that
the trace is about `beginStep`. `NoBypass` and `QcGate`, which hold and are proved, say
what remains: every step was submitted and approved at least once.

Fairness. *production_run* and *users*: weak fairness of every handler's progress;
Node resumes a handler whose query has returned. Requests that die are never
resumed, arrivals are not fair. *bale_delivery*: the timer fires, queries
return or fail, time passes, and a stopped process is started again
(`restart: always` in `docker-compose.prod.yml`); no fairness for the user who
links a chat or the administrator who resets it. *realtime*: the browser delivers
its events (`OnConnected`, `OnClose`) and timers (`Reconnect`) and its API call ends,
well or not (`Renewed`); the server gets to every message and every awaited
result (`Works`), where a join may succeed or fail. Lost connections, expiring tokens
and reloads are never fair, and bounded. *customer_events*: weak fairness of the
worker, whose calls return or fail and which is started again; none for the
backend, whose events may stay unpublished. A worker that has no key of the language
model dies when it starts: `docker-compose.test.yml` gives it one,
`docker-compose.prod.yml` gives the CRM worker none, and there this fairness, and with
it `EventuallySettled`, is not justified.

## 4. The proofs

| module | theorem | says |
|---|---|---|
| `ProductionRunProofs` | `RunTypesHold` | `TypeOK` |
| | `NoStepIsBypassed` | `NoBypass`, for any number of steps, handlers, submissions and failures |
| | `ClosingNeedsQc` | `QcGate`, likewise |
| | `SubmissionsAreCounted` | `SubmissionAccounting`, likewise |
| | `SerialImplementsWorkflow` | `ImplementsWorkflow`: with one request at a time and no death the code implements `ProductionWorkflow`, for any number of steps and attempts |
| | `RunIsPipeline`, `CompletionNeedsApproval`, `ClosingNeedsCompletion` | the three invariants of the atomic workflow, for any number of steps and any flows |
| | `SerialRunsAreSound` | therefore the same three of the code, without overlap |
| `ProductionFlowsProofs` | `FlowTypes`, `FlowsAreFrozen`, `ReferencesAreDense` | `TypeOK`, `FlowIsFrozen`, `NumbersAreDense`, for any flows, inputs and requests |
| `ApprovalsProofs` | `ApprovalsTypes`, `ApprovalsInOrder`, `ApprovalsEarned`, `RolesAreNotified`, `StuckHasAReason` | all invariants of `Approvals`, for any policies, roles and approvers |
| `RepairsProofs` | `RepairsTypes`, `HistoriesAreSupported`, `SlaIsTrue`, `TechniciansAreTold`, `PhotosAreKnown` | all invariants of `Repairs`, for any users, cases, photos and failures |
| `RecruitmentProofs` | `HistoryIsAPath`, `HiringNeedsInterviews`, `HiringMakesOneAccount` | all invariants of `Recruitment`, for any number of applications, numbers, staff, requests and changes of accounts |
| `CommunicationProofs` | `CommunicationTypes`, `WorkHasMembers`, `WorkIsTold`, `MessagesOnce`, `MessagesReachAll` | all invariants of `Communication`, for any users, messages and requests |
| | `RealtimeTypes`, `OnlyLateOnesAreLeft`, `ConnectedTabsAreServed` | all invariants of `Realtime`, for any threads, switches, reloads and lost connections |
| | `BaleTypes`, `ClaimsAreExclusive`, `DuplicatesAreMishaps` | all invariants of `BaleDelivery`, for any processes, notifications, retries and mishaps |
| `CustomerEventsProofs` | `EventTypes`, `DoneIsAnalysed`, `ToldIsKept` | all invariants of `CustomerEvents`, for any limit and any number of changes, events and mishaps |
| `UsersProofs` | `UserTypes`, `DrawingsAreKept`, `CyclesNeedTwo`, `SignatureNews` | all invariants of `Users`, for any users, hierarchy and requests |

Assumptions are those named in the modules, and TLC evaluates them in the runs.
Most say that sizes are natural numbers and that constants are of the right kind
(`StepsAssumption`, both `FlowsAssumption`s, `RecruitmentAssumption`,
`ApprovalsAssumption`, `UsersAssumption`, `RepairsAssumption`,
`RealtimeAssumption`, `EventsAssumption`) or finite (`HandlersAssumption`). Four say something of
the code's surroundings: `PoliciesAreNumbered` (the policy editor numbers the steps 1..n;
the endpoint would accept gaps), `ContentsAssumption` (the validation of the
input: a flow has a step, orders start at 1), in `CommunicationAssumption`
that nobody mentions himself, and in `BaleAssumption` that a live process settles
a claim before it counts as abandoned (`MaxHold < Stale`). `UsersAssumption` also
says that the hierarchy has
no cycle at first.

**The atomic workflow.** `WorkflowInv` joins `TypeOK`, `Pipeline`,
`CompletedIsApproved` and `ClosedRunIsDone`, which are inductive only together:
a step that may be edited or reviewed must be the current one (`Pipeline`), so
completing it is the only way to move the run. `QcKnown` ties `qcStatus` to the
flow; without it `advanceRun` could close a run that needs QC. The proof has one
step per action and one per conjunct the action disturbs.

**The concurrent run.** `Pipeline` is false here (*production_qc*), so the proof
looks for what no race can take away: statuses never return to LOCKED, attempts
only grow and reviews are only added (`Grows`), so that a step once `Cleared`
stays so. `RunInv` adds to `NoBypass` and `QcGate` what a waiting step has
behind it (`WaitingIsReviewable`) and, for every request in flight, that what it
has read still justifies what it will write (`Snapshot`): its step is not
LOCKED, an approval about to complete a step is on record, a verdict of QC is
given over cleared steps, and whoever is about to advance the run holds a step
cleared with all before it. What a write does to a row is stated once, in lemmas
about `ProductionRules`. `SubmissionAccounting` is inductive once the types are
known: every step of a handler moves the count of one production step in one of
four ways (`Counted`), which the lemma about cardinalities adds up.

**The refinement.** What `SerialImplementsWorkflow` needs, and an overlap breaks,
is that what the one request has read is still the row (`StillTrue`), and that no
review of the attempt that waits is there yet (`FreshReviews`), so that a review
the mapping still hides is a new one: together `SerialInv`. Under it the write of
the step maps to the atomic step, a pause, resumption or cancellation to its own,
and everything else to a stutter, action by action. Because every behaviour of the
code then is one of the workflow, the invariants proved there hold here
(`SerialRunsAreSound`).

**Flows.** `FlowInv` says for every request how old its copy of the flow may be
(`Read`): its edition is at most the flow's, and while it is the same, so are
the steps. The key on `flowStepId` lets a run in only while the editions agree
(`CreateRun`) and lets no edit past a run (`RewriteSteps`, `Delete`). A number
that was drawn is at most one above the count of its day, so the unique key
leaves only the next one.

**Approvals.** An instance is written by requests that have read it long ago.
`AppInv` says of the row, and of what each request has read of it, that the
steps before were endorsed (`Rightful`), and that once there is an answer the
policy is the one in force (`Current`): the key of `ApprovalAction` allows a
policy to be replaced only while no answer refers to it. `DueInv` says, while
nobody has died and the first policy stands, that the role whose turn it is has
been told or a request is about to tell it. `StuckInv` follows the answers: one that
blocks its step comes from a request that is still at work, or was a rejection
without a reason, or is one of two answers to its step. `PlacedInv` follows the step
itself: it is one of the policy, or no answer stands for the submission, and only
then can a policy without the step have been saved.

**Repairs.** `Typed` adds to the types that what a request holds still exists.
`HistoryInv`: the status a request has read is REGISTERED or was set by an entry
of the log, and the log only grows; a status may be overwritten under the request,
what has once been set stays on record. `SlaAgreesWithCase` is inductive: one
transaction writes the date of the case and of its SLA, and computes the breach
from that date. `ToldInv`: the technician was
told, or the request that assigned him is about to tell. `PhotosInv`: a photo has
one holder, the request that carries it, the log, or nobody any more.

**Recruitment.** `RecInv` adds to the three invariants what a row says of the
stages behind it (`Interviewed`), and for every request that what it has checked
holds as long as the version it has read is current (`Bound`): versions only
grow, so none is used twice. `Numbered` says of the accounts that only the hired have
one, under one number at a time. An approval commits from a stage that the hired have
left, so that it finds none of its own; the unique key of the number keeps those of
others from being overwritten.

**Communication.** `Announced` follows a message: nothing before it is stored, one
request that announces it (the unique key lets no other in), the mentioned told
first, then the rest of the audience. Work belongs to members because the row of
the member orders the transactions that assign and remove. Whoever has work is told
because what a request owes (`Owed`) changes hands in one step: from the transaction
that makes an assignment to its request, and from there to `announced` or, by the
request's death, to `lost`.

**Realtime.** `TabInv`: only the socket of the tab is up, which is why a reload has to
close the old one, and "connected" is heard of no other. `LateInv` strengthens
`LeftoversAreLate` by what is awaited: once the server's side has closed, an await
that still runs was running when it closed. `RegisterInv` follows the join of the
selected thread for a connected tab: it is under way with no leave of that thread
behind it, or was received and is awaited, refused or done, again with no leave to
come. The client leaves a thread before it joins the next, so the last word is a
join.

**Bale delivery.** `Claims`: a poller at work on a row has claimed it, the row says
SENDING, and the claim is no older than `MaxHold`. Another poller takes over only
what is older than `Stale`, and its compare-and-set needs the row as it was read,
so that it finds no claim of a live process (`OneHolder`). `DeliveredInv`: a row is
delivered once more than there were mishaps only when it is `Spent`, sent and on
record, or in the hands of the poller that is about to record it; every other way
back to the queue costs a mishap.

**Events of customers.** What an event announces is written by the time it is
published (`Written`): a part has that version or a later one, an opportunity too unless
it is gone, and a number is not used again. A task reads after its event was
published, and after all those before it were acknowledged; so with each query it comes
to know what all of them announce of that part (`Informed`, with `Read` for the
steps at which a part has been read), and later changes take nothing of that away.
Of the opportunities the query leaves out, all that it takes are newer. The
analysis then knows what the task has read. That needs one task at a time
(`InTask`). For `QueuedIsKept`, `Answered` adds that who asked for an analysis and
lost the event on the way to the broker is told so.

**Users.** For drawings, `Sound` says who may still make a file a signature
(`Claims`): at most one request, and of no file that a review is about to
delete. For managers, `Climbing` says that without overlap the chain the walk
has passed is closed under "manager of" and avoids the user; a cycle through the
new row would then have been one before. The cycle is stated as a group of users
whose managers are all among them, which needs no recursion. For `BothAreTold`,
behind each change of a signature that lacks a message stands a handler that
still has to send it, or one that died: the rows without a message are never more
than the deaths.

Only model-checked: liveness under fairness (*production_run*, *bale_delivery*,
*realtime*, *customer_events*, *users*), which the prover does not reach. Every
invariant of a passing run, and the refinement, is a theorem.

## 5. Plan

Done, in this order: production runs with their abstract workflow and proofs,
approvals, Bale delivery, repairs, recruitment with proofs, communication,
realtime; then flows and the start of runs, the events of customers, users with
their managers and signatures, and the proofs about flows, approvals,
communication, events and users; then the refinement and the proofs about
repairs, realtime and Bale delivery, with which every invariant is proved; then
refused joins and reloads, the creation of threads, the accounts of the hired, the
resetting of chats and the limits of the worker's queries.

Next, by weight:

1. *Proofs*: action properties of single rows that the invariants imply (an
   approval, a cleared step and an entry of a log are never taken back).
2. *Operations*: editing threads, read marks and attachments; form templates of
   recruitment and their publication; the editing of SLA policies.

## 6. What is not modelled, and why

The components of the last row of section 1 change single rows or only read
them. Sessions and one-time codes: each operation reads and writes one row or
key, and what they promise rests on bcrypt, jwt and the expiry of Redis keys.
Departments repeat the hierarchy of `Users`. The consumer of form submissions is
commented out of the deployment. `backend/src/generated/prisma` is the generated
database client, three quarters of the lines of the implementation; what matters
of it is what the queries do, and that is modelled where they are made.

Left out of modelled components: queries, lists, reports and statistics;
wording and formatting; the contents of forms, messages, photos and drawings (a
value or a set member stands for them); permissions, except where a scope
decides who may act, which is then a constant; the chat dialogue of the Bale
webhook; the page's own copy of messages; the year in the number of a repair case.
Two requests that link one phone number to two chats in the same instant are taken
as one after the other.
In `Repairs` a photo is written whole or not at all, although a process that dies
within `writeFile` (`repairs.service.ts:1189`) leaves a part of one, which is a file nobody
accounts for like a whole one; and a transaction that is reported as failed has
failed, although a connection that breaks while the commit is answered lets the
catch branch (lines 1262-1265) remove the photo of a change that took place.
