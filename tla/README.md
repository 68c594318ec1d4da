# A verification project for Team Cooperation (coifesp-harness)

Team Cooperation is an agent-first collaboration system for several teams: a
FastAPI control plane, PostgreSQL as the only shared memory, and pools of agent
workers, tool workers and task executors that take work from tables under
time-limited leases. This directory holds TLA+ models of the parts of the
system in which processes, crashes and retries meet, the TLC configurations
that check them on small instances, and TLAPS proofs of what matters most for
every size of instance.

All source paths below are relative to `src/src/coifesp_harness/` unless they
start with `src/`.

## 1. Inventory

### 1.1 How the system works

A person or a team submits goals to the control plane. The project process (a
state machine kept in tables, driven by wake-ups) decides what to do next and
dispatches team tasks as agent runs. An agent worker claims a run, lets the
agent loop talk to the model, and commits a checkpoint. Tool calls of the model
are executed in process, need a person's approval, or become durable tool jobs;
a delegating tool starts a specialist, which is an agent run of its own. Results
are verified, integrated and delivered to a person who accepts or rejects them.

Nothing but the database is shared. Every repository method is one transaction
that locks the rows it changes, so it is atomic; everything between two
transactions (a model call, a handler, a second read) is where other processes
interleave and where a process may die.

### 1.2 The parts

| part | state it keeps | operations | talks to | what is hard | what makes it correct |
|---|---|---|---|---|---|
| agent runs (`agent_runs/`) | run rows (status, version, lease, failures), encrypted checkpoints, control commands | create, submit_control, cancel_queued, claim_next, start, heartbeat, checkpoint, retry, abort, recover_expired, resume_approval, requeue_after_tools | agent loop, approvals, tool jobs | late workers, lost replies, commands racing the completion, reads in several transactions | one holder per run, commands applied once and in order, no command stranded, no resume that loses work, every run settles |
| agent loop and model gateway (`runtime/`) | conversation, usage; circuits, slots and routes of providers | run, pull_control; route, attempt, fail over, stream | agent runs, tool executor | failure in the middle of a stream, a circuit that opens between choice and attempt | what a caller hears comes from one provider |
| tool jobs (`tool_jobs/`) | job rows (status, attempts, lease), the parked run's placeholders | dispatch, claim, run, succeed, fail, recover_expired, await_specialist, complete_specialist, wake_if_complete, reconcile | agent runs, specialists | timeouts whose thread goes on, crashes between job and wake-up, reused call ids | a batch comes back whole and once, results are final |
| team agents (`team_agents/`) | delegations, projections of run results onto tasks, rework, accounting | delegate, project_child, replay_pending, dispatch, project, settle | tool jobs, project process, budget | callbacks lost or repeated, child ends before the parent parks | one child and one settlement per delegation |
| task execution queue (`execution/`) | task rows, dependencies, leases, cancel flag | enqueue, claim_next, start, heartbeat, succeed, fail, request_cancel, acknowledge_cancel, recover_expired | executors | cancellation against failure, blocked dependents, late reports | dependencies first, attempts bounded, a cancellation ends the task |
| approvals (`approvals/`, `tools/executor.py`, `idempotency.py`) | approval rows with versions, idempotency keys | create, decide, revoke, consume; prepare_dispatch, execute | agent loop, tool jobs | revocation against consumption, lost replies, crash before the handler | no unapproved effect, no effect twice |
| project process (`project_process/`) | process row, events, wake-ups, decisions, human inputs and gates, planner intents, budgets | apply_transition, append_fact, claim, decide, record/finish decision, gates and inputs, planner batches, admission, reserve/settle | everything above | decisions stale when applied, wake-ups that fail for good, a batch applied long after its snapshot | every event is acted upon, a batch is applied whole and within the policy or not at all, terminal is final |
| task verification (`verification/`) | verifications, checks, agent and human reviews | verify_run, reviews, tool jobs, retries | tasks, tool jobs, project process | evaluated by several processes while a new run is submitted | a task is verified only on evidence of its latest run |
| delivery (`delivery/`) | completion contracts, integration runs, deliveries, decisions | propose/approve_contract, integration.execute, decide | project process, artifacts | contract or accounts change while people decide | a delivery is of verified work, completed by everyone the contract names |
| collaboration (`collaboration/`) | outbox, inbox; the board of a program | claim, send, receive, process; every board command | other deployments | duplicates, lost answers, two commands with the same loaded copy | each envelope stored once and intact, no command undoes another |
| contracts (`contracts/`) | releases, dependencies, impacts | register, release, depend, accept/dispute | board | impacts accepted in any order | a baseline never moves back |
| work graph and planning (`work_graph/`, `product/planning.py`) | rows, nodes, relations; plan drafts | put row/node, relate; approve, reject | planner, project process | an approval that stops between two transactions | a plan is materialised whole, once |
| capability directory (`capabilities/`) | declarations, capacity, reservations | declare, match, reserve, release, negotiate | dispatcher | reservations that do not see each other | a consumer never overbooks |
| memory, retention, keys (`memory/`, `retention/`, `key_management/`) | records, deletion requests, holds, batches, rotation plan | write, review, delete, hold, purge, rotate, run batch | agent loop, storage | deletion against review or rotation; lost receipts | what is to be deleted stays out, what is kept stays readable, a batch acts once |
| context assembly (`context/`) | semantic checkpoints | assemble, compact, review checkpoint | agent loop | budgets met exactly | every item is accounted for once |
| artifacts, documents, code (`artifacts/`, `product/document_workspace.py`, `product/code_workspace.py`) | blobs, manifests, versions, drafts | publish, edit, approve, parse, apply | delivery, library | crash between blob and row, head that moves under an approval | each version traces to an approved draft and to readable bytes |
| accounts (`product/service.py`) | accounts, sessions, teams and their relations | register, provision, log in, renew, revoke, relate | every route | decisions on rows that are not locked | the founder owns the team, a renewal never forks a session, teams are related by one request |
| library, tasks, feed (`product/service.py`, `product/workspace.py`, `product/notifications.py`) | resources, copies; tasks, schedules, reminders; topics, drafts, activities, cursors | upload, share, save; propose, accept, reschedule; decide, contribute, execute | project process | propagation that changes after authorisation, reminders from a stale row, activities out of order | nothing copied that was not announced or shared; reminders and terms current; one outcome per draft |
| conversations, exchanges (`product/workspace.py`, `turn_projection.py`, `exchange.py`) | conversation, turns, messages; drafts, exchanges, answers | send, start turn, project; draft, approve, answer | agent runs | projections repeated by several threads, answers at once, a draft that arrives after the answer | one turn at work, a draft stored before its turn is complete, the reply a turn names is its message, an exchange responded only when all have answered |
| connectors (`connectors/`) | reviewed revisions, circuit, adapter ledger | propose, review, disable; execute, begin, complete | tool jobs, GitHub | requests late, twice or in the hands of a dying adapter | a write at most once per adapter, success never made up |
| audit log (`postgres_audit.py`) | hash chain per tenant | append, verify | all services | verification while appends commit | an alarm only when overtaken |
| authentication (`auth/`) | token cache, key cache | token, verify, owner lookup | workers, identity provider | key rotation under a cache, a directory that changes between requests | a live token is accepted, a withdrawn key is not accepted for ever |
| control plane (`control_plane/`), entry points | none of their own | routes; worker loops; wiring | all | what is wired and what is not | maintenance calls are made by somebody |
| tool catalog, sandbox, skills, MCP/A2A gateways, security policy, observability, evaluation, release, disaster recovery | registrations, files, documents | look-ups, container runs, pure evaluation | tools, routes | I/O | pure functions or I/O, see section 7 |

`PROJECT.json` lists the same parts with their files and status.

### 1.3 Behaviours a test hardly reaches

The list with its source lines is `hazards` in `PROJECT.json`. In short: workers
that come back after their lease was given to somebody else; replies lost after
a commit; a command, a cancellation or a revocation that arrives between the
last look and the write; retries and lease recoveries that share one budget;
a batch whose last job ends while its worker dies; a thread that outlives its
timeout; a child that ends before its parent waits for it; copies loaded without a
lock and written back whole; sequences of transactions that stop in the middle and are
repeated; rows of one tenant that another tenant's check does not see; and
steps the code has but no process schedules.

## 2. Plan

Done, in this order, because everything else is built on leases and parked runs:

1. `AgentRuns` – run, worker, loop, commands, resume.
2. `ToolBatch` (abstract) and `ToolJobs` (detailed, shown to implement it).
3. `TaskQueue` – the second lease queue, with dependencies and cancellation.
4. `Approvals` – approvals, managed dispatch and the idempotency store.
5. `ProjectProcess` – wake-ups, runner, decisions, the transition matrix from the
   plan's approval to the accepted delivery.
6. `Planning` (with the work graph), `Planner` – how work enters a project; `Readiness` – which of
   it is admitted, as an algorithm against a reference definition; `Verification` and
   `Completion` – how it leaves.
7. `Transport`, `Governance`, `Contracts` – what teams of different deployments agree on.
8. `Accounts`, `Library`, `TeamTasks`, `ProjectFeed`, `Conversations`, `Exchanges`,
   `Documents` (with the stores of artifacts) – the workspace of people and teams.
9. `Gateway`, `ContextAssembly`, `WorkerIdentity`, `Connectors`, `Capabilities`, `Memory`
   (with the rotation of its keys), `Retention`, `AuditLog` – the services underneath.

Left: the phases before the plan's approval (INTAKE, ANALYSIS), the publication of
the process outbox, and compositions of parts that are driven apart from each other today
(verification with the process, exchanges with agent runs, connectors with tool jobs).

Every safety property of the passing runs is proved (section 8). Still worth proving: what a
composition of the parts above would have to keep.

## 3. Modules and how they correspond to the code

`map` in `PROJECT.json` gives the lines for every definition. In all modules:

* One transaction is one action. Its guard is the method's checks, its
  early returns with no effect are stutters and left out, its error paths that
  write something are actions or disjuncts. A method that decides on rows it has not
  locked, or that runs several transactions, is several actions, with what it has
  read in a variable of its own.
* There is no clock, except where a duration is compared with another one
  (`Retention`, `WorkerIdentity`, `Capabilities`, `TeamTasks`). `lapsed` on a leased
  row says its expiry can be seen by whoever compares it with a `now`; because `now` is
  sampled before the row lock is granted, a holder's call may still succeed then.
  `delayed` says a retry time lies in the future.
* A lease token is a number issued once (`secrets.token_urlsafe`). Workers of a
  pool may share one principal, so the owner column distinguishes nothing.
* A commit whose reply is lost is a commit followed by an exception in the caller.
* A process may die at any point (`Vanish`, or a variant of that name in the module).
* Transactions run at READ COMMITTED on PostgreSQL; in-memory repositories are not
  modelled.

### AgentRuns

`row` is `agent_runs`, `ckpt` the decrypted checkpoint, `cmd` the commands' status
by sequence, `wk` a worker inside `process_once`, `cl` a client inside
`resume_approval`. A conversation is abstracted to how often each command's
message occurs in it, which calls wait for approval, the approval bindings, and
whether some call waits for dispatch. `BeginTurn` and `ModelReturns` are the loop
of `runtime/agent_loop.py`; the model's answer is any the loop distinguishes.
`NextWithoutRecovery` is the system as the entry points assemble it.

### ToolBatch and ToolJobs

`ToolBatch` says what a parked run may rely on: it parks with a set of calls, each
gets one result, it comes back when all have one. `ToolJobs` has the run, the
placeholders of its calls, the jobs, the tool workers, delegations with their child
runs and reservations, and maps onto `ToolBatch` (`ImplementsToolBatch`).
`ReuseCallIds` and `MayOverrun` switch on two behaviours of the environment (a
model that repeats a call id; a child that ends above its reservation) so that
safety is checked with both and the liveness of a batch without them.

### TaskQueue

`task` rows with status, attempts, lease, cancel flag and delay; dependencies and
queues are chosen by `Enqueue`; `Claim` settles blocked tasks of its queue in the same
transaction, as `claim_next` does; late reports of workers are actions that must change
nothing.

### Approvals

`appr` is the approval row of an operation, `seen` the version of a row a
person last fetched, `claimed` which operation took an idempotency key, `ex` an executor inside `prepare_dispatch` and `execute` (idle,
prepared, claimed), `effects` how often a handler ran for an operation. What an
operation is comes as constants: its content and key (`ContentOf`, `KeyOf`) and whether
policy sends it to a person (`HighRisk`, `Manual`). The row locks of PostgreSQL are
assumed; in-memory repositories are not modelled. `consume` compares content and
execution id, so an approval may be used by another execution with the same content when
the first never consumed it; the model keeps that.

### ProjectProcess

`proc` is the process row (phase, status, wait reason, version); `ev` the events in
sequence order, each with its wake-up (attempts, lease) and the decision the wake-up leads
to, whose id is a digest of the event's; `task` the team tasks; `run` the latest agent run of a
task with its reservation, its projection receipt and its verification; `ctl` the input
request and the gate; `accepted` the acceptances of the current delivery; `runners` the runners
inside `process_once`.

A runner claims (`ClaimWakeUp`), reads the project and decides (`Snapshot`; `Reload` when an
earlier attempt recorded a decision), records the decision (`Record`, `Invalidate`), applies
it (`Dispatch`, `EnterIntegration`, `ReopenWork`, `Assemble`, which finish the decision in
their transaction, or `ReadCurrent` and `Publish`, or `ApplyNothing`), finishes it (`FinishDecision`,
`EmitStale`) and completes the wake-up (`Complete`). Each is a transaction of its own; `RetryWakeUp` is
the exception path, `RunnerVanishes` a lost process. `RunEnds`, `Settle`, `Project`, `Verify` are what
agent workers and their callbacks do in the meantime, `StartTask`, `SubmitTask`,
`RequestChanges`, `Open`, `Resolve`, `Accept`, `Reject` what people do.

`ProcessInit` is the project as the plan's approval leaves it. Wake-ups are claimed in event order,
as `claim` orders them when they become due together. A completed wake-up's decision is forgotten, because
nothing reads it again. `ENTER_DELIVERY` and `COMPLETE` are
decisions the orchestrator can name and never takes: the two outcomes they need are always
None in the snapshot it gets.

### Transport, Governance, Contracts

`Transport` has an outbox row, the wire, the inbox row, relays and consumers. An attempt's
number stands for its lease token and for the digest of the envelope built under it. The
wire may lose, repeat and delay; relay and consumer are services outside the repository,
modelled by the calls the transport offers them.

`Governance`: a command loads the board, computes the new one (`Load`) and saves it if the
version is still the loaded one (`Save`). `Contracts` adds releases, dependencies and impacts,
and the guard `contracts_guard` puts on verifying an assignment, which reads the impacts
between the two steps, those that row-level security shows the reviewer's team (`OpenImpacts`).

### Planning, Planner, Readiness, Verification, Completion

`Planning` holds the work graph (rows, nodes and relations) and approves a
plan draft one transaction at a time, `Planner` turns an intent into a run, its answer into a
decision with a batch, and applies the batch under the lock of the process; the snapshot a run
planned for is kept with its intent, so that what is applied can be compared with what was seen. The
consumer reads and writes in separate steps and locks the process and its decision; the rows of the graph
nobody locks, so a plan approval may write between the two. `AppliedInTurn`, a part of `PlannedWorkIsWhole`, says
that of several decisions planned for the same state of the process at most one is applied.
`Readiness` walks the graph depth first and admits tasks in order, over every graph of three
tasks; the walk is compared with reachability (`DependsTransitively`: every set of tasks that is
closed under the edges and has what the task requires has the other task). `Verification` is `verify_run` as two processes
call it, one of which cannot read the content, with tool jobs and reviews that go their own way.
`Completion` keeps for each account the versions it has last seen (`shown`), because a call carries them,
and for each delivery the contract under which people decide (`pin`).

### Accounts, Library, TeamTasks, ProjectFeed, Conversations, Exchanges

The product services, one module for each group of tables they change. `ProjectFeed` draws the
number of an activity when it is appended and shows it when its transaction commits, so numbers
become visible out of order. `Conversations` has two projecting threads for one turn;
`Exchanges` composes with it: the host's conversation drafts the reply of a recipient. Every call of an
exchange reads and writes in separate steps and keeps what it has read: `approving` of a draft, `answering`
of a response, `asked` of a turn that is about to be started, and `storing` of a projector, which finds the
recipient of its turn (`FindRecipient`), reads the status (`ReadReplyStatus`) and updates the row
(`StoreReplyDraft`). `response` is the row of the team's response, which stays when the recipient's status
does not.

### Documents

`Documents` composes the approval of a document or code draft with the store and the registry of
artifacts: store, register and commit are separate steps and a member may vanish after each.
A rendered office file contains the time of rendering (`Instants`), so the same edit rendered
again is other content.

### Gateway, ContextAssembly, WorkerIdentity, Capabilities, Memory, Retention, AuditLog

`Gateway`: model calls that interleave at every await over providers with slots and circuits.
`ContextAssembly`: sizes add up and escapes of a rendered record are any number up to a limit.
`WorkerIdentity`: token cache, key cache under a server-given age, and a directory read in three
requests. `Capabilities`: what a statement sees depends on whose tenant runs it (`SeenBy`).
`Memory` runs under the plan of a key rotation: a writer keeps the key it loaded, a batch skips
locked rows, the approval of a deletion reads the holds before it deletes. `Retention`
forgets fingerprints and receipts at a restart. `AuditLog`: a hash is the sequence of payloads it
covers.

### Connectors

The registry of revisions, the client of a tool job inside `SecureConnectorClient.execute`, and the
adapters. Every posted request is kept (`posts`) and may reach its adapter at any later time, so
timeouts, cancellations and new executions of a job all leave requests behind that still act.
`carried` is what GitHub did.

### MC modules

The liveness runs and `agent_runs_deployed` check `AgentRuns` and `ToolJobs` directly.
`MCQueues`, `MCWorkers` (agent runs and the project process), `MCInfrastructure` (tool jobs and the
services underneath), `MCCollaboration` and `MCProject` put several components side by side: the components of such a module share no state (or are composed already, like
`Planner` with `Planning`), so interleaving their steps would multiply states and show nothing;
`focus` is chosen at the start and says which one a behaviour drives. Some components have more
than one focus (accounts: identities, sessions, relations), each with its own part of the
actions, because their product is out of reach and their invariants relate rows of one
part only.

Several properties are conjunctions of named parts, given one name because they answer
one question (`CommandsApplyOnce`, `ConversationsAgree`, `CompletionIsAgreed`). Type
invariants are parts of them, or of what section 8 proves.

## 4. Runs

| run | shows | bounds | states |
|---|---|---|---|
| `agent_runs_liveness` | runs, commands and leases settle when recovery is scheduled; a resume loses nothing and binds only what is open | 1 worker, 2 clients, 2 approvals, 1 command, 2 turns | 189,005 |
| `agent_runs_deployed` | violation: nobody schedules the recovery | 1 worker, 1 client, 1 turn | 1,359 |
| `tool_jobs_liveness` | a parked run comes back | the same, without reuse and overruns | 259,972 |
| `queues` | execution queue: dependencies, cancellation, settlement; transport: published is received, everything settles | 2 tasks in 2 queues, 2 workers, 2 attempts; 1 message, 2 relays, 2 consumers, 2 sends, 2 handlings | 99,361 |
| `workers_safety` | agent runs: fencing, checkpoints extended by their holder, commands exactly once, nothing regresses; project process: only verified work is delivered, no event is left without its decision, runs of a task do not overlap, a completed project stays | 1 run, 2 workers, 2 commands, polls of 1, 2 turns, 2 failures, 1 client; 1 task, 2 runners, 2 people who must accept, 9 events and the acceptances', 1 fault, 1 retry | 1,640,286 |
| `infrastructure` | tool jobs: final results, no orphan, one holder, one child and one settlement, refinement of `ToolBatch`; audit, gateway, retention, context, identity, approvals, connectors | see below | 1,222,419 |
| `collaboration` | board, contracts, accounts, library, tasks, feed, capacity, verification, readiness | see below | 557,812 |
| `project` | conversations, exchanges, plan, planner, documents, code, memory, completion | see below | 1,140,440 |
| `capacity_shared` | violation: two consumers together take more than was declared | 2 consumers, 2 slots | about 1,400 |
| `exchange_three_recipients` | violation: the first of three answers always rolls back | 3 recipients | 75 |
| `exchange_reply_reopened` | violation: a submitted reply is set back to drafting by the turn that drafted it | 2 recipients, 2 turns, 1 exchange | about 210,000 |
| `turn_answered_twice` | violation: two threads complete one turn | 2 turns, 2 projecting threads | about 4,600 |

Why these bounds. Two workers are needed and enough for one to be late while the
other holds the lease; a third would only be late in the same way. Two attempts or
failures are the least that let a retry and a recovery meet the limit in either
order. Two commands with polls of one are the least that leave a command behind a
poll. Two approvals and two clients are the least that let a resume overtake
another. Two tasks give a dependency and a dependent. `MaxVersion` only stops clients from
starting resumes for ever; every other action is bounded by the code's own limits.
In `ProjectProcess`,
nine events are one more than the shortest way from the plan to the delivery, which leaves
room for a rejection, a failed run or a person's move on the way. `MaxBacklog` = 2 lets an event arrive while another is
being handled. `MaxLeases` = 1 means two healthy runners do not work at the same moment; a
second runner takes over from one whose lease lapsed, and the late one goes on.
`MaxMoves` bounds what people do of their own accord, not their answers. A second task only
multiplies the orders the first one shows, `MaxActive` = 1 being reached by one.

In `infrastructure`: a plain call and one to a specialist, two tool workers, two attempts, call ids that are
repeated and children that end above their reservation; a chain of two events under two writers and two verifications is
the least in which a verification is overtaken; three calls over three providers with a
threshold of two let one call open a circuit under another; three targets of which one is kept by a commitment, two
batches of which one is dry, two restarts; three items of three sizes around the budgets, with conversations
that fit, need a checkpoint or never fit; two keys and three instants around a cache age of at most two;
three operations, driven as executions that share a key under one approval and as executions that share
their content under two. A connector has two adapters and three
revisions (one in force, its successor, one more under review); two jobs share a key with
different bodies, one of them is executed twice with two attempts each, so four posted requests of
one key are on their way at once.

In `collaboration`: two members with two commands under way, a discussion item, two assignments, three
versions of a contract with one consumer; three accounts in two teams with two registrations, and two
sessions of accounts that were registered; three users in three teams with one resource; one task with three versions (at the third the clock and
the muted categories stand) and one schedule proposal; two members, one topic, one draft and three activities; two consumers at the provider's only slot;
two submissions under two verifying processes, the first reviewed up to twice, the second once; every graph of three tasks below, at
and past each limit.

In `project`: two turns and two projecting threads, for runs that are answered, empty or cancelled (a
failed run is projected as an empty one is, and is in the focus of the exchanges instead); two recipients, two draft versions and one exchange;
two approvers of a plan of two tasks and two relations; two planner intents with six batches (valid, too large, replanning,
cyclic, cut short), and two intents whose batches bring dependencies where an approval of the plan runs beside
them; parsing that fails is driven without drafts (`parsing`); two edits, two instants of rendering and two patches of two members; two memories of which
one is held and deleted, one hold and one writer under one rotation; two contracts, two deliveries, two accounts
of which one administers, two goals of which the first contract names a given one, since they are
interchangeable.

The workers of `workers_safety` and `infrastructure` are interchangeable, so symmetry is used there; a run with
a liveness property uses none.
`CHECK_DEADLOCK FALSE` is set where the system may come to rest (everything is terminal,
waits for a person, or has reached a bound).

## 5. Fairness

Weak fairness of a worker's next step: `process_once` and `run_once` are called in
loops (`agent_runs/worker.py`, `tool_jobs/worker.py`) and every model call and handler is
bounded by a timeout. Weak fairness of lease expiry, only for leases nobody can renew,
and of delays: time passes. Weak fairness of recovery and reconciliation: the tool
worker calls `recover_expired` and `reconcile` in its loop. For agent runs nobody does,
which is why `FairSpec` (with recovery, as the documentation says) and `DeployedSpec`
(as assembled) differ. Strong fairness is assumed of `ChildEnds` in `ToolJobs` only: a child
is itself an agent run, which `RunSettles` shows to end however often it is put back into its
queue, and each time it is put back the end is disabled for a while.

`queues` assumes of the execution queue that executors end what they run, poll every queue and
that recovery is called (`Polling`; `QueueSettles` says what follows if it is), and of the transport
that relays and consumers keep calling and that leases and delays end (`TransportFairness`). Nothing is
assumed of the wire, which may lose every envelope: attempts are bounded, so a row then ends as a dead letter.
`exchange_three_recipients` assumes that a recipient who may answer does (`ExchangeFairness`), without
which an unanswered exchange refutes nothing.

`ProjectProcess` and the components of the other runs have no liveness property: that an event is handled
is stated as what holds once its wake-up is completed. Nothing is assumed of clients, approvers, heartbeats
or of an executor reporting in time.

## 6. Where the code and its documents disagree

Shown by a run that ends in a violation:

1. `agent_runs_deployed`: `docs/agent-runs.md` says a recovery scheduler requeues expired
   leases; no process calls `AgentRunRepository.recover_expired`.
2. `capacity_shared`: ADR-0010 says a reservation cannot oversubscribe; the sum that is compared runs
   as the consumer's tenant and row-level security hides the other consumers' reservations.
3. `exchange_three_recipients`: `submit_response` counts the remaining recipients with
   `scalar_one_or_none`, which raises when two remain, so with three recipients no answer is ever stored.
4. `exchange_reply_reopened`: `store_response_draft` selects the recipient's status without locking the row and
   updates it without a condition, in a transaction of its own. A response that commits in between is set back
   from RESPONDED to DRAFTING, although the comment beside the check (`product/exchange.py`, line 547) says that
   a submitted reply must not be overwritten. What stays is the response itself, which is what
   `RespondedMeansAnswered` is about.
5. `turn_answered_twice`: `complete_turn` reads the status of the turn before it locks the conversation and does
   not look again, so two threads that project one run both append the answer; the head of
   `product/turn_projection.py` says that retries never duplicate messages. The turn then names the later one
   (`RepliesAreRecorded`).

Met while modelling, and kept by the models as the code has it:

* A call id repeated in a later batch leaves a finished batch that is never woken
  (`ReuseCallIds`), although `docs/architecture.md` promises the wake-up.
* When the last attempt of a delegating job fails after the delegation committed, the child's usage
  is never settled (ADR-0006); a child above its reservation is refused at every projection, so its
  parent's job waits for ever (`MayOverrun`).
* A retryable failure after a cancellation request puts an execution task where nobody claims, fails or
  cancels it. Nobody calls `recover_expired` of that queue either.
* Answering the question or deciding the gate leaves the process WAITING for a person with
  nothing open; ADR-0009 says such a wait has a matching open object.
* A decision made on an older snapshot is applied when its precondition still holds
  (`project_process/runner.py`), which ADR-0004 excludes.
* ADR-0002 makes a decision stale on any mismatch of the graph. `consume` compares the digest with a snapshot it
  reads under locks that the other writers of the graph do not take, so on PostgreSQL a plan approval may
  extend the graph between the comparison and the commit, and the batch is applied. (On SQLite the transaction
  begins with `BEGIN IMMEDIATE` and excludes them.) The process cannot move meanwhile, so what the model states
  and the proofs show is `AppliedInTurn`: of the batches planned for one state of the process at most one is
  applied.
* `mark_project_read` takes the highest visible activity; one with a lower number that commits later
  is behind the cursor at once (`product/service.py`).
* `reject_plan_draft` and `approve_draft` of an exchange decide on a status they have not locked.
* Two insertions into the work graph check for cycles on the relations they see; together
  they may close one. The planner and the plan approval are the only callers at once.
* The approval of a memory's deletion reads the legal holds first; a hold placed in between does
  not stop it.
* The adapter's ledger is one adapter's: a job that is retried after the reviewed revision points to
  another adapter is carried out there once more. `WrittenOnce` is therefore stated per adapter. A
  write that GitHub refused for its rate is known to the ledger and answered 409 when the client
  retries it.
* Approving a completion contract does not move the version of the process, so an approver may decide
  under a newer contract than the one seen. When an account the contract still waits for is disabled after others
  have accepted, that delivery can be neither accepted nor the contract replaced; another required
  approver who has not decided yet can still reject it.

## 7. Not modelled

Cryptography, serialisation, HTTP and container I/O, SQL planning, search ranking, file formats of
documents, metrics, migrations, wiring, and the offline evaluation, release and disaster-recovery
reports, which are pure functions of documents. Security labels are decided by pure functions;
where a guard needs one the model states its outcome. Expiry of an approval only refuses and is left
out of `Approvals`. Of the project process: the phases before the plan's approval, a settlement above the
budget, the capacity other projects take, the publication of its outbox, and `scheduler.fail`
and `heartbeat`, which have no caller. Of artifacts: signing and the publication of task artifacts.
Of connectors: the local git tools. Of team agents: profiles. Key rotation of stored checkpoints
has the shape of that of memories, which is modelled.

Smaller omissions, at their place in the code: a submission whose receipt names no artifact manifests or no
policy stays PENDING (`verification/service.py`, lines 233-239); the receipts of the model always name them.
`MemoryService.backfill_batch` adds terms to records that have none under the current key and finds none in the
model, where every record is written with its terms. What a restart of the retention coordinator forgets is
modelled, but `BatchActsOnce` speaks of one life of the coordinator: nothing in the code keeps a batch that is run
again after a restart from acting again.

## 8. What is proved

Proof modules extend their component and TLAPS; `PROJECT.json` lists the theorems. The
constants are arbitrary sets and numbers under the assumptions each component names
(`LimitsAssumption`: limits are natural numbers and at least one turn and failure is
allowed; `NoneAssumption`: the null value is none of the ids; `JobLimits`, `QueueLimits`, `OpsAssumption`,
`PolicyAssumption` likewise).

* `AgentRunsProofs`. `Base` = `TypeOK`, `FailureBudget` and two shape invariants: a row has a
  token exactly while it is leased, and every token on a row or with a worker has been
  issued. `TypeOK` alone does not bound `failures`, and `OneHolder` is not inductive
  because a worker that holds nothing says nothing about its token; "issued and
  issued once" makes it so. `NoLostResume` adds that what a client has read agrees
  with the row as long as the version has not moved: version and checkpoint change
  together.
* `ToolJobsProofs`. `Base` = `TypeOK`, attempts, worker shape. `ResultInv` says that an open job is
  awaited by its run, which makes `ResultsAreFinal` inductive. `JobsImplementBatch` proves
  step simulation of `ToolBatch`.
* `TaskQueueProofs`. The same token argument; `DependenciesFirst` needs that succeeded is final
  and that dependencies never change; `CancelIsRespected` that the flag is never cleared.
  `LateWorkerChangesNothing`, a part of `QueueSettles`, goes through the actions: one that ends a
  lease either checks the token or has found the lease expired.
* `TaskQueueProofs`, `Transport`. `PublishedWasReceived`, a part of `MessagesSettle`, says nothing of a
  relay that holds the receiver's answer, so it is not inductive. `ReceiptsAreTrue` does: if the answer in
  a relay's hands is an acceptance, the envelope of its own claim is the one in the inbox. The step
  lemmas show that what is stored stays stored and what is published stays published.
* `InfrastructureProofs`, `Approvals`. `ApprovalsInv` relates records, calls and claims: a claimed key names the one call that
  may run the handler, and a consumed record names the execution it was consumed by.
  `DecisionsAreFinal` is an action property from the same invariant.
* `ProjectProcessProofs`. `IInv` = the types of process, tasks and runs; a passed task is backed by the
  PASS of its latest run's verification; from INTEGRATION on every task is passed; and TERMINAL is
  entered with COMPLETED only. `DeliveredIsVerified` is not inductive, because nothing in it says a
  task's PASS cannot outlive the run it stands for; `Transitions` shows that the matrix has no way
  into or within the late phases that a passed set of tasks does not open, and `PassedOutcome` that
  the recomputed outcome is PASSED only then. `CompletionIsFinal` follows: every action that
  changes a task, the process or the acceptances needs a status that the invariant excludes.
  Neither uses the bounds, so both hold for any number of events, faults and runners.
* `ProjectProcessProofs`, the wake-ups. `NothingLeftToDo` speaks of the last wake-up only once it is
  completed, so it is not inductive. `PInv` says of every row: it was decided on a snapshot that held its
  event; a decision found stale, or one that took effect, is followed by a later event; and as
  long as no event came after its snapshot, the decision is the one that would be made now (`RowOK`). It says
  the same of what a worker has read and not recorded (`WorkerOK`), and how far the wake-up of a worker has
  got unless somebody else ended it (`Progress`): `ClaimWakeUp`, `RunnerVanishes` and `Lapse` leave any prefix of
  the effects behind. The step lemma shows that every action that changes what would be decided
  appends an event. `RunsDoNotOverlap` needs in addition that a task's status tells of its run
  (`TaskOK`). The lowest task of a set (`First`) is found with the well-foundedness of the naturals.
* `ToolJobsProofs`, the specialists. `Paired` relates a delegation row, its child run and its job: one that
  is open has its one child and no settlement, one that is closed was settled once and its job ended with
  it. `DelegatorsDelegated` says of the worker between the delegation and its own commit that the row
  exists. `DelegMoves` lists the four ways a step changes a row. `LateWorkerChangesNothing` follows from the
  tokens; with it `JobsAgree` is proved completely.

* `AgentRunsProofs`, the command protocol. `ControlExactlyOnce` says nothing of what a worker holds in
  memory between two commits, so it is not inductive. `CommandInv` adds the ledger of a run (a
  command is pending exactly while its message is behind the cursor), the same for the loop of every
  worker (`LoopShape`), and that the loop of the holder extends the stored checkpoint by
  exactly the commands it has pulled (`Extends`). Every action that moves one side is shown to move the
  other with it; `CheckpointDiscipline`, `ParkedRunAgrees` and `RunNeverRegresses` follow.
* `InfrastructureProofs`, the services.
  `AuditLog`: the head is the hash of the last row, an inserted row continues the head, and a
  verifier that was not overtaken has read the current rows; then recomputing gives the head it reads.
  `Gateway`: what a call has heard came from the provider it is streaming from.
  `Retention`: an act is recorded under the fingerprint of the holds it was decided under, which is
  what makes a repeated run find it.
  `ContextAssembly`: the sets of items are disjoint and make up the items seen, and the tokens counted
  are those of the selected ones; this is why the last guard is never reached.
  `WorkerIdentity`: the key cache holds what was published when it was fetched, and its age is counted
  from before the request.
  `Connectors`: of the requests under one key at most one was started at GitHub, each with the body
  its entry records; a result in the ledger was carried out for some post; a job that
  is done was answered last; and at most the last revision is pending. None of the parts of
  `ConnectorsAreFaithful` is inductive alone: a request that is late and one that is repeated can
  each be the one that starts.
* `CollaborationProofs`.
  `Accounts`: a team has at most one owner and a provisioning that will insert one has read none
  that the unique key would not refuse; a session's origin is used up by its renewal; an accepted
  relation is the one of its pair.
  `Library`: a command under way is authorised by what no step takes back (stored bytes, owner,
  announcement).
  `TeamTasks`: the rows a reader holds agree with the task's version, the pending proposals with their base.
  `Verification`: the attempts of a review are launched in order and only the newest one counts; an
  outcome passes on the rows of the latest run.
  `ProjectFeed`: an open transaction has locked the row it will write, and the row is as it was when
  it was checked; two open transactions have drawn different numbers and locked different rows.
  `Governance`: a command that is under way holds a successor of the board whose version it has read,
  in which everything settled is still settled. The compare of the version at the save is what makes
  the copy that is written a successor of the board it replaces.
  `Contracts`: an impact is not older than the baseline of its dependency, or the baseline has an
  impact of its own, which makes the older one obsolete; so an acceptance moves the baseline forward.
  `Capabilities`: the transaction that holds the lock of the record has found room for the row it will
  insert (`CheckedFits`), and no step raises the sum of a consumer's slots in between. The sums
  are folds of the library, which choose the order; `Sums` describes the function that gives every
  subset of a finite set its sum, whatever element is taken out first. It exists (`SumsExist`, with a
  minimal counterexample among the subsets, by well-foundedness of strict inclusion), and the recursion of the folds agrees
  with it (`RecursionSums`).
  `Readiness`: `ReadinessIsSound` has two halves. For the cycles, `WalkOK` describes the walk: no task is
  on the path twice or completed too (`WalkShape`); a task on the path depends on those above it, and
  every task of a reported cycle on itself (`WalkLeads`); and as long as no cycle is reported, a completed
  task depends on completed tasks only and not on itself, and an edge of a task on the path leads
  to a completed task, to the next one on the path, or is still to be followed (`WalkMisses`). The set of completed tasks is
  then closed under the edges, which refutes a dependency that leads back to the task being
  completed. For the admissions, the tasks decided before are fixed, and the sums over the admitted ones
  grow by the one decided.
* `ProjectProofs`.
  `Conversations`: the turns begin in the order of their numbers, a run exists only for a turn that
  has begun, and what a projector has read (the run is over, its draft is stored) stays true until
  it writes. Only these make `OneActiveTurn` and `CompletedTurnHasItsDraft` inductive.
  `RepliesAreRecorded` needs that a message's number is that of the conversation when it was appended and
  that the conversation's number never falls.
  `Exchanges`: an answer marked as the last one was read when every other recipient had a stored response.
  The status of a recipient may go back to drafting, the response is never removed before the next exchange is
  sent; that a recipient is RESPONDED is therefore not part of the invariant, that it has a response is.
  `Planning`: how far each approval has come is in the project already (`Materialized`), and no step
  takes anything back from the graph. `PlannedWorkIsWhole` says nothing of an approval that is half way,
  so it is not inductive: the one that closes the draft may rest on rows another one wrote.
  `Planner`: a consumer has a pending decision, so nobody else decides it; the usage of the process counts
  at least the tasks in the graph and the replans applied, which is what makes the comparison with the
  policy bind all batches together; and the nodes that are not the plan's are those of the applied
  batches. Plan approvals write rows of the plan only (`PlanWrites`), so the two invariants stand side by
  side while both run. That batches are applied in turn (`AppliedInTurn`) needs `InTurnInv`: the cursor of the process
  has passed the state every applied batch was planned for, an intent that was requested keeps the state it is
  for, and a batch is applied at that state only, where it appends a fact that moves the cursor on.
  `Completion`: only the latest delivery can wait or be accepted, the decisions on it are those of the
  contract pinned, and that contract is the standing one.
  `Documents`: versions are numbered without gaps; a draft, patch or call under way has read only
  what stays readable, because manifests are not withdrawn and objects not overwritten.
  `Memory`: after the rotation has begun every writer writes with the new key, and after it is
  complete every record has it.

Each of these theorems holds for any constants that satisfy the module's assumption. Some assumptions
were stated for the proofs and say what the code guarantees: limits are numbers and the review of a
submission has at least one attempt (`VerificationAssumption`), the null value is neither a
content nor a team (`LibraryParameters`), the plan's rows have ids no answer of the planner names as new,
being digests of the draft's id, and an answer is finite (`PlanParameters`, `PlannerParameters`), the arguments of a call are not the null entry of the
ledger (`ConnectorAssumption`), and a snapshot has edges between tasks of the graph only, finitely many runs and reservations, and
limits and counts that are natural numbers (`ReadinessAssumption`; the fact types of `readiness.py` and `budget.py` refuse negative ones). The bounds of sequences (`RevisionLimit`, `DeliveryBound` and
others) are arbitrary numbers in the proofs.

Only model-checked:

* liveness and everything under fairness (`WorkSettles`, `BatchReturns`, and the leads-to parts of
  `QueueSettles` and `MessagesSettle`, whose safety parts are proved): fairness and ENABLED are
  outside the prover's reach.

Two forms follow from the prover. It has no functions of two arguments, so reachability
in `Readiness` is stated with closed sets and not with the transitive closure of the community module
`Relation`, which is one. And induction theorems that take an operator cannot be instantiated, so
inductions over finite sets and numbers are proved by taking a smallest counterexample
(`SmallestSubset`, `SmallestExists`).

`map` in `PROJECT.json` names the definitions of operations, their state and the helpers that decide
something; a small helper inside an operation that is mapped has no entry of its own.
