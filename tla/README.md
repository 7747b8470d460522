# Verification of the SaltaCode agent platform

TLA+ models of the SaltaCode agent platform, the TLC configurations that check
them on small instances, and theorems about them that TLAPS proves for every
instance. Paths below are relative to `src/`.

## 1. The system

The repository holds an Astro landing page, a FastAPI backend-for-frontend
(`apps/web-bff`), the agent platform (`agent-platform/api`: FastAPI, PostgreSQL
through async SQLAlchemy, Redis, background workers) and a React panel for
operators. The program's own logic is in `agent-platform/api/app/services`.
A conversation (one row of `chat_conversations`) is answered either by an
agent (a language model with tools) or by a human operator, over WhatsApp or
the web widget. The hard part of the system is what happens when both, several
workers and an unreliable provider act on one conversation at the same time.

| Part | State it keeps | Operations | Interacts with |
| --- | --- | --- | --- |
| Conversation control (`services/conversation_control.py`) | control mode, control version, assigned operator of a conversation | `transition`, `assert_automation_allowed`, `record_operator_message` | every writer of the conversation row |
| Acting agent (`services/conversation_automation_assignment.py`) | acting agent, automation version, receipts | `assign` | control, opportunities |
| Outbound outbox (`services/outbound_delivery.py`) | one row per command: status, sequence, epoch snapshot, claim, provider id | `enqueue`, `claim_next`, `recover_stale_dispatches`, `revalidate_claim_for_dispatch`, `cancel_claim`, `record_dispatch_outcome` | control epochs, routes |
| Dispatcher and worker (`services/outbound_dispatcher.py`, `workers/outbound.py`, `services/outbound_whatsapp.py`) | the claim in memory, an open transaction | `run_once`: claim, then dispatch | provider, outbox |
| Delivery resolution (`services/outbound_delivery_resolution.py`) | resolution version, resolution receipts | `resolve` | outbox |
| Web execution queue (`services/web_execution_queue.py`, `services/web_execution_runner.py`, `workers/web_executions.py`) | one execution per web message: status, lease, outcome | `enqueue`, `claim_next`, `revalidate_claim`, `record_outcome`, `recover_stale_leases` | control epochs, agent loop |
| Web chat (`services/web_chat_v2.py`) | sessions, messages, event cursors | `accept_message`, `history`, `events_after`, `reset_session` | web execution queue, control |
| Channel inbound (`services/channel_inbound.py`, `services/channel_inbound_review.py`) | one job per provider message: status, phase, lease | `enqueue_batch`, `_claim_job`, `_process_job`, `requeue`, review commands | routes, agent loop |
| Follow-ups (`services/commercial/follow_ups.py`, `follow_up_execution.py`, `services/outbound_follow_up.py`, `workers/follow_ups.py`) | tasks with due times and leases, consent records, policies, append-only events | schedule, cancel, requeue, revoke, `claim_next`, `enqueue_claim`, `reconcile_next` | consents, outbox, control |
| Retention (`services/retention.py`) | none of its own | review of due follow-ups, deletion of old conversations | follow-ups, control |
| Commercial records (`services/commercial/opportunities.py`, `quotes.py`, `meetings.py`) | opportunities, quote requests and versions, meetings, each with events | versioned commands with idempotency keys | grants, follow-ups |
| Contact capture and handoff (`services/web_commercial.py`, `services/commercial/contacts.py`, `handoffs.py`, `progression_policy.py`, `services/agent_handoff_routes.py`) | contacts, consents, progression policy, handoff routes and receipts | the contact form's capture, route and policy commands | control, acting agent, opportunities |
| Identity link claims (`services/identity_link_claims.py`) | claims to join two channel identities, receipts | issue, verify, reject, revoke, expire | principals |
| Documents and retrieval (`services/rag/*`, `routers/admin/documents.py`) | areas, folders, documents, versions, ingestion jobs, files | upload, replace, move, delete, restore, reindex, ingest, purge, search | storage, agent areas |
| Administration access (`routers/admin/panel_users.py`, `profiles.py`, `agent_resources.py`, `services/admin_agent_access.py`, `governance.py`) | panel users, roles, grants, bindings, authorized users | grant, assign, update | everything behind the panel |
| Channel catalog (`routers/admin/agent_runtime.py`, `services/agent_runtime.py`, `channel_catalog.py`) | providers, runtimes, connections, routes | versioned edits, route resolution, readiness | outbox (route versions), inbound |
| Agent loop and pipeline (`services/agent_loop.py`, `services/pipeline.py`) | none of its own; calls the model and tools | one execution | control fence, tools |
| Deduplication and presence (`core/dedup_lock.py`, `services/chat_presence.py`) | Redis keys with expiry | lock, release, heartbeat | inbound, web chat |
| BFF, landing page, panel | browser sessions, caches | proxying and display | platform HTTP API |

Behaviours that are hard here:

* a takeover, a hand-back, a close or a change of acting agent at any point of
  an automatic reply (fences read in one transaction, effects in another);
* workers that crash, or are believed dead while they are only slow;
* a provider that times out after it has acted, or acts after the timeout;
* strict order per conversation with several workers, and what may block it;
* retries with idempotency keys, and operators resolving what machines left
  uncertain;
* row locks held across network calls, and rows that are loaded before they are
  locked, so that a command decides on a stale copy;
* consent withdrawn, an owner changed or a grant revoked while work decided
  under it is under way;
* files and rows that must agree without a common transaction.

The documentation states the invariants of the platform in
`docs/architecture/human-led-omnichannel-sales.md` (lines 52-58
and 235-249): takeover prevents later automatic effects, it concerns one
conversation only, uncertainty never triggers an automatic duplicate, messages
of a conversation are ordered.

## 2. Plan

Done, in this order of importance:

1. `ConversationControl`, `OutboundDelivery` and `OutboundDeliveryProofs`: the
   core, from a queued command to the provider's effect; `OutboundLane`, the
   promise it makes to its senders, and the refinement.
2. `WebExecution`: the queue, leases and runner of the web channel, with
   session reset and takeover.
3. `ChannelInbound`: provider messages as jobs, the effect phases of the
   pipeline, recovery and the review commands.
4. `FollowUps`: consent-gated tasks from scheduling to the provider call, with
   revocation, reassignment and retention.
5. `Commercial`, `IdentityLinks` and `CommandLog`: versioned records with
   receipts, and the promise they all implement.
6. `Intake`: from a contact form to an opportunity and a handoff.
7. `Documents`: the document library, its ingestion workers and its purge.
8. `AdminAccess` and `ChannelCatalog`: who may do what, and how a message finds
   its agent.

9. The proofs: every safety invariant and every safety action property that a
   passing run checks is a theorem (section 5). Eight modules hold them, one
   for each specification; the four record machines share `PanelProofs`.

No module declares a RECURSIVE operator. What is left is to shorten proofs and to
state what the expected violations show about a repaired code.

## 3. The modules

A database transaction is one atomic step, because every writer locks the row
it decides on; where a decision is read in one transaction and used in another
the model has two steps. Names follow the code. Operators named as a *faulty
variant* describe a plausible mistake; no specification uses them, they show
that a property notices the mistake.

### ConversationControl

The control columns of `chat_conversations` (`conv`): mode, control version,
assigned operator, acting agent, automation version. `Transition` is
`ConversationControlService.transition` with its table of allowed transitions
and its rules for the assigned operator, `Assign` the change of acting agent.
The two versions are the epochs that everything else is fenced with. Bounds:
`MaxControl`, `MaxAutomation`. It has no specification of its own: the other
modules extend it and add what their locks forbid.

### OutboundDelivery

| Model | Code |
| --- | --- |
| `status`, `snapshot`, `locked_by`, `locked_at`, `attempts`, `provider_id`, `resolution`, `next_sequence` | columns of `outbound_messages` and `next_outbound_sequence` |
| `EnqueueAutomation`, `RecordOperatorMessage` | `OutboundDeliveryService.enqueue` for agents and follow-ups, and for operators |
| `ClaimHead`, `ClaimNothing` | `claim_next`: recover stale dispatches, cancel heads whose fence has moved, claim a head |
| `Revalidate`, `CancelStaleClaim`, `StartCall`, `CancelBeforeCall`, `ClaimLost` | the dispatch transaction of `OutboundDispatcher` up to the provider call |
| `RecordAccepted`, `RecordRejected`, `RecordUnknown` | its outcomes; a timeout is `RecordUnknown` |
| `ProviderSends` | the provider, which may act while a request is on the wire, after a timeout too |
| `Resolve` | the operator's resolution of `delivery_unknown` |
| `ConfigureRoute` | a new version of a route or connection |
| `WorkerFails`, `ClaimAges` | a crash at any point; the clock |
| `Lane`, `Outcome` | the refinement mapping to `OutboundLane` |

The dispatch transaction is the one that is not atomic: it holds the message,
conversation, route and connection rows across the provider call. The locks are
what a worker inside it holds (`InDispatch`, `InCall`), so a crash releases them.

### OutboundLane

What the outbox promises, without workers, claims, locks, epochs or rows: a
message enters behind its lane (`Enter`), the provider is asked at most once and
only when everything ahead is final (`Ask`), it acts late or never (`Act`), and
what is told is the truth or "uncertain", which only a person rules on (`Tell`).
`ImplementsLane` maps a row's status to an outcome: queued and dispatching rows
are pending, and a cancelled one is dropped by the machine or denied by a person.

### WebExecution

A visitor's message becomes an execution with a snapshot of the epochs, a lease
when claimed, and one outcome. `events` is the public log of each session, in
which every property is stated, because it is what the visitor sees.
`AcceptReads` and then `AcceptQueues`, `AcceptRefused` or `AcceptForOperator`
are `accept_message`, whose first read takes no lock. `ClaimHead` sweeps stale
leases, cancels heads whose epochs moved and claims a head. `Begin`, `Guard`,
`HttpTool`, `ContactTool`, `PrepareFails`, `AgentRaises` and `Finish` are the
runner and the agent loop: each guard is a transaction of its own, and so a step
before the tool it guards. `Record` is `record_outcome`. `ResetSession` closes a
session and its executions.

### ChannelInbound

`WebhookBegins` and `EnqueueBatch` are a webhook's transaction, in two steps
because `created_at` is the start of the transaction and the rows are visible
when it commits, and up to `MaxOpen` of a thread at once, for nothing serialises
them; `fifo` is the order (created_at, id) with a random order inside a batch.
`present[j]` is a history variable: the jobs committed by when j was. `ClaimJob` and `RecoverLease` are `_claim_job`. A worker then runs
`_process_job` and the pipeline: `Load`, `RecordInbound`, `InboundRecorded`,
`Guard`, and for every stage with an effect outside `Advance` (the phase is
persisted by the owner of the claim) and then the effect: `MarkAsRead`,
`Transcribe`, `Tool`, `Exchange`. `Fails` is an exception anywhere. `CheckEpoch`,
`Settle` and `Abandon` end `run_once`. `Requeue`, `Cancel` and `Acknowledge` are
the operator's review. `effects[j]` counts the attempts of a job that acted
outside. The Redis lock of the pipeline is left out: it lets a worker through
after a timeout or an error, so nothing may depend on it.

### FollowUps

| Model | Code |
| --- | --- |
| `Schedule`, `Cancel`, `Requeue`, `ResolveReview`, `ConfigurePolicy` | the commands of `FollowUpService`, behind the panel's permission checks |
| `GrantConsent`, `Revoke` | `consents.py`, with the quarantine of the scope's tasks |
| `RunClaim`, `RunReconcile` | `FollowUpWorker.run_once`: recover leases, reconcile one outcome, or claim a head |
| `EnqueueClaim`, `EnqueueFails`, `MarkClaimError` | the second transaction of a claim, with its fence, and its error path |
| `ClaimMessage`, `StartDispatch`, `BlockDispatch`, `EndDispatch`, `RecoverDispatch` | the dispatcher's authorization in `outbound_follow_up.py` and the states of the message |
| `Reassign`, `CloseOpportunity`, `ControlChanges`, `SwitchRoute` | what others change under a task |
| `RetentionReview`, `Purge` | `retention.py` |
| `Tick` | the clock; days, quiet hours, intervals and leases are in ticks |

One opportunity and one consent scope, the conversation the tasks come from and
the one that carries them. The dispatch transaction holds all rows across the
provider call (`calling`). No code marks a contact point as verified, so the
model starts from one that is. `defer_scheduled` has no caller and is left out.

### CommandLog

The promise of a versioned record: it changes only together with one receipt
under a new key, and is always what its last receipt says. `Commercial`
(`EveryWriteHasItsReceipt`), `IdentityLinks` (`EveryClaimHasItsReceipts`) and
`Intake` (`Epochs`, the acting agent) implement it.

### Commercial

A command of an opportunity or a quote is one transaction under the
opportunity's lock. A meeting command takes three steps, because it loads the
meeting before it waits for that lock, and reads its sender's grant, which nothing
locks, awaits before it commits: `BeginMeetingCommand`, `AuthorizeMeetingCommand`
(the lock is taken and the sender checked), and `FinishMeetingCommand`;
`RefuseMeetingCommand` ends it at any point. Until then every other writer of the
opportunity waits (`OpportunityFree`), and a grant may be revoked. In the other
commands the check of the grant is merged with the commit: nothing reads a grant
after the check, so a revocation in between leaves what one after the commit
leaves. Unique constraints (`StageEventFits`,
`MeetingEventFits` and others) are guards of the commit: they are what rejects a
command whose copy was stale. `SetGrant` and `RevokeGrant` change the authority
commands are sent under.

### Intake

One web session. A capture is `BeginCapture` (locks, receipt, policy, route) and
`CommitCapture` or `AbortCapture`; in between operators may change what is not
locked. It stores contact, point, consents, opportunity, assignment and events.
Route commands load before they lock and so take two steps. `StartRun`,
`InvokeContactRequest` and `EndRun` are the tool that shows the form.

### IdentityLinks

Claims by issue key: `Issue`, `Verify`, `Reject`, `Revoke`, `Expire`, with every
command repeatable and every key reusable for another claim. `receipts[k]` are
the event rows of claim k in the order of commit. Tokens and hashes are the claim
they belong to.

### Documents

Taxonomy (areas, folders), uploads in two steps (file, then rows), edits,
reindexing, deletion and restore are panel requests. An ingestion worker takes
`ClaimJob`, `LoadContext`, `Extracted`, `PersistSuccess` or `PersistFailure`, and
keeps the row copies it loaded, since the session factory sets
`expire_on_commit=False`; `Flush` writes only the columns it changed. `Crash`,
`LockExpires` and `BackoffElapses` are its failures. `PurgeExpired`,
`DeletePurged` and `CleanupOrphans` are the maintenance pass. `Search` is what
retrieval may return. A version and its job are one record. `AreaRemains` is the
foreign key of a chunk's area, which `PersistSuccess` meets when the document was
moved and its old area deleted while the worker embedded it.

### AdminAccess

Panel users with roles, grants on agents, resources bound to agents and the
authorized users with their areas. Changing a panel user and assigning an
authorized user each take a step to check and a step to write.

### ChannelCatalog

Providers, runtimes, connections and routes, the forms editors have open
(`OpenForm`), the resolution of a route and the readiness the panel shows.

### MCPanel

`Commercial`, `IdentityLinks`, `AdminAccess` and `ChannelCatalog` share no state.
A behaviour of `MCSpec` is a behaviour of one of them, chosen by `machine`.

## 4. The runs

| Run | Instance | Distinct states | Properties |
| --- | --- | --- | --- |
| `outbound_lane` | 1 conversation, a follow-up and an operator's message, 2 workers, 2 operators, 2 agents, 2 control changes, 1 of agent, 1 of route | 156,416 | `TypeOK`, `AtMostOneCall`, `CallUnderCurrentEpoch`, `DispatchedInOrder`, `StatusIsHonest`, `ReferencesUnique`, `ImplementsLane`, `MessagesSurface` |
| `web_session` | 1 session, 2 messages, 2 workers, 2 agents, 2 changes of epoch, an operator's reply | 718,611 | `TypeOK`, `TranscriptFollowsControl`, `OneVerdict`, `AnsweredInOrder`, `ActingAgentSpeaks`, `EveryMessageDecided` |
| `inbound_thread` | 1 thread, 2 messages, one of a refused sender, 2 workers, 2 attempts, webhooks that overlap or a change of control or agent | 803,094 | `TypeOK`, `HonestDisposition`, `ThreadFifo`, `OneAttemptActs`, `EveryJobSurfaces` |
| `followups_work` | 2 tasks of one lane, 2 workers, 2 agents, 3 ticks of 3 a day, 2 consent records, 3 commands of people | 290,075 | `TypeOK`, `ConsentGoverns`, `LaneInOrder`, `OverForGood`, `ClaimsWithinLimits`, `EveryTaskSettles` |
| `panel_records` | the four machines of `MCPanel`: 2 operators and 2 agents on one opportunity, quote and meeting (`MaxWork` 11); 4 keys and 4 link events; 2 panel users, 5 requests; 3 connections, 3 versions, 5 edits | 686,534 | `PanelTypeOK`, `RecordsKeepReceipts`, `MeetingHistory`, `AuthorizedAtCommit`, `DecidedOnce`, `ShownIsAllowed`, `EditsAreSeen` |
| `intake_capture` | 1 session, 2 requests, 2 agents, 2 changes each of control, agent and route, 1 of policy, 1 revocation | 2,380,572 | `TypeOK`, `CaptureIsWhole`, `FollowsTheAgent`, `CommandsApplyOnce` |
| `documents_library` | 2 documents, 1 content, 2 areas, 2 folders, 2 workers, 2 attempts, 4 units of work | 452,585 | `TypeOK`, `StatusesAreHonest`, `OneVersionAnswers`, `EveryJobSettles` |
| `inbound_batch`, `followups_revoked`, `intake_routes`, `documents_purge`, `administration_last_admin` | the instance with the case | | expected violations, section 6 |

What they show:

* `outbound_lane`: a message is called at most once, in order, under the epoch
  it was written for; its row says what is known; the whole machine is the
  ordered lane of `OutboundLane`; nothing stays claimed or queued for ever.
* `web_session`: the visitor's log decides each message once and in order, and
  only in the epoch that accepted it; the acting agent is the one that speaks.
* `inbound_thread`: a job's status tells what happened to its message, one
  attempt acts outside, a worker that lost its claim cannot touch its
  successor's row, and a job waits for every earlier job of its thread that was
  committed before it, although webhooks overlap.
* `followups_work`: a message is with the provider only under the newest consent
  and both conversations' epochs, tasks of a lane in order and within the
  policy's limits, and what is over stays over.
* `panel_records`: every write has its receipt, a meeting's history has no gap,
  a meeting command commits under the owner it was checked against (acting agent
  and reserved operator; its grant may be gone by then), a claim is decided once,
  an agent's panel shows no more than the grants allow, and no versioned edit
  overwrites one its form did not show.
* `intake_capture`: a capture is whole or absent, repeated captures store
  nothing twice, and the conversation follows the agent configured at the time.
* `documents_library`: a document that reads published has a current version with
  chunks (they need not be retrievable: section 6), one version of a document answers, a purge keeps blobs that are shared, every job settles.

Why the bounds are enough. The fences compare versions for equality, so one
change already makes a snapshot stale, and two reach every mode and the way
back. Order and blocking relate a message to one before it. Two workers give a
slow owner and a successor. A second attempt is what a retry could do wrong. Two
documents of one content show whether the deletion of one harms the other. One
budget shared by the different commands (`MaxWork`, `MaxChanges`, `MaxRequests`,
`MaxEdits`, `MaxEpochs`) allows each of them often without the product of all;
in `Documents` a change of the taxonomy costs two, and claims beyond
`MaxAttempts` are possible up to `AttemptCap`, because reclaiming a stale job
does not look at `max_attempts`. A follow-up instance has a day that begins, a
quiet interval that ends at midnight and room for one deferral.
`inbound_thread` has both webhooks of its thread
open at once (`MaxOpen` 2), but in a behaviour either webhooks overlap or the
conversation changes hands (`OneOrOther` in `MCChannelInbound`): a bound for the size
of the run, which the theorems do not have. Symmetry is used only where no
liveness is checked. Deadlock is not checked: the system rests when everything is
settled and the bounds are used up.

### Fairness

* `WF` on a claim by some worker (in `FollowUps`, on each worker's `RunOnce`, in
  `Documents` on each worker's `Ingesting` and `Maintaining`): `run_forever`
  polls, whatever one iteration raised.
* `WF` on the steps of a worker: asyncio resumes a coroutine, and each external
  call has a timeout. A crash is a step of its own and may happen for ever.
* `SF` on `Finish` (`WebExecution`) and `AgentReturns` (`ChannelInbound`): the
  agent loop has a bounded number of iterations, so it cannot choose another
  tool for ever; a model without the counter says so with strong fairness.
* `WF` on `OutboxStep` (`FollowUps`): the outbox's own progress, which
  `MessagesSurface` shows for `OutboundDelivery`.
* `WF` on the clock: leases and claims age, back-offs and retention elapse.
* None on visitors, providers or operators.

## 5. The proofs

Every theorem holds for all constants that satisfy the assumptions of the module
that declares them (`ControlAssumption`, `OutboundAssumption`, `WebAssumption` and
so on): functions with the right domains, natural bounds, kinds of ids that are
disjoint where the code uses different tables, and a value for "no row" that is
none of the rows. TLC evaluates them on every run.

| Module | Theorems: `Spec` implies |
| --- | --- |
| `OutboundDeliveryProofs` | `TypeCorrect` (`TypeOK`), `AtMostOnce` (`AtMostOneCall`), `EpochsFence` (`CallUnderCurrentEpoch`), `StrictOrder` (`DispatchedInOrder`), `HonestStatus` (`StatusIsHonest`), `UniqueReferences` (`ReferencesUnique`), `SettlementIsFinal` (a settled delivery never changes, an uncertain one is settled once, by an operator), `OutboxIsALane` (`ImplementsLane`) |
| `WebExecutionProofs` | `TypeCorrect`, `VerdictIsFinal` (`OneVerdict`), `InOrder` (`AnsweredInOrder`), `EpochsKept` (`TranscriptFollowsControl`), `AgentsSpeakInTurn` (`ActingAgentSpeaks`) |
| `ChannelInboundProofs` | `TypeCorrect`, `HonestDispositions` (`HonestDisposition`), `OneAttempt` (`OneAttemptActs`), `ThreadInOrder` (`ThreadFifo`) |
| `FollowUpsProofs` | `TypeCorrect`, `ConsentKept` (`ConsentGoverns`), `LaneOrdered` (`LaneInOrder`), `DecidedForGood` (`OverForGood`), `LimitsKept` (`ClaimsWithinLimits`) |
| `DocumentsProofs` | `TypeCorrect`, `HonestStatuses` (`StatusesAreHonest`), `AnswersFromOne` (`OneVersionAnswers`) |
| `IntakeProofs` | `TypeCorrect`, `CapturesAreWhole` (`CaptureIsWhole`), `AgentsFollowed` (`FollowsTheAgent`), `AppliedOnce` (`CommandsApplyOnce`) |
| `PanelProofs` | `AccessIsShown` (`ShownIsAllowed`), `ClaimsDecidedOnce` (`DecidedOnce`), `ClaimsKeepReceipts` (`EveryClaimHasItsReceipts`), `CatalogEditsSeen` (`EditsAreSeen`), `MeetingsKeepHistory` (`MeetingHistory`), `CommandsAuthorized` (`AuthorizedAtCommit`), `WritesKeepReceipts` (`EveryWriteHasItsReceipt`), each for its own specification, and for their composition `PanelTyped` (`PanelTypeOK`) and `PanelKeepsReceipts` (`RecordsKeepReceipts`) |

`ConversationControlProofs` holds the lemmas the first five share: `Transition` and
`Assign` keep the control columns well formed.

Each module has one inductive invariant (`IInv`; one per machine in
`PanelProofs`), a lemma per action or group of actions that the action keeps it,
and a theorem `Invariance` that combines them. None of the properties is inductive
alone; what has to be added is the reason why the code is right.

### Outbox

That a second call is impossible needs to know that the rows a worker may still
call for were never called (`UncalledRows`), which needs that a worker inside the
dispatch transaction owns its row (`DispatchOwned`): recovery skips locked rows.
`CallUnderCurrentEpoch` needs `FencesHeld`, that the fence checked under the lock
stays true while it is held, which is where the guards `ConversationFree` and
`RouteFree` of the other writers matter. Order needs `SequencesIssued` (a new row
comes after all others) and is stated from the claim on (`ClaimedInOrder`). Honesty
needs `RequestsCalled` (what the provider may do comes from the call),
`ResolutionsSettle` and `OutcomesHonest`. `JobsKnown` gives every worker's memory
its type.

The refinement needs no more. Each step is one of the lane's: `EnterStep`,
`AskStep` (a claimed row is a head, so `ClaimedInOrder` makes everything ahead
final), `ActStep` (a request on the wire comes from the one call and was not
refused) or `Tell`, for which `TellStep` reduces the goal to how each row may move
(`RowTold`); the remaining steps are invisible in the lane.

### Web sessions

The properties are about a log that only grows, so the invariant relates rows to
positions in it. `QueuedInLog`: a queued message remembers the position of its
accepted event. `Decided`: a decided message has exactly one verdict event, an
undecided one none. `FencedSince`: while the control version is the one the message
was queued under, no change of control and no close stands in the log behind its
acceptance; this is what makes comparing two numbers as good as reading the log.
`HumanSince` says the same of operators. A step is then described by what it appends
(`LogStep`), and one lemma carries the invariant over any such step.

### Inbound jobs

`OneAttemptActs` follows from what the phase of a row says about the past: in a
phase before any effect nothing has happened (`PhasesHonest`), and the only attempt
that can have acted is the one the row counts (`LastAttemptActed`). Workers are tied
to it by `LastToAct`: one that may act, owner or not, is of the last attempt and its
phase is already persisted, because a worker that has lost its row fails to persist
it and stops. The review's requeue keeps this, since the phases that allow it are
before any effect. `ThreadFifo` speaks of the earlier jobs that were committed when a
job was (`present`): they cannot go back to not being there, so the claim sees them
(`PresentCommitted`), and nothing that runs has one of them open (`FifoInv`). Nothing
is assumed of webhooks, which may overlap and commit in any order. Jobs are finitely
many, so that a batch has an order.

### Follow-ups

`TaskStep` says what any step may do to one task: its place in the lane is settled
when it is scheduled, what is over stays over, attempts only grow. Order and
finality are consequences of it. Consent needs `EvidenceFits`: an outbound message
exists exactly for the tasks that name it, so the quarantine of a revocation, which
works on tasks, misses no message. `ClaimsWithinLimits` is proved from the claiming
step, whose deferral test reads the same claims the property counts, and from the
claims being finitely many.

### Documents

References never dangle (`FoldersFit`, `DocumentsFit`, `VersionsFit`), which is what
the foreign keys say; the columns of a version agree (`HonestVersion`); and the
copies a worker holds agree with each other however old they are (`WorkerFits`). The
last one is what makes writing only the changed columns harmless: job and version
status are either both written or both kept. The proof of `VersionsFit` did not go
through at first, because the model let a worker store chunks of an area that had
been deleted meanwhile; the database refuses that, and `AreaRemains` now says so.

### Intake

`RequestsFit` is all-or-nothing: of a request nothing is stored, or everything.
`CaptureFits` is what the locks preserve between the two steps of a capture: the
session's lock keeps opportunity, receipt and acting agent, the share lock keeps the
route's target. The policy, which no lock keeps, is not part of it and no property
depends on it. `CommandsApplyOnce` contains a refinement of `CommandLog`, in which
the receipts of changes that took effect are the entries.

### Panel records

* Access: the areas of a person are bound to the agent (`AreasBound`), kept by the
  check at the moment of writing and by the cascade when an area is unbound; panel
  users are never deleted, so an open change has its row (`ChangesExist`).
* Identity links: a claim has one receipt per version and stands at the last
  (`ClaimHistory`), and keys are unique over all claims (`KeysUnique`).
* Catalog: a form shows an older version of its row, or the row itself
  (`FormsHold`). An edit that passes the comparison of versions therefore shows the
  row as it is.
* Commercial: the two logs of an opportunity count one version together
  (`OpportunityHistory`) and never pass it, so that who owned it at version v is
  settled once v is reached (`Forward`). A pending meeting command holds an older
  copy or the meeting itself (`PendingFits`); the unique event version refuses the
  former. This is how `MeetingHistory` holds although the decision is made on a copy
  from before the lock. `AuthorizedAtCommit` needs that a command which has the lock
  still has the owner it was checked against (`LockFits`): stage commands keep the
  owner and a reassignment waits for the lock (`OppOwned`).
* `CommandLog`: the refinements compare logs entry by entry; a step appends one
  entry under a key the log does not have, or leaves rows and logs alone.
* Composition: a step of `MCSpec` is a step of one machine and a stutter of the
  others (`PanelMachines`), so every theorem holds of the composition.

### What is only model-checked

Liveness (`MessagesSurface`, `EveryMessageDecided`, `EveryJobSurfaces`,
`EveryTaskSettles`, `EveryJobSettles`) needs fairness and ENABLED, which the prover
does not handle. The five properties of section 6 are false. Everything else a run
checks is proved.

## 6. Where the code and its documentation disagree

Each of the first five is a run whose property TLC violates.

* `inbound_batch`: "per-thread FIFO is preserved" does not hold for the messages
  of one webhook, which share `created_at` and are ordered by random ids.
  Between webhooks that overlap no order is kept either: the one that began first
  may commit last, and its message then runs beside a later one or after it. What
  remains true is `ThreadFifo`.
* `followups_revoked`: "Revoked consent stops future follow-up". A task's
  outbound id is UNIQUE in the event table, and the event of the quarantine
  repeats it: once a follow-up is in the outbox the revocation rolls back,
  consent record included. Reassignment, requeue and retention of that task fail
  the same way.
* `intake_routes`: a handoff route command with a stale version is accepted when
  it overlaps another, because it compares with the copy loaded before the lock.
* `documents_purge`: a blob should go "sólo cuando ya no tienen referencias". An
  upload of the same content that commits between the purge's commit and its
  deletion of files loses its file; the orphan sweep does the same.
* `administration_last_admin`: "Debe quedar al menos un administrador activo".
  Two overlapping requests that each remove one of two administrators leave none.
* The dispatcher's comment (`outbound_dispatcher.py:78`) claims total order
  between a takeover and side effects because the conversation lock is held
  through the call. A call that times out gives the lock back while the provider
  may still act: `ProviderSends` is enabled after `RecordUnknown`.
* The architecture (`human-led-omnichannel-sales.md:54`) says a takeover prevents
  every later automatic tool effect. The guard before a tool is a transaction
  that ends before the tool runs. The native contact tool checks again under the
  lock; a configured HTTP tool cannot.
* The pipeline's comment (`pipeline.py:447`) says a message is visible to the
  operator before a guard can stop it. For a refused sender the guard comes first
  (`:377`): the job ends as `routed_to_human`, its payload erased, its message
  nowhere.

Behaviours that contradict nothing that is written, and that a maintainer should
know:

* `channel_inbound.py:556`: a refused sender's job always ends under review as
  `conversation_epoch_changed` and holds its thread, because it never stores a
  conversation to compare.
* `chat_application.py:921`: a worker past its last fence answers even after its
  job was recovered and cancelled or acknowledged.
* `web_chat_v2.py:139`: control is read without a lock, so a message may be
  accepted for an operator who has just handed the conversation back.
* `meetings.py:697`: the sender's grant is read by a SELECT that locks nothing
  (`admin_agent_access.py:71`), so one revoked (`:277`) between that check and the
  commit does not stop the meeting command. The owner cannot change meanwhile.
* `handoffs.py:116`: a capture reads the progression policy without a lock and
  commits under one that may have been replaced meanwhile.
* `rag/ingestion.py:331`, `:344`: a document moved while it is ingested gets
  chunks of its old area, and of two jobs of a document the last to finish, not
  the last uploaded, becomes current. A restore during ingestion may leave a
  published document with nothing to find, and a document deleted during ingestion
  may read published although it is deleted. A worker that outlived its lock and
  then fails marks the version failed that its successor has published.
* Lock orders that PostgreSQL resolves by aborting one side: `web_chat_v2.py:596`
  (conversation, then executions, against the queue's claims),
  `follow_up_execution.py:795`, `documents.py:246` (deletion against a worker's
  success).

## 7. What is not modelled

* Contents: texts, prompts, prices, payload encryption, idempotency digests. A
  repeated key is a step that changes nothing.
* Receipts and audit rows where nothing reads them; where a record is rebuilt
  from them (`CommandLog`) they are kept.
* The deadlocks of section 6: the models take all the locks of a transaction at
  once.
* Documents: extraction, chunking, embedding and ranking, which succeed or fail;
  the settings form, the import script (which deletes a stored file when its
  insert fails, even one that other rows share) and the backup marker.
* Administration: passwords, tokens, prompts, slug changes, editing of roles and
  the list of users without an agent.
* The web widget's history and event reads, typing presence, the Redis locks
  (which fail open, so nothing may depend on them), the provider's delivery
  receipts (`delivery_status.py`, a table that nothing decides on), jobs migrated from the legacy inbox.
* The BFF (a stateless proxy), the landing page and the panel (display),
  migrations, scripts and deployment. `PROJECT.json` has the reason for each
  component.
