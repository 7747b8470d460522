--------------------------- MODULE ChannelInbound ---------------------------
(***************************************************************************)
(* The inbox of an external channel: provider messages become jobs that a  *)
(* worker claims under a lease and runs through the pipeline, which first  *)
(* persists the phase of every external effect it is about to have.        *)
(* services/channel_inbound.py, services/channel_inbound_review.py and the *)
(* steps of services/pipeline.py, with the epochs of ConversationControl.  *)
(*                                                                         *)
(* A job is one (route, provider message id).  A provider that repeats a   *)
(* message meets the unique constraint and changes nothing.  Jobs migrated *)
(* from the legacy inbox are left out.                                     *)
(***************************************************************************)
EXTENDS ConversationControl, Sequences, FiniteSets, Functions

LOCAL INSTANCE SequencesExt

CONSTANTS
  Jobs,
  ThreadOf,     \* ThreadOf[j]: the conversation of the sender's thread
  Sent,         \* Sent[j]: the order in which the sender wrote
  Refused,      \* jobs whose sender the access policy refuses
  Workers,
  None,         \* SQL NULL
  MaxOpen,      \* bound on the webhook transactions open at a time
  MaxBatch,     \* bound on the messages of a webhook
  MaxAttempts,  \* bound on the claims of a job; no job is requeued once one has had them
  MaxEpochs     \* bound on a conversation's changes of control and of agent together

ASSUME InboundAssumption ==
  /\ IsFiniteSet(Jobs)
  /\ ThreadOf \in [Jobs -> Conversations]
  /\ Sent \in [Jobs -> Nat]
  /\ Refused \subseteq Jobs
  /\ None \notin Jobs \cup Workers
  /\ MaxOpen \in Nat
  /\ MaxBatch \in Nat
  /\ MaxAttempts \in Nat \ {0}
  /\ MaxEpochs \in Nat

VARIABLES
  fifo,         \* the jobs in the order (created_at, id)
  created_at,   \* the webhook transaction of the job, 0 before it starts
  present,      \* history: the jobs committed by when the job's webhook had committed
  status,       \* "none" before the webhook commits
  phase,
  lease_owner,
  lease,        \* "live", or "expired" once lease_expires_at is past
  attempts,
  payload,      \* jobs whose encrypted payload is still stored
  epoch,        \* the epochs recorded on the job by inbound_recorded
  recorded,     \* jobs whose message an operator can see in the conversation
  effects,      \* effects[j]: the attempts of j that acted outside
  replies,      \* jobs answered through the outbox
  pc,           \* where each worker is in run_once
  stage,        \* the pipeline stage it is entering or in
  job,
  attempt,      \* which claim of the job it works for
  seen          \* the epochs its pipeline loaded

rowVars == <<fifo, created_at, present, status, phase, lease_owner, lease, attempts,
             payload, epoch>>
worldVars == <<recorded, effects, replies>>
workerVars == <<pc, stage, job, attempt, seen>>
vars == <<conv, rowVars, worldVars, workerVars>>

Statuses == {"queued", "processing", "completed", "routed_to_human", "ignored",
             "review_required", "cancelled"}
Terminal == {"completed", "routed_to_human", "ignored", "cancelled"}

\* Faulty variant: a job under review does not hold its thread.
FifoBlockingForgetsReview == {"queued", "processing"}

\* _FIFO_BLOCKING_STATUSES
FifoBlocking == {"queued", "processing", "review_required"}

\* The stages with an effect outside and the phase persisted before each; an
\* early exit of the pipeline ("finalize") writes to the outbox too.
Phase ==
  [provider |-> "provider_effect_started", transcription |-> "transcription_started",
   agent |-> "agent_effect_started", outbox |-> "outbox_effect_started",
   finalize |-> "outbox_effect_started"]
Stages == DOMAIN Phase

\* Faulty variant: a read receipt is not counted as an effect.
ZeroEffectPhasesWide == {"accepted", "claimed", "inbound_recorded", "provider_effect_started"}

\* _ZERO_EFFECT_PHASES
ZeroEffectPhases == {"accepted", "claimed", "inbound_recorded"}

\* Faulty variant: marking a message as read is thought harmless.
RequeuePhasesWide == {"accepted", "claimed", "provider_effect_started"}

\* _REQUEUE_PHASES
RequeuePhases == {"accepted", "claimed"}

Epoch ==
  [control_version : Nat, automation_agent : Agents, automation_version : Nat]

TypeOK ==
  /\ conv \in [Conversations -> Conversation]
  /\ IsInjective(fifo)
  /\ Range(fifo) = {j \in Jobs : created_at[j] # 0}
  /\ created_at \in [Jobs -> Nat]
  /\ present \in [Jobs -> SUBSET Jobs]
  /\ status \in [Jobs -> Statuses \cup {"none"}]
  /\ phase \in [Jobs -> ZeroEffectPhases \cup {Phase[s] : s \in Stages} \cup {"terminal"}]
  /\ lease_owner \in [Jobs -> Workers \cup {None}]
  /\ lease \in [Jobs -> {"live", "expired", "null"}]
  /\ \A j \in Jobs : status[j] = "processing" <=> lease_owner[j] # None
  /\ attempts \in [Jobs -> 0..MaxAttempts]
  /\ payload \subseteq Jobs
  /\ epoch \in [Jobs -> {None} \cup Epoch]
  /\ recorded \subseteq Jobs
  /\ effects \in [Jobs -> SUBSET (1..MaxAttempts)]
  /\ replies \subseteq Jobs
  /\ pc \in [Workers -> {"idle", "claimed", "loaded", "recorded", "guard", "advance",
                         "effect", "tool", "blocked", "failed", "done", "completing",
                         "reviewing"}]
  /\ stage \in [Workers -> Stages \cup {None}]
  /\ job \in [Workers -> Jobs \cup {None}]
  /\ attempt \in [Workers -> 0..MaxAttempts]
  /\ seen \in [Workers -> {None} \cup Epoch]
  /\ \A w \in Workers : pc[w] # "idle" => job[w] # None

Init ==
  /\ ControlInit
  /\ fifo = <<>>
  /\ created_at = [j \in Jobs |-> 0]
  /\ present = [j \in Jobs |-> {}]
  /\ status = [j \in Jobs |-> "none"]
  /\ phase = [j \in Jobs |-> "accepted"]
  /\ lease_owner = [j \in Jobs |-> None]
  /\ lease = [j \in Jobs |-> "null"]
  /\ attempts = [j \in Jobs |-> 0]
  /\ payload = {}
  /\ epoch = [j \in Jobs |-> None]
  /\ recorded = {}
  /\ effects = [j \in Jobs |-> {}]
  /\ replies = {}
  /\ pc = [w \in Workers |-> "idle"]
  /\ stage = [w \in Workers |-> None]
  /\ job = [w \in Workers |-> None]
  /\ attempt = [w \in Workers |-> 0]
  /\ seen = [w \in Workers |-> None]

-----------------------------------------------------------------------------
EpochOf(c) ==
  [control_version |-> conv[c].control_version,
   automation_agent |-> conv[c].automation_agent,
   automation_version |-> conv[c].automation_version]

\* The automation guard, and _assert_whatsapp_execution_current under the lock.
Current(w) ==
  LET c == ThreadOf[job[w]] IN
  conv[c].control_mode = "automated" /\ EpochOf(c) = seen[w]

\* _owned_processing_job.  The lease may be past: only recovery ends a claim.
Owned(w) == status[job[w]] = "processing" /\ lease_owner[job[w]] = w

Earlier(i, j) ==
  /\ ThreadOf[i] = ThreadOf[j]
  /\ \E a, b \in 1..Len(fifo) : a < b /\ fifo[a] = i /\ fifo[b] = j

\* _transition and _apply_command: leave "processing" or the review for a status.
MoveTo(j, to, newPhase) ==
  /\ status' = [status EXCEPT ![j] = to]
  /\ phase' = [phase EXCEPT ![j] = newPhase]
  /\ lease_owner' = [lease_owner EXCEPT ![j] = None]
  /\ lease' = [lease EXCEPT ![j] = "null"]
  /\ payload' = IF to \in Terminal THEN payload \ {j} ELSE payload
  /\ UNCHANGED <<fifo, created_at, present, attempts, epoch>>

-----------------------------------------------------------------------------
(* The webhook.  created_at is the start of the transaction (now() of        *)
(* PostgreSQL), so the rows of a batch share it and random ids order them,   *)
(* and a transaction that began earlier may commit later.  A webhook that    *)
(* fails leaves nothing and the provider sends the batch again.              *)
Open == {created_at[j] : j \in {i \in Jobs : created_at[i] # 0 /\ status[i] = "none"}}

WebhookBegins(batch) ==
  /\ Cardinality(batch) \in 1..MaxBatch
  /\ \A j \in batch : created_at[j] = 0
  /\ Cardinality(Open) < MaxOpen
  /\ \E ordered \in SetToSeqs(batch) : fifo' = fifo \o ordered
  /\ created_at' = [j \in Jobs |-> IF j \in batch THEN Len(fifo) + 1 ELSE created_at[j]]
  /\ UNCHANGED <<conv, present, status, phase, lease_owner, lease, attempts, payload,
                 epoch, worldVars, workerVars>>

EnqueueBatch(t) ==
  LET batch == {j \in Jobs : created_at[j] = t} IN
  /\ t \in Open
  /\ status' = [j \in Jobs |-> IF j \in batch THEN "queued" ELSE status[j]]
  /\ present' = [j \in Jobs |->
                   IF j \in batch THEN {i \in Jobs : status'[i] # "none"} ELSE present[j]]
  /\ payload' = payload \cup batch
  /\ UNCHANGED <<conv, fifo, created_at, phase, lease_owner, lease, attempts, epoch,
                 worldVars, workerVars>>

-----------------------------------------------------------------------------
(* _claim_job: one stale lease goes to review, or one job is claimed.  SKIP *)
(* LOCKED may hide the stale lease, so the claim does not wait for it.      *)
\* Faulty variant: only a job that has had no effect is recovered.
StaleUntouched(j) ==
  status[j] = "processing" /\ lease[j] = "expired" /\ phase[j] \in ZeroEffectPhases

Stale(j) == status[j] = "processing" /\ lease[j] = "expired"

\* Faulty variant: recovery leaves the old owner on the row.
RecoverLeaseKeepsOwner(w, j) ==
  /\ pc[w] = "idle"
  /\ Stale(j)
  /\ status' = [status EXCEPT ![j] = "review_required"]
  /\ UNCHANGED <<conv, fifo, created_at, present, phase, lease_owner, lease, attempts,
                 payload, epoch, worldVars, workerVars>>

RecoverLease(w, j) ==
  /\ pc[w] = "idle"
  /\ Stale(j)
  /\ MoveTo(j, "review_required", phase[j])
  /\ UNCHANGED <<conv, worldVars, workerVars>>

ClaimJob(w, j) ==
  /\ pc[w] = "idle"
  /\ status[j] = "queued"
  /\ \A i \in Jobs : Earlier(i, j) => status[i] \notin FifoBlocking
  /\ status' = [status EXCEPT ![j] = "processing"]
  /\ phase' = [phase EXCEPT ![j] = "claimed"]
  /\ lease_owner' = [lease_owner EXCEPT ![j] = w]
  /\ lease' = [lease EXCEPT ![j] = "live"]
  /\ attempts' = [attempts EXCEPT ![j] = @ + 1]
  /\ pc' = [pc EXCEPT ![w] = "claimed"]
  /\ job' = [job EXCEPT ![w] = j]
  /\ attempt' = [attempt EXCEPT ![w] = attempts[j] + 1]
  /\ UNCHANGED <<conv, fifo, created_at, present, payload, epoch, worldVars, stage,
                 seen>>

LeaseExpires(j) ==
  /\ lease[j] = "live"
  /\ lease' = [lease EXCEPT ![j] = "expired"]
  /\ UNCHANGED <<conv, fifo, created_at, present, status, phase, lease_owner, attempts,
                 payload, epoch, worldVars, workerVars>>

-----------------------------------------------------------------------------
(* _process_job and the pipeline.                                           *)

\* The worker moves to a place of its program; nothing else changes.
Goto(w, place, at) ==
  /\ pc' = [pc EXCEPT ![w] = place]
  /\ stage' = [stage EXCEPT ![w] = at]
  /\ UNCHANGED <<job, attempt, seen>>

\* The job is read by its owner and the conversation's epochs are loaded.  A
\* refused sender gets a notice and is never recorded in the conversation.
Load(w) ==
  /\ pc[w] = "claimed"
  /\ Owned(w)
  /\ seen' = [seen EXCEPT ![w] = EpochOf(ThreadOf[job[w]])]
  /\ pc' = [pc EXCEPT ![w] = IF job[w] \in Refused THEN "guard" ELSE "loaded"]
  /\ stage' = [stage EXCEPT ![w] = IF job[w] \in Refused THEN "finalize" ELSE None]
  /\ UNCHANGED <<conv, rowVars, worldVars, job, attempt>>

\* record_whatsapp_inbound, which finds the message of an earlier attempt.
RecordInbound(w) ==
  /\ pc[w] = "loaded"
  /\ recorded' = recorded \cup {job[w]}
  /\ Goto(w, "recorded", None)
  /\ UNCHANGED <<conv, rowVars, effects, replies>>

\* Faulty variant: the epochs are written without looking at the claim.
InboundRecordedUnowned(w) ==
  /\ pc[w] = "recorded"
  /\ epoch' = [epoch EXCEPT ![job[w]] = seen[w]]
  /\ phase' = [phase EXCEPT ![job[w]] = "inbound_recorded"]
  /\ Goto(w, "guard", "provider")
  /\ UNCHANGED <<conv, fifo, created_at, present, status, lease_owner, lease, attempts,
                 payload, worldVars>>

InboundRecorded(w) ==
  /\ pc[w] = "recorded"
  /\ Owned(w)
  /\ epoch' = [epoch EXCEPT ![job[w]] = seen[w]]
  /\ phase' = [phase EXCEPT ![job[w]] = "inbound_recorded"]
  /\ Goto(w, "guard", "provider")
  /\ UNCHANGED <<conv, fifo, created_at, present, status, lease_owner, lease, attempts,
                 payload, worldVars>>

\* The automation guard reads the epochs and commits.  The pipeline guards its
\* stages, the agent loop each of its tools and its return (twice in a row).
Guard(w) ==
  /\ \/ pc[w] = "guard"
     \/ pc[w] = "effect" /\ stage[w] = "agent"
  /\ LET passed == IF pc[w] = "guard" THEN "advance" ELSE "tool" IN
     Goto(w, IF Current(w) THEN passed ELSE "blocked", stage[w])
  /\ UNCHANGED <<conv, rowVars, worldVars>>

\* before_external_effect
Advance(w) ==
  /\ pc[w] = "advance"
  /\ Owned(w)
  /\ phase' = [phase EXCEPT ![job[w]] = Phase[stage[w]]]
  /\ Goto(w, "effect", stage[w])
  /\ UNCHANGED <<conv, fifo, created_at, present, status, lease_owner, lease, attempts,
                 payload, epoch, worldVars>>

\* An effect outside, in the name of the claim the worker holds or held.
Act(w) == effects' = [effects EXCEPT ![job[w]] = @ \cup {attempt[w]}]

\* mark_as_read.  Text goes on to the agent, audio to the transcription; audio
\* without media and unsupported kinds go to a fallback answer.
MarkAsRead(w) ==
  /\ pc[w] = "effect" /\ stage[w] = "provider"
  /\ Act(w)
  /\ \/ Goto(w, "guard", "agent")
     \/ \E next \in {"transcription", "finalize"} : Goto(w, "advance", next)
  /\ UNCHANGED <<conv, rowVars, recorded, replies>>

\* download_and_transcribe, with or without a transcript.
Transcribe(w) ==
  /\ pc[w] = "effect" /\ stage[w] = "transcription"
  /\ Act(w)
  /\ Goto(w, "guard", "agent") \/ Goto(w, "advance", "finalize")
  /\ UNCHANGED <<conv, rowVars, recorded, replies>>

\* A tool call of the agent loop.
Tool(w) ==
  /\ pc[w] = "tool"
  /\ Act(w)
  /\ Goto(w, "effect", "agent")
  /\ UNCHANGED <<conv, rowVars, recorded, replies>>

AgentReturns(w) ==
  /\ pc[w] = "tool"
  /\ Goto(w, "advance", "outbox")
  /\ UNCHANGED <<conv, rowVars, worldVars>>

\* record_whatsapp_exchange or record_whatsapp_notification, which check the
\* epochs under the conversation's lock.  A notification of _finalize_pipeline
\* turns a moved epoch into a plain failure.
Exchange(w) ==
  /\ pc[w] = "effect" /\ stage[w] \in {"outbox", "finalize"}
  /\ IF Current(w)
       THEN /\ replies' = replies \cup {job[w]}
            /\ Act(w)
            /\ Goto(w, "done", stage[w])
       ELSE /\ Goto(w, IF stage[w] = "outbox" THEN "blocked" ELSE "failed", stage[w])
            /\ UNCHANGED <<replies, effects>>
  /\ UNCHANGED <<conv, rowVars, recorded>>

\* An exception of any call on the way: the route changed, the payload cannot be
\* read, the provider, a tool or the database failed.
Fails(w) ==
  /\ pc[w] \notin {"idle", "blocked", "failed"}
  /\ Goto(w, "failed", stage[w])
  /\ UNCHANGED <<conv, rowVars, worldVars>>

-----------------------------------------------------------------------------
(* The end of run_once.                                                     *)

\* _execution_epoch_is_current, on the epochs stored with the job.
EpochIsCurrent(j) ==
  LET c == ThreadOf[j] IN
  IF epoch[j] = None
    THEN phase[j] \in {"accepted", "claimed"}
    ELSE conv[c].control_mode = "automated" /\ EpochOf(c) = epoch[j]

CheckEpoch(w) ==
  /\ pc[w] = "done"
  /\ Goto(w, IF EpochIsCurrent(job[w]) THEN "completing" ELSE "reviewing", stage[w])
  /\ UNCHANGED <<conv, rowVars, worldVars>>

\* The status each end of run_once asks for.
Verdict(w) ==
  CASE pc[w] = "completing" -> "completed"
    [] pc[w] = "blocked" /\ phase[job[w]] \in ZeroEffectPhases -> "routed_to_human"
    [] OTHER -> "review_required"

Forget(w) ==
  /\ pc' = [pc EXCEPT ![w] = "idle"]
  /\ stage' = [stage EXCEPT ![w] = None]
  /\ job' = [job EXCEPT ![w] = None]
  /\ attempt' = [attempt EXCEPT ![w] = 0]
  /\ seen' = [seen EXCEPT ![w] = None]

\* _transition_owned
Settle(w) ==
  /\ pc[w] \in {"completing", "reviewing", "blocked", "failed"}
  /\ Owned(w)
  /\ MoveTo(job[w], Verdict(w), IF Verdict(w) \in Terminal THEN "terminal" ELSE phase[job[w]])
  /\ Forget(w)
  /\ UNCHANGED <<conv, worldVars>>

\* ChannelInboundOwnershipLost: run_once cannot settle the job either.
Abandon(w) ==
  /\ pc[w] \in {"claimed", "recorded", "advance", "completing", "reviewing", "blocked", "failed"}
  /\ ~Owned(w)
  /\ Forget(w)
  /\ UNCHANGED <<conv, rowVars, worldVars>>

\* The process dies and a new one starts, or the last write of run_once fails.
WorkerDies(w) ==
  /\ pc[w] # "idle"
  /\ Forget(w)
  /\ UNCHANGED <<conv, rowVars, worldVars>>

-----------------------------------------------------------------------------
(* Operators.  A command with a stale state_version or a used idempotency    *)
(* key changes nothing.                                                      *)
Requeue(j) ==
  /\ status[j] = "review_required"
  /\ phase[j] \in RequeuePhases
  /\ j \in payload
  /\ \A i \in Jobs : attempts[i] < MaxAttempts
  /\ MoveTo(j, "queued", "accepted")
  /\ UNCHANGED <<conv, worldVars, workerVars>>

Cancel(j) ==
  /\ status[j] \in {"queued", "review_required"}
  /\ MoveTo(j, "cancelled", "terminal")
  /\ UNCHANGED <<conv, worldVars, workerVars>>

Acknowledge(j) ==
  /\ status[j] = "review_required"
  /\ MoveTo(j, "ignored", "terminal")
  /\ UNCHANGED <<conv, worldVars, workerVars>>

\* The bound on what operators change.
Changes(c) == conv[c].control_version + conv[c].automation_version

ControlTransition(c, actor, target, requested, expected) ==
  /\ Changes(c) < MaxEpochs
  /\ Transition(c, actor, target, requested, expected)
  /\ UNCHANGED <<rowVars, worldVars, workerVars>>

AutomationAssign(c, agent, expected) ==
  /\ Changes(c) < MaxEpochs
  /\ Assign(c, agent, expected)
  /\ UNCHANGED <<rowVars, worldVars, workerVars>>

-----------------------------------------------------------------------------
Ingress ==
  \/ \E batch \in SUBSET Jobs : WebhookBegins(batch)
  \/ \E t \in Open : EnqueueBatch(t)

Operate ==
  \/ \E j \in Jobs : Requeue(j) \/ Cancel(j) \/ Acknowledge(j)
  \/ \E c \in Conversations :
       \/ \E actor \in Admins, target \in Modes, requested \in Admins \cup {NoAdmin},
             v \in 0..MaxControl : ControlTransition(c, actor, target, requested, v)
       \/ \E a \in Agents, av \in 0..MaxAutomation : AutomationAssign(c, a, av)

Claim(w) == \E j \in Jobs : RecoverLease(w, j) \/ ClaimJob(w, j)

\* What a worker does whatever the outside world answers.
Proceed(w) ==
  \/ Load(w)
  \/ RecordInbound(w)
  \/ InboundRecorded(w)
  \/ Guard(w)
  \/ Advance(w)
  \/ MarkAsRead(w)
  \/ Transcribe(w)
  \/ Exchange(w)
  \/ CheckEpoch(w)
  \/ Settle(w)
  \/ Abandon(w)

Next ==
  \/ Ingress
  \/ Operate
  \/ \E w \in Workers :
       \/ Claim(w)
       \/ Proceed(w)
       \/ Tool(w)
       \/ AgentReturns(w)
       \/ Fails(w)
       \/ WorkerDies(w)
  \/ \E j \in Jobs : LeaseExpires(j)

Spec == Init /\ [][Next]_vars

(* run_forever polls for ever and the clock moves; a call outside ends or    *)
(* times out.  The agent loop has bounded iterations, so a worker that keeps *)
(* passing its guard returns in the end (strong fairness).                   *)
Fairness ==
  /\ WF_vars(\E w \in Workers : Claim(w))
  /\ \A w \in Workers : WF_vars(Proceed(w)) /\ SF_vars(AgentReturns(w))
  /\ \A j \in Jobs : WF_vars(LeaseExpires(j))

FairSpec == Spec /\ Fairness

-----------------------------------------------------------------------------
(* Properties.                                                               *)

(* A job's status tells an operator the truth about its message, although it *)
(* is written after the effects and by another transaction: a completed one  *)
(* was answered; one that waits or was handed over untouched has had no      *)
(* effect at all; one handed over is in the conversation, if its sender is   *)
(* allowed; and the payload is kept while the job can still run (run_once,   *)
(* _transition, requeue, _terminal_command).                                 *)
HonestDisposition ==
  \A j \in Jobs :
    /\ status[j] = "completed" => j \in replies \cap recorded
    /\ status[j] \in {"queued", "routed_to_human"} => effects[j] = {} /\ j \notin replies
    /\ status[j] = "routed_to_human" /\ j \notin Refused => j \in recorded
    /\ status[j] \in {"queued", "processing", "review_required"} <=> j \in payload

(* The thread is worked in order although webhooks overlap, workers race,    *)
(* leases expire and operators queue jobs again: while a job runs, every job *)
(* of its thread that is before it and was committed when it came in, the    *)
(* rest of its own batch included, has been dealt with for good (_claim_job).*)
(* It says nothing of a webhook that began first and committed last: such a  *)
(* row slips in before jobs that may be running or done.                     *)
ThreadFifo ==
  \A i, j \in Jobs :
    Earlier(i, j) /\ i \in present[j] /\ status[j] = "processing"
      => status[i] \in {"completed", "routed_to_human", "ignored", "cancelled"}

\* The row of a running job is its owner's: it holds the epochs the owner loaded
\* and its phase announces every effect the owner is about to have.
RowFollowsOwner(w) ==
  /\ epoch[job[w]] \in {None, seen[w]}
  /\ pc[w] \in {"effect", "tool"} => phase[job[w]] = Phase[stage[w]]
  /\ effects[job[w]] # {} => phase[job[w]] \notin ZeroEffectPhases

(* A message acts on the outside world in at most one of its attempts, read  *)
(* receipts, transcriptions, tools and replies alike, although a worker may  *)
(* outlive its lease and operators may queue the job again: what one worker  *)
(* started is never started over, and a worker that lost its claim leaves no *)
(* trace on the row of its successor (_advance, _claim_job, inbound_recorded,*)
(* before_external_effect, _REQUEUE_PHASES).                                 *)
OneAttemptActs ==
  /\ \A j \in Jobs : Cardinality(effects[j]) <= 1
  /\ \A w \in Workers : pc[w] # "idle" /\ Owned(w) => RowFollowsOwner(w)

(* Every accepted message is dealt with, although workers die: again and      *)
(* again, and for good once nothing more arrives and nothing is queued again, *)
(* no job runs and none waits but behind a job under review (_claim_job       *)
(* recovers expired leases).                                                  *)
EveryJobSurfaces ==
  []<>(\A j \in Jobs :
       /\ status[j] # "processing"
       /\ status[j] = "queued" =>
            \E i \in Jobs : Earlier(i, j) /\ status[i] = "review_required")

(* "per-thread FIFO is preserved" (docs/operations/whatsapp-onboarding.md):  *)
(* a message runs only after every message of its thread that was written    *)
(* before it and accepted with it or earlier.  The code orders the rows of a *)
(* batch by random ids and does not keep this.                               *)
SenderOrder ==
  \A i, j \in Jobs :
    /\ ThreadOf[i] = ThreadOf[j] /\ Sent[i] < Sent[j]
    /\ created_at[i] \in 1..created_at[j]
    /\ status[i] # "none" /\ status[j] = "processing"
    => status[i] \notin {"queued", "processing", "review_required"}
=============================================================================
