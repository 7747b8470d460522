-------------------------- MODULE OutboundDelivery --------------------------
(***************************************************************************)
(* The outbound outbox and the workers that drain it:                      *)
(* services/outbound_delivery.py, services/outbound_dispatcher.py,         *)
(* services/outbound_delivery_resolution.py and workers/outbound.py, with  *)
(* the control and acting-agent epochs that fence them.                    *)
(*                                                                         *)
(* A database transaction is one step, except the dispatch transaction,    *)
(* which holds the message, conversation, route and connection rows FOR    *)
(* UPDATE across the provider call.  The locks are not variables: they are *)
(* what a worker inside that transaction holds, so a worker that dies      *)
(* releases them.                                                          *)
(*                                                                         *)
(* A command is one idempotency key of one conversation, and so at most    *)
(* one outbox row.  The id the provider gives to the message of command m  *)
(* is written m: provider ids are unique, an operator may still type the   *)
(* wrong one.                                                              *)
(***************************************************************************)
EXTENDS ConversationControl

CONSTANTS
  Commands,          \* idempotency keys
  ConvOf,            \* ConvOf[m]: the conversation of command m
  OperatorCommands,  \* the keys "operator:...", sent by an operator
  FollowUpCommands,  \* the keys "follow-up:...", sent by a follow-up task
  Routes,            \* channel_agent_routes with their channel connection
  RouteOf,           \* RouteOf[c]: channel_route_id of conversation c
  AdapterRoutes,     \* routes whose adapter_key this worker has registered
  Workers,
  None,              \* SQL NULL
  MaxRouteVersion    \* bound on the version of a route

ASSUME OutboundAssumption ==
  /\ ConvOf \in [Commands -> Conversations]
  /\ RouteOf \in [Conversations -> Routes]
  /\ OperatorCommands \subseteq Commands
  /\ FollowUpCommands \subseteq Commands \ OperatorCommands
  /\ AdapterRoutes \subseteq Routes
  /\ None \notin Commands
  /\ None \notin Workers
  /\ MaxRouteVersion \in Nat

VARIABLES
  route,          \* version and activity of a route and its connection
  next_sequence,  \* next_outbound_sequence of each conversation
  status,         \* status of the row of each command, "none" before it
  snapshot,       \* the sender and epochs the row was enqueued under
  locked_by,      \* the worker that claimed the row
  locked_at,      \* age of that claim: "fresh", or "stale" past stale_before
  attempts,       \* last_attempt_number
  provider_id,    \* provider_message_id
  resolution,     \* resolution_version
  pc,             \* where each worker is in run_once
  job,            \* the claim each worker holds in memory
  wire,           \* provider requests that may still take effect
  sent,           \* messages the provider did send
  calls           \* how often adapter.deliver was called for each command

rowVars == <<status, snapshot, locked_by, locked_at, attempts, provider_id,
             resolution>>
workerVars == <<pc, job>>
providerVars == <<wire, sent, calls>>
vars == <<conv, route, next_sequence, rowVars, workerVars, providerVars>>

Statuses == {"none", "queued", "dispatching", "accepted", "delivered", "read",
             "failed", "delivery_unknown", "cancelled"}

\* Faulty variant: an uncertain delivery does not hold back later rows.
BlockingForgetsUnknown == {"queued", "dispatching"}
\* Faulty variant: a failed delivery holds back later rows for ever.
BlockingKeepsFailed == {"queued", "dispatching", "delivery_unknown", "failed"}
\* _blocking_statuses: what keeps later rows of the conversation waiting.
Blocking == {"queued", "dispatching", "delivery_unknown"}

Snapshot ==
  [sender_admin : Admins \cup {NoAdmin},
   control_version : Nat,
   automation_agent : Agents \cup {None},
   automation_version : Nat \cup {None},
   route_version : Nat,
   sequence : Nat]

NoSnapshot ==
  [sender_admin |-> NoAdmin, control_version |-> 0,
   automation_agent |-> None, automation_version |-> None,
   route_version |-> 0, sequence |-> 0]

TypeOK ==
  /\ conv \in [Conversations -> Conversation]
  /\ route \in [Routes -> [version : Nat, active : BOOLEAN]]
  /\ next_sequence \in [Conversations -> Nat]
  /\ status \in [Commands -> Statuses]
  /\ snapshot \in [Commands -> Snapshot]
  /\ locked_by \in [Commands -> Workers \cup {None}]
  /\ locked_at \in [Commands -> {"fresh", "stale", "null"}]
  /\ attempts \in [Commands -> Nat]
  /\ provider_id \in [Commands -> Commands \cup {None}]
  /\ resolution \in [Commands -> Nat]
  /\ pc \in [Workers -> {"idle", "claimed", "fenced", "calling"}]
  /\ job \in [Workers -> Commands \cup {None}]
  /\ wire \subseteq Commands
  /\ sent \subseteq Commands
  /\ calls \in [Commands -> Nat]

Init ==
  /\ ControlInit
  /\ route = [r \in Routes |-> [version |-> 0, active |-> TRUE]]
  /\ next_sequence = [c \in Conversations |-> 1]
  /\ status = [m \in Commands |-> "none"]
  /\ snapshot = [m \in Commands |-> NoSnapshot]
  /\ locked_by = [m \in Commands |-> None]
  /\ locked_at = [m \in Commands |-> "null"]
  /\ attempts = [m \in Commands |-> 0]
  /\ provider_id = [m \in Commands |-> None]
  /\ resolution = [m \in Commands |-> 0]
  /\ pc = [w \in Workers |-> "idle"]
  /\ job = [w \in Workers |-> None]
  /\ wire = {}
  /\ sent = {}
  /\ calls = [m \in Commands |-> 0]

-----------------------------------------------------------------------------
(* Row locks of the open dispatch transactions.                            *)

\* Workers inside dispatch_claim's transaction, and those past its route lock.
InDispatch == {w \in Workers : pc[w] \in {"fenced", "calling"}}
InCall == {w \in Workers : pc[w] = "calling"}

MessageFree(m) == \A w \in InDispatch : job[w] # m
ConversationFree(c) == \A w \in InDispatch : ConvOf[job[w]] # c
RouteFree(r) == \A w \in InCall : RouteOf[ConvOf[job[w]]] # r

-----------------------------------------------------------------------------
(* The fences.                                                             *)

\* _assert_sender_fence of a row (or of a command about to become one).
SenderFence(m, snap) ==
  LET c == conv[ConvOf[m]] IN
  /\ c.control_mode # "closed"
  /\ c.control_version = snap.control_version
  /\ IF m \in OperatorCommands
       THEN /\ c.control_mode = "human"
            /\ snap.sender_admin # NoAdmin
            /\ c.assigned_admin = snap.sender_admin
       ELSE /\ snap.sender_admin = NoAdmin
            /\ c.control_mode = "automated"
            /\ c.automation_agent = snap.automation_agent
            /\ c.automation_version = snap.automation_version

\* _load_route_and_connection: the exact configuration snapshotted at enqueue.
RouteCurrent(m) ==
  LET r == RouteOf[ConvOf[m]] IN
  /\ route[r].active
  /\ route[r].version = snapshot[m].route_version

\* m2 is a row of m1's conversation enqueued before it.
Earlier(m2, m1) ==
  /\ ConvOf[m2] = ConvOf[m1]
  /\ status[m2] # "none"
  /\ snapshot[m2].sequence < snapshot[m1].sequence

\* _eligible_head_statement, once the rows in S are cancelled.
EligibleHead(m, S) ==
  /\ status[m] = "queued"
  /\ m \notin S
  /\ \A e \in Commands \ S : Earlier(e, m) => status[e] \notin Blocking

-----------------------------------------------------------------------------
(* Producers and operators.                                                *)

\* OutboundDeliveryService.enqueue: a key that already has a row is answered
\* with that row (or refused, for another payload) and changes nothing.
Enqueue(m, snap) ==
  LET c == ConvOf[m]
      r == RouteOf[c] IN
  /\ ConversationFree(c)
  /\ status[m] = "none"
  /\ SenderFence(m, snap)
  /\ RouteFree(r)
  /\ route[r].active
  /\ status' = [status EXCEPT ![m] = "queued"]
  /\ snapshot' = [snapshot EXCEPT
       ![m] = [snap EXCEPT !.route_version = route[r].version,
                           !.sequence = next_sequence[c]]]
  /\ next_sequence' = [next_sequence EXCEPT ![c] = @ + 1]
  /\ UNCHANGED <<conv, route, locked_by, locked_at, attempts, provider_id,
                 resolution, workerVars, providerVars>>

\* An agent's reply or a follow-up, under the epochs it read when it started.
EnqueueAutomation(m, version, agent, automation) ==
  /\ m \notin OperatorCommands
  /\ Enqueue(m, [NoSnapshot EXCEPT !.control_version = version,
                                   !.automation_agent = agent,
                                   !.automation_version = automation])

\* ConversationControlService.record_operator_message on an external channel.
RecordOperatorMessage(m, actor, expected) ==
  /\ m \in OperatorCommands
  /\ expected = conv[ConvOf[m]].control_version
  /\ conv[ConvOf[m]].control_mode = "human"
  /\ conv[ConvOf[m]].assigned_admin = actor
  /\ Enqueue(m, [NoSnapshot EXCEPT !.sender_admin = actor,
                                   !.control_version = expected])

\* Faulty variants: the row is read without FOR UPDATE.
ControlTransitionUnlocked(c, actor, target, requested, expected) ==
  /\ Transition(c, actor, target, requested, expected)
  /\ UNCHANGED <<route, next_sequence, rowVars, workerVars, providerVars>>

AutomationAssignUnlocked(c, agent, expected) ==
  /\ Assign(c, agent, expected)
  /\ UNCHANGED <<route, next_sequence, rowVars, workerVars, providerVars>>

\* Control and acting-agent commands wait for the conversation row.
ControlTransition(c, actor, target, requested, expected) ==
  /\ ConversationFree(c)
  /\ Transition(c, actor, target, requested, expected)
  /\ UNCHANGED <<route, next_sequence, rowVars, workerVars, providerVars>>

AutomationAssign(c, agent, expected) ==
  /\ ConversationFree(c)
  /\ Assign(c, agent, expected)
  /\ UNCHANGED <<route, next_sequence, rowVars, workerVars, providerVars>>

\* PATCH of a route or of its connection: either bumps a version.
ConfigureRoute(r, active) ==
  /\ RouteFree(r)
  /\ route[r].version < MaxRouteVersion
  /\ route' = [route EXCEPT ![r] = [version |-> @.version + 1,
                                    active |-> active]]
  /\ UNCHANGED <<conv, next_sequence, rowVars, workerVars, providerVars>>

\* An operator settles an uncertain delivery.  A repeated key replays the
\* stored resolution and changes nothing.
ReferenceAvailable(m, reference) ==
  \A other \in Commands \ {m} :
    RouteOf[ConvOf[other]] = RouteOf[ConvOf[m]] =>
      provider_id[other] # reference

\* Faulty variant: the evidence may name another delivery's message.
ResolveUnchecked(m, expected, reference) ==
  /\ MessageFree(m)
  /\ expected = resolution[m]
  /\ status[m] = "delivery_unknown"
  /\ reference # None
  /\ status' = [status EXCEPT ![m] = "delivered"]
  /\ provider_id' = [provider_id EXCEPT ![m] = reference]
  /\ resolution' = [resolution EXCEPT ![m] = @ + 1]
  /\ UNCHANGED <<conv, route, next_sequence, snapshot, locked_by, locked_at,
                 attempts, workerVars, providerVars>>
\* Faulty variant: an accepted delivery can be cancelled too.
ResolveAccepted(m, expected, reference) ==
  /\ MessageFree(m)
  /\ expected = resolution[m]
  /\ status[m] \in {"delivery_unknown", "accepted"}
  /\ reference = None
  /\ status' = [status EXCEPT ![m] = "cancelled"]
  /\ resolution' = [resolution EXCEPT ![m] = @ + 1]
  /\ UNCHANGED <<conv, route, next_sequence, snapshot, locked_by, locked_at,
                 attempts, provider_id, workerVars, providerVars>>

Resolve(m, expected, reference) ==
  /\ MessageFree(m)
  /\ expected = resolution[m]
  /\ status[m] = "delivery_unknown"
  /\ \/ /\ reference # None                       \* confirm_delivered
        /\ ReferenceAvailable(m, reference)
        /\ status' = [status EXCEPT ![m] = "delivered"]
        /\ provider_id' = [provider_id EXCEPT ![m] = reference]
     \/ /\ reference = None                       \* confirm_not_delivered
        /\ status' = [status EXCEPT ![m] = "cancelled"]
        /\ UNCHANGED provider_id
  /\ resolution' = [resolution EXCEPT ![m] = @ + 1]
  /\ UNCHANGED <<conv, route, next_sequence, snapshot, locked_by, locked_at,
                 attempts, workerVars, providerVars>>

-----------------------------------------------------------------------------
(* The worker: claim_once, then dispatch_claim.                            *)

\* Time passes until locked_at < stale_before.
ClaimAges(m) ==
  /\ status[m] = "dispatching"
  /\ locked_at[m] = "fresh"
  /\ locked_at' = [locked_at EXCEPT ![m] = "stale"]
  /\ UNCHANGED <<conv, route, next_sequence, status, snapshot, locked_by,
                 attempts, provider_id, resolution, workerVars, providerVars>>

\* Faulty variant: recovery forgotten.
StaleDispatchesIgnored == {}

\* recover_stale_dispatches: SKIP LOCKED leaves open dispatches alone.
StaleDispatches ==
  {m \in Commands : /\ status[m] = "dispatching"
                    /\ locked_at[m] = "stale"
                    /\ MessageFree(m)}

\* The heads claim_next may cancel before it stops: each one fails its fence
\* when it is the head of its conversation.
CancellableHeads(S) ==
  \A m \in S : /\ status[m] = "queued"
               /\ ~SenderFence(m, snapshot[m])
               /\ ConversationFree(ConvOf[m])
               /\ \A e \in Commands \ S : Earlier(e, m) => status[e] \notin Blocking

\* Faulty variant: a stale dispatch is retried.
SweptStatusRetries(S) ==
  [m \in Commands |-> CASE m \in StaleDispatches -> "queued"
                        [] m \in S               -> "cancelled"
                        [] OTHER                 -> status[m]]

\* The rows after recovery and cancellation, before a claim.
SweptStatus(S) ==
  [m \in Commands |-> CASE m \in StaleDispatches -> "delivery_unknown"
                        [] m \in S               -> "cancelled"
                        [] OTHER                 -> status[m]]
SweptLock(lock, null) ==
  [m \in Commands |-> IF m \in StaleDispatches THEN null ELSE lock[m]]

\* claim_next finds a head whose fence holds.
ClaimHead(w, S, head) ==
  /\ pc[w] = "idle"
  /\ CancellableHeads(S)
  /\ EligibleHead(head, S)
  /\ ConversationFree(ConvOf[head])
  /\ SenderFence(head, snapshot[head])
  /\ status' = [SweptStatus(S) EXCEPT ![head] = "dispatching"]
  /\ locked_by' = [SweptLock(locked_by, None) EXCEPT ![head] = w]
  /\ locked_at' = [SweptLock(locked_at, "null") EXCEPT ![head] = "fresh"]
  /\ attempts' = [attempts EXCEPT ![head] = @ + 1]
  /\ pc' = [pc EXCEPT ![w] = "claimed"]
  /\ job' = [job EXCEPT ![w] = head]
  /\ UNCHANGED <<conv, route, next_sequence, snapshot, provider_id, resolution,
                 providerVars>>

\* claim_next runs out of heads; what it recovered and cancelled commits.
ClaimNothing(w, S) ==
  /\ pc[w] = "idle"
  /\ CancellableHeads(S)
  /\ S \cup StaleDispatches # {}
  /\ \A m \in Commands : ~EligibleHead(m, S)
  /\ status' = SweptStatus(S)
  /\ locked_by' = SweptLock(locked_by, None)
  /\ locked_at' = SweptLock(locked_at, "null")
  /\ UNCHANGED <<conv, route, next_sequence, snapshot, attempts, provider_id,
                 resolution, workerVars, providerVars>>

\* The end of dispatch_claim's transaction: worker w forgets its claim.
Forget(w) ==
  /\ pc' = [pc EXCEPT ![w] = "idle"]
  /\ job' = [job EXCEPT ![w] = None]

\* A row leaves "dispatching" for the status to.
Settle(m, to) ==
  /\ status' = [status EXCEPT ![m] = to]
  /\ locked_by' = [locked_by EXCEPT ![m] = None]
  /\ locked_at' = [locked_at EXCEPT ![m] = "null"]

\* _lock_owned_dispatch
Owned(w, m) == status[m] = "dispatching" /\ locked_by[m] = w

\* dispatch_claim after another worker's recovery took the row away:
\* OutboundClaimOwnershipError, before any provider I/O.
ClaimLost(w) ==
  /\ pc[w] = "claimed"
  /\ ~Owned(w, job[w])
  /\ Forget(w)
  /\ UNCHANGED <<conv, route, next_sequence, rowVars, providerVars>>

\* revalidate_claim_for_dispatch locks message and conversation ...
Revalidate(w) ==
  /\ pc[w] = "claimed"
  /\ Owned(w, job[w])
  /\ ConversationFree(ConvOf[job[w]])
  /\ SenderFence(job[w], snapshot[job[w]])
  /\ pc' = [pc EXCEPT ![w] = "fenced"]
  /\ UNCHANGED <<conv, route, next_sequence, rowVars, job, providerVars>>

\* ... and cancels the claim when an epoch moved.
CancelStaleClaim(w) ==
  /\ pc[w] = "claimed"
  /\ Owned(w, job[w])
  /\ ConversationFree(ConvOf[job[w]])
  /\ ~SenderFence(job[w], snapshot[job[w]])
  /\ Settle(job[w], "cancelled")
  /\ Forget(w)
  /\ UNCHANGED <<conv, route, next_sequence, snapshot, attempts, provider_id,
                 resolution, providerVars>>

\* The route and connection rows are locked, everything the call needs is
\* there, and adapter.deliver starts.
StartCall(w) ==
  LET m == job[w] IN
  /\ pc[w] = "fenced"
  /\ RouteFree(RouteOf[ConvOf[m]])
  /\ RouteCurrent(m)
  /\ RouteOf[ConvOf[m]] \in AdapterRoutes
  /\ pc' = [pc EXCEPT ![w] = "calling"]
  /\ wire' = wire \cup {m}
  /\ calls' = [calls EXCEPT ![m] = @ + 1]
  /\ UNCHANGED <<conv, route, next_sequence, rowVars, job, sent>>

\* route_snapshot_changed, adapter_unavailable, or the follow-up task behind
\* the message lost its consent, epoch or opportunity.
CancelBeforeCall(w) ==
  LET m == job[w] IN
  /\ pc[w] = "fenced"
  /\ RouteFree(RouteOf[ConvOf[m]])
  /\ \/ ~RouteCurrent(m)
     \/ RouteOf[ConvOf[m]] \notin AdapterRoutes
     \/ m \in FollowUpCommands
  /\ Settle(m, "cancelled")
  /\ Forget(w)
  /\ UNCHANGED <<conv, route, next_sequence, snapshot, attempts, provider_id,
                 resolution, providerVars>>

\* The provider acts on a request, whether or not anybody still waits for it.
ProviderSends(m) ==
  /\ m \in wire
  /\ wire' = wire \ {m}
  /\ sent' = sent \cup {m}
  /\ UNCHANGED <<conv, route, next_sequence, rowVars, workerVars, calls>>

\* record_dispatch_outcome(ACCEPTED).  When an operator already gave this
\* provider id to another row of the route, the unique constraint refuses the
\* update and the transaction rolls back: the row stays "dispatching".
RecordAccepted(w) ==
  LET m == job[w] IN
  /\ pc[w] = "calling"
  /\ m \in sent
  /\ IF ReferenceAvailable(m, m)
       THEN /\ Settle(m, "accepted")
            /\ provider_id' = [provider_id EXCEPT ![m] = m]
       ELSE UNCHANGED <<status, locked_by, locked_at, provider_id>>
  /\ Forget(w)
  /\ UNCHANGED <<conv, route, next_sequence, snapshot, attempts, resolution,
                 providerVars>>

\* A definitive 4xx, or a local refusal before the request left.
RecordRejected(w) ==
  LET m == job[w] IN
  /\ pc[w] = "calling"
  /\ m \in wire
  /\ wire' = wire \ {m}
  /\ Settle(m, "failed")
  /\ Forget(w)
  /\ UNCHANGED <<conv, route, next_sequence, snapshot, attempts, provider_id,
                 resolution, sent, calls>>

\* Faulty variants: a timeout recorded as a failure, or under another name.
RecordUnknownAsFailed(w) ==
  /\ pc[w] = "calling"
  /\ Settle(job[w], "failed")
  /\ Forget(w)
  /\ UNCHANGED <<conv, route, next_sequence, snapshot, attempts, provider_id,
                 resolution, providerVars>>

RecordUnknownMisnamed(w) ==
  /\ pc[w] = "calling"
  /\ Settle(job[w], "unknown")
  /\ Forget(w)
  /\ UNCHANGED <<conv, route, next_sequence, snapshot, attempts, provider_id,
                 resolution, providerVars>>

\* A timeout, a transport error, a 5xx, an unreadable answer, an adapter bug.
RecordUnknown(w) ==
  /\ pc[w] = "calling"
  /\ Settle(job[w], "delivery_unknown")
  /\ Forget(w)
  /\ UNCHANGED <<conv, route, next_sequence, snapshot, attempts, provider_id,
                 resolution, providerVars>>

\* The worker process or its database connection dies: the open transaction
\* rolls back, its locks go, the claim in memory is lost, a new worker starts.
WorkerFails(w) ==
  /\ pc[w] # "idle"
  /\ Forget(w)
  /\ UNCHANGED <<conv, route, next_sequence, rowVars, providerVars>>

-----------------------------------------------------------------------------
Operate ==
  \/ \E m \in Commands, v \in 0..MaxControl, a \in Agents, av \in 0..MaxAutomation :
       EnqueueAutomation(m, v, a, av)
  \/ \E m \in Commands, admin \in Admins, v \in 0..MaxControl :
       RecordOperatorMessage(m, admin, v)
  \/ \E c \in Conversations, actor \in Admins, target \in Modes,
        requested \in Admins \cup {NoAdmin}, v \in 0..MaxControl :
       ControlTransition(c, actor, target, requested, v)
  \/ \E c \in Conversations, a \in Agents, av \in 0..MaxAutomation :
       AutomationAssign(c, a, av)
  \/ \E r \in Routes, active \in BOOLEAN : ConfigureRoute(r, active)
  \/ \E m \in Commands, v \in {0, 1}, reference \in Commands \cup {None} :
       Resolve(m, v, reference)

Claim(w) ==
  \E S \in SUBSET Commands :
    \/ \E head \in Commands : ClaimHead(w, S, head)
    \/ ClaimNothing(w, S)

Dispatch(w) ==
  \/ ClaimLost(w)
  \/ Revalidate(w)
  \/ CancelStaleClaim(w)
  \/ StartCall(w)
  \/ CancelBeforeCall(w)

RecordOutcome(w) ==
  \/ RecordAccepted(w)
  \/ RecordRejected(w)
  \/ RecordUnknown(w)

Next ==
  \/ Operate
  \/ \E w \in Workers : Claim(w) \/ Dispatch(w) \/ RecordOutcome(w) \/ WorkerFails(w)
  \/ \E m \in Commands : ClaimAges(m) \/ ProviderSends(m)

Spec == Init /\ [][Next]_vars

(* The worker loop polls forever, a provider call ends by its timeout and   *)
(* the clock moves; operators and the provider promise nothing.             *)
Fairness ==
  /\ WF_vars(\E w \in Workers : Claim(w))
  /\ \A w \in Workers : WF_vars(Dispatch(w)) /\ WF_vars(RecordOutcome(w))
  /\ \A m \in Commands : WF_vars(ClaimAges(m))

FairSpec == Spec /\ Fairness

-----------------------------------------------------------------------------
(* Safety.                                                                 *)

\* The provider is called at most once for a command, whatever crashes,
\* timeouts, recoveries, retries of enqueue and operator resolutions happen:
\* nothing leads from "dispatching" or "delivery_unknown" back to a claim.
AtMostOneCall == \A m \in Commands : calls[m] <= 1

\* As long as a worker waits for the provider, the conversation is still under
\* the control and acting-agent epochs the message was enqueued in and the
\* route is the one it was enqueued for: a takeover, handoff or route change
\* either cancelled the claim or waits for the call (dispatch_claim).
CallUnderCurrentEpoch ==
  \A w \in InCall : /\ SenderFence(job[w], snapshot[job[w]])
                    /\ RouteCurrent(job[w])

\* Strict order per conversation: when the provider was called for a message,
\* every message enqueued before it is settled, an uncertain delivery included.
DispatchedInOrder ==
  \A m, e \in Commands :
    calls[m] > 0 /\ Earlier(e, m) =>
      status[e] \notin {"queued", "dispatching", "delivery_unknown"}

\* What the outbox says about a message is what happened at the provider:
\* an accepted row carries the id of a message the provider sent, a failed
\* one was not and will not be sent, and unless an operator said so no row
\* is cancelled or left queued once the provider was called for it.
StatusIsHonest ==
  \A m \in Commands :
    /\ status[m] = "accepted" => m \in sent /\ provider_id[m] = m
    /\ status[m] = "failed" => m \notin sent \cup wire
    /\ status[m] \in {"none", "queued", "cancelled"} /\ resolution[m] = 0 =>
         calls[m] = 0

\* One provider reference belongs to one delivery of a route, although both
\* the provider's answers and operators' evidence write it.
ReferencesUnique ==
  \A m, e \in Commands :
    /\ m # e
    /\ RouteOf[ConvOf[m]] = RouteOf[ConvOf[e]]
    /\ provider_id[m] # None
    => provider_id[m] # provider_id[e]

\* A settled row never changes again, and an uncertain one is settled only by
\* an operator's resolution, exactly once.
SettledForEver(m) ==
  /\ status[m] \in {"accepted", "failed", "delivered", "read", "cancelled"}
       => status'[m] = status[m]
  /\ status[m] = "delivery_unknown" /\ status'[m] # status[m] =>
       /\ status'[m] \in {"delivered", "cancelled"}
       /\ resolution[m] = 0 /\ resolution'[m] = 1

OnlyOperatorsSettleUncertainty == [][\A x \in Commands : SettledForEver(x)]_vars

(* Liveness, under FairSpec.                                               *)

\* No message is stuck unseen.  A queued one leaves the queue, unless an earlier
\* delivery of its conversation waits for an operator's verdict; a claim whose
\* worker died becomes a settled or an uncertain delivery (claim_next polls,
\* recover_stale_dispatches).
MessagesSurface ==
  \A m \in Commands :
    /\ status[m] = "queued" ~>
         \/ status[m] # "queued"
         \/ \E e \in Commands : Earlier(e, m) /\ status[e] = "delivery_unknown"
    /\ status[m] = "dispatching" ~> status[m] # "dispatching"

-----------------------------------------------------------------------------
(* The outbox as its senders see it.                                       *)

\* What the row of m tells: a row still in the machine is pending, and what an
\* operator settled is that person's ruling.
Outcome(m) ==
  CASE status[m] = "none"                      -> "absent"
    [] status[m] \in {"queued", "dispatching"} -> "pending"
    [] status[m] = "delivery_unknown"          -> "uncertain"
    [] status[m] = "accepted"                  -> "sent"
    [] status[m] = "failed"                    -> "refused"
    [] status[m] = "cancelled"                 -> IF resolution[m] = 0 THEN "dropped"
                                                                      ELSE "denied"
    [] OTHER                                   -> "confirmed"

Lane == INSTANCE OutboundLane WITH
  Lanes <- Conversations,
  LaneOf <- ConvOf,
  tail <- next_sequence,
  position <- [m \in Commands |-> snapshot[m].sequence],
  outcome <- [m \in Commands |-> Outcome(m)],
  asked <- calls

\* The outbox with its workers, crashes, timeouts and operators implements the
\* ordered lane that asks the provider once and never guesses (enqueue,
\* claim_next, recover_stale_dispatches, dispatch_claim, resolve).
ImplementsLane == Lane!Spec
=============================================================================
