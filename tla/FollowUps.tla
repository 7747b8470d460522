----------------------------- MODULE FollowUps -----------------------------
(***************************************************************************)
(* Consent-gated commercial follow-ups: services/commercial/follow_ups.py, *)
(* follow_up_execution.py and consents.py, the authorization the           *)
(* dispatcher repeats before it calls the provider                         *)
(* (services/outbound_follow_up.py), workers/follow_ups.py and             *)
(* services/retention.py.                                                  *)
(*                                                                         *)
(* The module has one opportunity, one consent scope, the conversation the *)
(* follow-ups come from (Source) and the WhatsApp conversation that        *)
(* carries them (Delivery).  A database transaction is one step, except    *)
(* the dispatch transaction, which holds the consent scope, the task, the  *)
(* opportunity and both conversations across the provider call: every      *)
(* other transaction that needs one of them waits until calling is empty.  *)
(* The outbox itself is OutboundDelivery; here a task's message has only   *)
(* the states a follow-up can tell apart.                                  *)
(***************************************************************************)
EXTENDS ConversationControl, Integers, Sequences, FiniteSets

CONSTANTS
  Tasks,          \* idempotency keys of schedule, numbers: ids break ties
  Source,         \* the conversation the opportunity is linked to
  Delivery,       \* the principal's WhatsApp conversation
  Workers,        \* follow-up worker processes
  None,           \* SQL NULL
  Permissions,    \* Permissions[a]: what operator a may do for the agents
  Limits,         \* the settings an administrator may give a policy
  DayLength,      \* clock ticks in a day
  ZoneOffset,     \* local time minus UTC, in ticks
  LeaseTicks,     \* follow_up_execution_lease_seconds
  MaxNow,         \* bound on the clock
  MaxDue,         \* bound on how far ahead a task is scheduled
  MaxConsents,    \* bound on the consent records of the scope
  Takeovers,      \* the modes a control command chooses: only "automated"
                  \* and the version matter to a follow-up
  MaxChanges      \* bound on the commands of people in a behaviour

\* The CHECK constraints of commercial_automation_policies.
LimitsFit(l) ==
  /\ l.quiet = None \/ /\ l.quiet \in (0..DayLength - 1) \X (0..DayLength - 1)
                       /\ l.quiet[1] # l.quiet[2]
  /\ {l.interval, l.daily, l.attempts, l.pending} \subseteq Nat
  /\ l.enabled \in BOOLEAN
  /\ l.attempts > 0 /\ l.daily > 0 /\ l.pending > 0

ASSUME FollowUpAssumption ==
  /\ Tasks \subseteq Nat
  /\ IsFiniteSet(Tasks)
  /\ {Source, Delivery} \subseteq Conversations
  /\ None \notin Workers \cup Nat
  /\ Takeovers \subseteq Modes
  /\ Permissions \in [Admins -> SUBSET {"opportunities.manage",
                                        "follow_ups.manage",
                                        "follow_ups.review"}]
  /\ \A l \in Limits : LimitsFit(l)
  /\ {DayLength, LeaseTicks} \subseteq Nat \ {0}
  /\ ZoneOffset \in Int
  /\ {MaxNow, MaxDue, MaxConsents, MaxChanges} \subseteq Nat

VARIABLES
  now,       \* the clock of the database and its clients
  task,      \* follow_up_tasks
  events,    \* what follow_up_task_events says that somebody reads again
  policy,    \* commercial_automation_policies, one per agent
  consents,  \* consent_records of the scope, by occurred_at
  opp,       \* the opportunity
  claim,     \* the ClaimedFollowUp each worker holds in memory
  om,        \* the outbound message of each task
  calling,   \* tasks whose message is inside the provider call
  route,     \* the delivery route and its connection are active
  purged,    \* retention deleted the source conversation
  refused,   \* commands a table constraint rolled back
  changes    \* commands of people so far

vars == <<conv, now, task, events, policy, consents, opp, claim, om, calling,
          route, purged, refused, changes>>

\* FollowUpStatus; "none" before the task exists.
Statuses == {"none", "scheduled", "dispatch_queued", "in_progress",
             "completed", "cancelled", "review_required"}
\* The statuses that occupy the lane of a conversation.
Active == {"scheduled", "dispatch_queued", "in_progress", "review_required"}
\* The statuses in which a follow-up may still reach the customer.
Live == {"scheduled", "dispatch_queued", "in_progress"}

\* The columns of a task.  stamps: which of completed_at, cancelled_at and
\* review_required_at are not NULL.
NoTask ==
  [status |-> "none", version |-> 0, due |-> 0, created |-> 0,
   available |-> 0, attempts |-> 0, max_attempts |-> 1,
   control |-> 0, automation |-> 0, policy_version |-> 0,
   agent |-> RoutingAgent[Source], operator |-> NoAdmin,
   lease_owner |-> None, lease_expires |-> None,
   stamps |-> {}, outbound |-> FALSE, executed_consent |-> FALSE]

Task ==
  [status : Statuses, version : Nat, due : Nat, created : Nat, available : Nat,
   attempts : Nat, max_attempts : Nat, control : Nat, automation : Nat,
   policy_version : Nat, agent : Agents, operator : Admins \cup {NoAdmin},
   lease_owner : Workers \cup {None}, lease_expires : Nat \cup {None},
   stamps : SUBSET {"completed_at", "cancelled_at", "review_required_at"},
   outbound : BOOLEAN, executed_consent : BOOLEAN]

\* held: the dispatcher that claimed the message is alive.
NoMessage == [status |-> "none", control |-> 0, automation |-> 0,
              held |-> FALSE]
Definitive == {"accepted", "delivered"}
Undelivered == {"failed", "cancelled", "delivery_unknown"}
OutboundMessage ==
  [status : {"none", "queued", "dispatching"} \cup Definitive \cup Undelivered,
   control : Nat, automation : Nat, held : BOOLEAN]

NoClaim == [task |-> None, version |-> 0, expires |-> None, failed |-> FALSE]
ClaimedFollowUp ==
  [task : Tasks \cup {None}, version : Nat, expires : Nat \cup {None}, failed : BOOLEAN]

Init ==
  /\ ControlInit
  /\ now = 0
  /\ task = [t \in Tasks |-> NoTask]
  /\ events = [claims |-> {}, evidence |-> [t \in Tasks |-> 0]]
  /\ policy \in {[a \in Agents |-> [version |-> 1, limits |-> l]] : l \in Limits}
  /\ consents = <<"grant">>
  /\ opp = [agent |-> RoutingAgent[Source], operator |-> NoAdmin,
            open |-> TRUE, version |-> 0]
  /\ claim = [w \in Workers |-> NoClaim]
  /\ om = [t \in Tasks |-> NoMessage]
  /\ calling = {}
  /\ route = TRUE
  /\ purged = FALSE
  /\ refused = {}
  /\ changes = 0

-----------------------------------------------------------------------------
(* The tables.                                                             *)

\* The open dispatch transaction, if any, has released its locks.
Free == calling = {}

\* A command of a person; the behaviour has a bounded number of them.
Counted ==
  /\ changes < MaxChanges
  /\ changes' = changes + 1

\* The operator holds the permission the endpoint requires.
Commanded(actor, permission) ==
  /\ permission \in Permissions[actor]
  /\ Counted

\* lock_owned and _assert_owner: the caller works for the opportunity's agent
\* and is its operator, if it has one.
Owner(agent, actor) ==
  /\ opp.agent = agent
  /\ opp.operator \in {NoAdmin, actor}

\* The CHECK constraints of follow_up_tasks on a row.
StampOf(status) ==
  CASE status = "completed"       -> {"completed_at"}
    [] status = "cancelled"       -> {"cancelled_at"}
    [] status = "review_required" -> {"review_required_at"}
    [] OTHER                      -> {}

RowChecks(r) ==
  /\ r.attempts <= r.max_attempts
  /\ r.stamps = StampOf(r.status)
  /\ (r.lease_owner = None) = (r.lease_expires = None)
  /\ (r.status = "in_progress") = (r.lease_owner # None)

\* The event a command appends repeats the row's outbound_message_id, and
\* follow_up_task_events has each outbound message at most once.
EventFits(t) == task[t].outbound => events.evidence[t] = 0
WithEvent(ts) ==
  [events EXCEPT !.evidence =
     [t \in Tasks |-> IF t \in ts /\ task[t].outbound
                        THEN events.evidence[t] + 1 ELSE events.evidence[t]]]

\* A transaction that rewrites the rows of ts commits, or the flush fails and
\* the command, named kind, is rolled back as a whole.
Flushes(ts, rows) == \A t \in ts : RowChecks(rows[t]) /\ EventFits(t)
Refuse(kind) ==
  /\ refused' = refused \cup {kind}
  /\ UNCHANGED <<conv, now, task, events, policy, consents, opp, claim, om,
                 calling, route, purged>>

-----------------------------------------------------------------------------
(* Consent: ConsentService.                                                *)

\* consents is in the order of occurred_at, so effective() finds the last one.
\* No caller passes expires_at: a grant holds until it is revoked.
Consented == consents # <<>> /\ consents[Len(consents)] = "grant"

\* occurred_at is read before the command waits for the scope lock: a record
\* that another one overtook during the wait sorts before it.
Record(action, overtaken) ==
  LET n == Len(consents) IN
  /\ n < MaxConsents
  /\ IF overtaken /\ n > 0
       THEN consents' = SubSeq(consents, 1, n - 1) \o <<action, consents[n]>>
       ELSE consents' = Append(consents, action)

\* web_commercial: the visitor accepts follow-ups.
GrantConsent(overtaken) ==
  /\ Free
  /\ ~purged
  /\ Counted
  /\ Record("grant", overtaken)
  /\ UNCHANGED <<conv, now, task, events, policy, opp, claim, om, calling,
                 route, purged, refused>>

\* A row loses its lease and takes a new status.
Moved(r, to) ==
  [r EXCEPT !.status = to, !.version = @ + 1, !.lease_owner = None,
            !.lease_expires = None]

\* Faulty variant: claimed tasks keep running.
QuarantineSkipsClaimed ==
  [t \in Tasks |->
     CASE task[t].status = "scheduled" ->
            [Moved(task[t], "cancelled") EXCEPT !.stamps = @ \cup {"cancelled_at"}]
       [] task[t].status = "dispatch_queued" ->
            [Moved(task[t], "review_required") EXCEPT
               !.stamps = @ \cup {"review_required_at"}]
       [] OTHER -> task[t]]
\* _quarantine_revoked_scope: what has not started is cancelled, what may be
\* on its way is left to a person.
Quarantine ==
  [t \in Tasks |->
     CASE task[t].status = "scheduled" ->
            [Moved(task[t], "cancelled") EXCEPT !.stamps = @ \cup {"cancelled_at"}]
       [] task[t].status \in {"dispatch_queued", "in_progress"} ->
            [Moved(task[t], "review_required") EXCEPT
               !.stamps = @ \cup {"review_required_at"}]
       [] OTHER -> task[t]]

LiveTasks == {t \in Tasks : task[t].status \in Live}

\* Faulty variant: the quarantine does not wait for the scope lock.
RevokeUnlocked(overtaken) ==
  /\ ~purged
  /\ consents # <<>>
  /\ Record("revoke", overtaken)
  /\ task' = [t \in Tasks |-> IF t \in calling THEN task[t] ELSE Quarantine[t]]
  /\ UNCHANGED <<conv, now, events, policy, opp, claim, om, calling, route,
                 purged, refused>>
\* revoke_commercial_follow_up_consent
Revoke(overtaken) ==
  /\ Free
  /\ ~purged
  /\ consents # <<>>
  /\ IF Flushes(LiveTasks, Quarantine)
       THEN /\ Record("revoke", overtaken)
            /\ task' = Quarantine
            /\ events' = WithEvent(LiveTasks)
            /\ UNCHANGED <<conv, now, policy, opp, claim, om, calling, route,
                           purged, refused>>
       ELSE Refuse("revoke")

-----------------------------------------------------------------------------
(* FollowUpService: schedule, cancel, requeue.                             *)

\* _resolve_conversation and _task_conversation: the linked row still exists.
SourceAvailable == ~purged

\* _assert_opportunity_open
OpportunityOpen == opp.open

\* _assert_dispatchable_conversation
Dispatchable ==
  /\ conv[Source].control_mode = "automated"
  /\ conv[Source].automation_agent = opp.agent

\* A command on an existing key answers with the stored task.
Schedule(t, agent, actor, due) ==
  /\ Free
  /\ task[t].status = "none"
  /\ due \in now + 1..now + MaxDue
  /\ Owner(agent, actor)
  /\ OpportunityOpen
  /\ SourceAvailable
  /\ Dispatchable
  /\ Consented
  /\ Cardinality({u \in Tasks : /\ task[u].status \in Active
                                /\ task[u].agent = opp.agent})
       < policy[opp.agent].limits.pending
  /\ task' = [task EXCEPT ![t] =
       [status |-> "scheduled", version |-> 0, due |-> due, created |-> now,
        available |-> due, attempts |-> 0,
        max_attempts |-> policy[opp.agent].limits.attempts,
        control |-> conv[Source].control_version,
        automation |-> conv[Source].automation_version,
        policy_version |-> policy[opp.agent].version,
        agent |-> opp.agent, operator |-> opp.operator,
        lease_owner |-> None, lease_expires |-> None,
        stamps |-> {}, outbound |-> FALSE, executed_consent |-> FALSE]]
  /\ UNCHANGED <<conv, now, events, policy, consents, opp, claim, om, calling,
                 route, purged, refused>>

\* transition to one status, once its guards hold: the row and its event.
CommandOn(t, row, kind) ==
  IF Flushes({t}, [task EXCEPT ![t] = row])
    THEN /\ task' = [task EXCEPT ![t] = row]
         /\ events' = WithEvent({t})
         /\ UNCHANGED <<conv, now, policy, consents, opp, claim, om, calling,
                        route, purged, refused>>
    ELSE Refuse(kind)

\* transition to "cancelled": review_required_at is kept.
Cancel(t, agent, actor, expected, from) ==
  /\ Free
  /\ Owner(agent, actor)
  /\ expected = task[t].version
  /\ task[t].status \in from
  /\ CommandOn(t, [Moved(task[t], "cancelled") EXCEPT
                     !.stamps = @ \cup {"cancelled_at"}], "cancel")

\* _assert_delivery_route_available: exactly one active automated delivery
\* conversation of the acting agent, on an active route.
DeliveryAvailable(agent) ==
  /\ conv[Delivery].control_mode = "automated"
  /\ conv[Delivery].automation_agent = agent
  /\ route

\* transition to "scheduled": the task is authorized again under the current
\* epochs; attempts are kept.
Requeue(t, agent, actor, expected) ==
  LET p == policy[opp.agent] IN
  /\ Free
  /\ Owner(agent, actor)
  /\ expected = task[t].version
  /\ task[t].status = "review_required"
  /\ OpportunityOpen
  /\ SourceAvailable
  /\ Dispatchable
  /\ Consented
  /\ p.limits.enabled
  /\ DeliveryAvailable(opp.agent)
  /\ CommandOn(t, [Moved(task[t], "scheduled") EXCEPT
                     !.stamps = @ \ {"review_required_at"},
                     !.control = conv[Source].control_version,
                     !.automation = conv[Source].automation_version,
                     !.policy_version = p.version,
                     !.agent = opp.agent,
                     !.operator = opp.operator,
                     !.available = IF task[t].due > now
                                     THEN task[t].due ELSE now], "requeue")

-----------------------------------------------------------------------------
(* The policy, the opportunity, the conversations and the route.           *)

\* configure_policy; the limits are validated by FollowUpAssumption.
ConfigurePolicy(agent, expected, limits) ==
  /\ expected = policy[agent].version
  /\ policy' = [policy EXCEPT ![agent] = [version |-> @.version + 1,
                                          limits |-> limits]]
  /\ UNCHANGED <<conv, now, task, events, consents, opp, claim, om, calling,
                 route, purged, refused>>

ReassignedTasks ==
  [t \in Tasks |->
     IF t \in LiveTasks
       THEN [Moved(task[t], "review_required") EXCEPT
               !.stamps = @ \cup {"review_required_at"}]
       ELSE task[t]]

\* OpportunityService.reassign takes every live follow-up into review.
Reassign(actor, agent, to, operator, expected) ==
  /\ Free
  /\ Owner(agent, actor)
  /\ expected = opp.version
  /\ <<to, operator>> # <<opp.agent, opp.operator>>
  /\ IF Flushes(LiveTasks, ReassignedTasks)
       THEN /\ opp' = [opp EXCEPT !.agent = to, !.operator = operator,
                                  !.version = @ + 1]
            /\ task' = ReassignedTasks
            /\ events' = WithEvent(LiveTasks)
            /\ UNCHANGED <<conv, now, policy, consents, claim, om, calling,
                           route, purged, refused>>
       ELSE Refuse("reassign")

\* OpportunityService.transition_stage to "won" or "lost".
CloseOpportunity(actor, agent, expected) ==
  /\ Free
  /\ Owner(agent, actor)
  /\ expected = opp.version
  /\ opp.open
  /\ opp' = [opp EXCEPT !.open = FALSE, !.version = @ + 1]
  /\ UNCHANGED <<conv, now, task, events, policy, consents, claim, om, calling,
                 route, purged, refused>>

\* Control and acting-agent commands wait for the conversation row.
ControlChanges(c, actor) ==
  /\ Free
  /\ ~(c = Source /\ purged)
  /\ Counted
  /\ \/ \E target \in Takeovers :
          Transition(c, actor, target, NoAdmin, conv[c].control_version)
     \/ \E agent \in Agents : Assign(c, agent, conv[c].automation_version)
  /\ UNCHANGED <<now, task, events, policy, consents, opp, claim, om, calling,
                 route, purged, refused>>

\* An administrator switches the delivery route or its connection; the
\* dispatch transaction holds both rows.
SwitchRoute ==
  /\ Free
  /\ Counted
  /\ route' = ~route
  /\ UNCHANGED <<conv, now, task, events, policy, consents, opp, claim, om,
                 calling, purged, refused>>

Tick ==
  /\ now < MaxNow
  /\ now' = now + 1
  /\ UNCHANGED <<conv, task, events, policy, consents, opp, claim, om, calling,
                 route, purged, refused, changes>>

-----------------------------------------------------------------------------
(* FollowUpExecutionService: when a task may be claimed.                   *)

LocalTime(at) == (at + ZoneOffset) % DayLength
\* Faulty variant: quiet hours that wrap past midnight end the same day.
QuietHoursEndSameDay(limits, at) ==
  LET start == limits.quiet[1]
      end == limits.quiet[2]
      local == LocalTime(at)
      midnight == at - local IN
  CASE limits.quiet = None -> None
    [] limits.quiet # None /\ start < end /\ local \in start..end - 1 -> midnight + end
    [] limits.quiet # None /\ start > end /\ local < end -> midnight + end
    [] OTHER -> None
\* _quiet_hours_end: None outside quiet hours.
QuietHoursEnd(limits, at) ==
  LET start == limits.quiet[1]
      end == limits.quiet[2]
      local == LocalTime(at)
      midnight == at - local IN
  CASE limits.quiet = None -> None
    [] limits.quiet # None /\ start < end /\ local \in start..end - 1 -> midnight + end
    [] limits.quiet # None /\ start > end /\ local >= start -> midnight + DayLength + end
    [] limits.quiet # None /\ start > end /\ local < end -> midnight + end
    [] OTHER -> None

\* _local_day_bounds
DayStart(at) == at - LocalTime(at)

\* The claims of the lane (every task has the same fifo_key) and those of an
\* agent on the local day of at.
LaneClaims == {e[3] : e \in events.claims}
ClaimsToday(agent, at) ==
  {e \in events.claims : e[2] = agent /\ DayStart(e[3]) = DayStart(at)}

\* _deferred_until: None when the task may run now.
DeferredUntil(agent, limits) ==
  LET quiet == QuietHoursEnd(limits, now)
      late == {c \in LaneClaims : \A d \in LaneClaims : d <= c}
      spaced == {c \in late : c + limits.interval > now} IN
  CASE quiet # None -> quiet
    [] quiet = None /\ spaced # {} -> (CHOOSE c \in spaced : TRUE) + limits.interval
    [] /\ quiet = None /\ spaced = {}
       /\ Cardinality(ClaimsToday(agent, now)) >= limits.daily ->
         DayStart(now) + DayLength
    [] OTHER -> None

\* The order of a lane: due_at, created_at, id.
Before(tab, u, t) ==
  \/ tab[u].due < tab[t].due
  \/ tab[u].due = tab[t].due /\ tab[u].created < tab[t].created
  \/ tab[u].due = tab[t].due /\ tab[u].created = tab[t].created /\ u < t

\* Faulty variant: a task under review does not hold back the lane.
HeadsPassReview(tab) ==
  {t \in Tasks : /\ tab[t].status = "scheduled"
                 /\ tab[t].due <= now
                 /\ tab[t].available <= now
                 /\ \A u \in Tasks : tab[u].status \in Live => ~Before(tab, u, t)}
\* _eligible_head_statement; one lane has at most one head.
Heads(tab) ==
  {t \in Tasks : /\ tab[t].status = "scheduled"
                 /\ tab[t].due <= now
                 /\ tab[t].available <= now
                 /\ \A u \in Tasks : tab[u].status \in Active => ~Before(tab, u, t)}

\* _policy_failure
PolicyAllows(r) ==
  /\ policy[r.agent].version = r.policy_version
  /\ policy[r.agent].limits.enabled

\* Faulty variant: the lease survives the move.
ToReviewKeepsLease(r) ==
  [r EXCEPT !.status = "review_required", !.version = @ + 1,
            !.stamps = @ \cup {"review_required_at"}]
\* _move_to_review; its event names no outbound message.
ToReview(r) ==
  [r EXCEPT !.status = "review_required", !.version = @ + 1,
            !.lease_owner = None, !.lease_expires = None,
            !.stamps = @ \cup {"review_required_at"}]

\* claim_next does not claim the head r: it takes it out of the way, into
\* review or (_defer) to a later time.  Either way r still holds its lane,
\* and the loop finds no other head in it.
Sidelined(r) ==
  LET limits == policy[r.agent].limits
      until == DeferredUntil(r.agent, limits) IN
  IF PolicyAllows(r) /\ until # None
    THEN [r EXCEPT !.available = until, !.version = @ + 1]
    ELSE ToReview(r)

Claimable(r) ==
  LET limits == policy[r.agent].limits IN
  /\ PolicyAllows(r)
  /\ DeferredUntil(r.agent, limits) = None
  /\ r.attempts < r.max_attempts
  /\ r.attempts < limits.attempts

-----------------------------------------------------------------------------
(* FollowUpExecutionRunner.run_once: one transaction that recovers, then   *)
(* reconciles or claims; a second one that enqueues the claim.             *)

\* Faulty variant: nobody recovers expired claims.
RecoveredNothing == task
\* recover_expired_leases: how far the claim got is unknown.
Recovered ==
  [t \in Tasks |->
     IF task[t].status = "in_progress" /\ task[t].lease_expires <= now
       THEN ToReview(task[t]) ELSE task[t]]

\* Faulty variant: a dispatch nobody can vouch for counts as done.
ReconciledUnknown(t) ==
  IF om[t].status \in Definitive \cup {"delivery_unknown"}
    THEN [task[t] EXCEPT !.status = "completed", !.version = @ + 1,
                         !.stamps = @ \cup {"completed_at"}]
    ELSE ToReview(task[t])
\* reconcile_next: completed needs a delivery and the consent it ran under.
Reconciled(t) ==
  IF om[t].status \in Definitive /\ task[t].executed_consent
    THEN [task[t] EXCEPT !.status = "completed", !.version = @ + 1,
                         !.stamps = @ \cup {"completed_at"}]
    ELSE ToReview(task[t])

\* Faulty variant: only deliveries are reconciled.
ReconcilableDelivered ==
  {t \in Tasks : task[t].status = "dispatch_queued" /\ om[t].status \in Definitive}
Reconcilable ==
  {t \in Tasks : /\ task[t].status = "dispatch_queued"
                 /\ om[t].status \in Definitive \cup Undelivered}

RunReconcile(w, t) ==
  /\ claim[w] = NoClaim
  /\ Free
  /\ t \in Reconcilable
  /\ task' = [Recovered EXCEPT ![t] = Reconciled(t)]
  /\ UNCHANGED <<conv, now, events, policy, consents, opp, claim, om, calling,
                 route, purged, refused, changes>>

\* claim_next; a claim is only modelled while its lease can still expire.
RunClaim(w) ==
  LET rows == Recovered
      heads == Heads(rows) IN
  /\ claim[w] = NoClaim
  /\ Free
  /\ Reconcilable = {}
  /\ \/ /\ heads = {}
        /\ task' = rows
        /\ UNCHANGED <<events, claim>>
     \/ \E t \in heads :
          /\ ~Claimable(rows[t])
          /\ task' = [rows EXCEPT ![t] = Sidelined(rows[t])]
          /\ UNCHANGED <<events, claim>>
     \/ \E t \in heads :
          /\ Claimable(rows[t])
          /\ now + LeaseTicks <= MaxNow
          /\ task' = [rows EXCEPT ![t] =
               [rows[t] EXCEPT !.status = "in_progress",
                               !.version = @ + 1,
                               !.attempts = @ + 1,
                               !.lease_owner = w,
                               !.lease_expires = now + LeaseTicks]]
          /\ events' = [events EXCEPT !.claims =
               @ \cup {<<t, rows[t].agent, now, rows[t].attempts + 1>>}]
          /\ claim' = [claim EXCEPT ![w] =
               [task |-> t, version |-> rows[t].version + 1,
                expires |-> now + LeaseTicks, failed |-> FALSE]]
  /\ UNCHANGED <<conv, now, policy, consents, opp, om, calling, route, purged,
                 refused, changes>>

\* _lock_owned_claim
Owns(w) ==
  LET r == task[claim[w].task] IN
  /\ r.status = "in_progress"
  /\ r.version = claim[w].version
  /\ r.lease_owner = w
  /\ r.lease_expires = claim[w].expires

\* The source conversation still has the epochs the task was authorized under.
SourceCurrent(r) ==
  /\ conv[Source].control_mode = "automated"
  /\ conv[Source].control_version = r.control
  /\ conv[Source].automation_agent = r.agent
  /\ conv[Source].automation_version = r.automation

\* _resolve_delivery_conversation: the worker looks the conversation up again
\* and locks it before it reads the route and the connection.
DeliveryResolved(r) ==
  /\ conv[Delivery].control_mode = "automated"
  /\ conv[Delivery].automation_agent = r.agent
  /\ route

\* _assert_execution_allowed
ExecutionAllowed(r) ==
  /\ PolicyAllows(r)
  /\ opp.agent = r.agent
  /\ opp.operator = r.operator
  /\ opp.open
  /\ SourceCurrent(r)
  /\ Consented

\* OutboundDeliveryService.enqueue with the task's own key: a second call
\* finds the first row.
Enqueued(t) ==
  IF om[t].status # "none" THEN om
  ELSE [om EXCEPT ![t] = [status |-> "queued",
                          control |-> conv[Delivery].control_version,
                          automation |-> conv[Delivery].automation_version,
                          held |-> FALSE]]

Forget(w) == claim' = [claim EXCEPT ![w] = NoClaim]

\* enqueue_claim
EnqueueClaim(w) ==
  LET t == claim[w].task
      r == task[t] IN
  /\ t # None
  /\ ~claim[w].failed
  /\ Free
  /\ Forget(w)
  /\ IF Owns(w) /\ r.lease_expires > now /\ ExecutionAllowed(r)
          /\ DeliveryResolved(r)
       THEN /\ om' = Enqueued(t)
            /\ task' = [task EXCEPT ![t] =
                 [Moved(r, "dispatch_queued") EXCEPT !.outbound = TRUE]]
            /\ events' = [events EXCEPT !.evidence[t] = @ + 1]
       ELSE /\ task' = IF Owns(w) THEN [task EXCEPT ![t] = ToReview(r)] ELSE task
            /\ UNCHANGED <<om, events>>
  /\ UNCHANGED <<conv, now, policy, consents, opp, calling, route, purged,
                 refused, changes>>

\* The second transaction raises and is rolled back ...
EnqueueFails(w) ==
  /\ claim[w].task # None
  /\ ~claim[w].failed
  /\ claim' = [claim EXCEPT ![w].failed = TRUE]
  /\ UNCHANGED <<conv, now, task, events, policy, consents, opp, om, calling,
                 route, purged, refused, changes>>

\* Faulty variant: the claim is not looked up again.
MarkClaimErrorUnfenced(w) ==
  LET t == claim[w].task IN
  /\ claim[w].failed
  /\ Free
  /\ task' = [task EXCEPT ![t] = ToReview([task[t] EXCEPT !.stamps = {}])]
  /\ Forget(w)
  /\ UNCHANGED <<conv, now, events, policy, consents, opp, om, calling, route,
                 purged, refused, changes>>
\* ... and mark_claim_error_for_review fences what it may have left undone.
MarkClaimError(w) ==
  LET t == claim[w].task IN
  /\ claim[w].failed
  /\ Free
  /\ task' = IF Owns(w) THEN [task EXCEPT ![t] = ToReview(task[t])] ELSE task
  /\ Forget(w)
  /\ UNCHANGED <<conv, now, events, policy, consents, opp, om, calling, route,
                 purged, refused, changes>>

\* The process dies, or run_once is cancelled, after the claim committed.
WorkerDies(w) ==
  /\ claim[w].task # None
  /\ Forget(w)
  /\ UNCHANGED <<conv, now, task, events, policy, consents, opp, om, calling,
                 route, purged, refused, changes>>

-----------------------------------------------------------------------------
(* The outbox, as far as a follow-up sees it.                              *)

Message(t, from, to) ==
  /\ om[t].status = from
  /\ om' = [om EXCEPT ![t].status = to, ![t].held = (to = "dispatching")]

MessageFence(t) ==
  /\ conv[Delivery].control_mode = "automated"
  /\ conv[Delivery].control_version = om[t].control
  /\ conv[Delivery].automation_agent = task[t].agent
  /\ conv[Delivery].automation_version = om[t].automation

\* Faulty variant: a fenced message gets a status nobody knows.
ClaimMessageMisnamed(t) ==
  /\ Free
  /\ Message(t, "queued", IF MessageFence(t) THEN "dispatching" ELSE "blocked")
  /\ UNCHANGED <<conv, now, task, events, policy, consents, opp, claim, calling,
                 route, purged, refused, changes>>
\* OutboundDeliveryService.claim_next
ClaimMessage(t) ==
  /\ Free
  /\ Message(t, "queued", IF MessageFence(t) THEN "dispatching" ELSE "cancelled")
  /\ UNCHANGED <<conv, now, task, events, policy, consents, opp, claim, calling,
                 route, purged, refused, changes>>

\* _assert_task_and_target: the epochs and the owner.
TaskAndTarget(t) ==
  /\ task[t].status \in {"dispatch_queued", "in_progress"}
  /\ SourceCurrent(task[t])
  /\ opp.agent = task[t].agent
  /\ opp.open

\* revalidate: the task, its owner and the consent as they are when the
\* provider is about to be called.
DispatchAuthorized(t) == TaskAndTarget(t) /\ Consented

StartDispatch(t) ==
  /\ Free
  /\ om[t].held
  /\ MessageFence(t)
  /\ route
  /\ DispatchAuthorized(t)
  /\ calling' = calling \cup {t}
  /\ UNCHANGED <<conv, now, task, events, policy, consents, opp, claim, om,
                 route, purged, refused, changes>>

BlockDispatch(t) ==
  /\ Free
  /\ om[t].held
  /\ ~(MessageFence(t) /\ route /\ DispatchAuthorized(t))
  /\ Message(t, "dispatching", "cancelled")
  /\ UNCHANGED <<conv, now, task, events, policy, consents, opp, claim, calling,
                 route, purged, refused, changes>>

\* The outcome and the consent the dispatch ran under commit together.
EndDispatch(t, outcome) ==
  /\ t \in calling
  /\ Message(t, "dispatching", outcome)
  /\ task' = [task EXCEPT ![t].executed_consent = TRUE]
  /\ calling' = calling \ {t}
  /\ UNCHANGED <<conv, now, events, policy, consents, opp, claim, route, purged,
                 refused, changes>>

\* The dispatcher dies before or inside the call: its transaction is rolled
\* back ...
DispatcherDies(t) ==
  /\ om[t].held
  /\ om' = [om EXCEPT ![t].held = FALSE]
  /\ calling' = calling \ {t}
  /\ UNCHANGED <<conv, now, task, events, policy, consents, opp, claim, route,
                 purged, refused, changes>>

\* ... and recover_stale_dispatches finds the message later.
RecoverDispatch(t) ==
  /\ t \notin calling
  /\ Message(t, "dispatching", "delivery_unknown")
  /\ UNCHANGED <<conv, now, task, events, policy, consents, opp, claim, calling,
                 route, purged, refused, changes>>

\* OutboundDeliveryResolutionService: an operator knows what happened.
ResolveDelivery(t, outcome) ==
  /\ Counted
  /\ Message(t, "delivery_unknown", outcome)
  /\ UNCHANGED <<conv, now, task, events, policy, consents, opp, claim, calling,
                 route, purged, refused>>

-----------------------------------------------------------------------------
(* services/retention.py                                                   *)

\* _evidence_is_uncertain
Uncertain(t) ==
  \/ om[t].status \in {"dispatching", "delivery_unknown"}
  \/ /\ task[t].status = "completed"
     /\ ~(task[t].executed_consent /\ task[t].outbound)

Retained ==
  {t \in Tasks : \/ task[t].status \in Active
                 \/ task[t].status \in {"completed", "cancelled"} /\ Uncertain(t)}

\* _move_to_retention_review
RetentionReview ==
  [t \in Tasks |->
     IF t \in Retained /\ task[t].status # "review_required"
       THEN [Moved(task[t], "review_required") EXCEPT
               !.stamps = {"review_required_at"}]
       ELSE task[t]]

\* purge_expired_conversations reaches the source conversation: it waits for
\* a person while a follow-up is undecided, and is deleted otherwise.
Purge ==
  LET moved == {t \in Retained : task[t].status # "review_required"} IN
  /\ Free
  /\ ~purged
  /\ Counted
  /\ IF Flushes(moved, RetentionReview)
       THEN /\ task' = RetentionReview
            /\ events' = WithEvent(moved)
            /\ purged' = (Retained = {})
            /\ UNCHANGED <<conv, now, policy, consents, opp, claim, om, calling,
                           route, refused>>
       ELSE Refuse("retention")

-----------------------------------------------------------------------------
(* The endpoints of the panel: require_agent_permission, then the service. *)

\* POST .../consent-revocations
RevokeFollowUpConsent(actor, overtaken) ==
  /\ Commanded(actor, "opportunities.manage")
  /\ Revoke(overtaken)

\* POST .../follow-ups
CreateFollowUp(t, agent, actor, due) ==
  /\ Commanded(actor, "follow_ups.manage")
  /\ Schedule(t, agent, actor, due)

\* PUT .../automation-policy
UpdateAutomationPolicy(actor, agent, expected, limits) ==
  /\ Commanded(actor, "follow_ups.manage")
  /\ ConfigurePolicy(agent, expected, limits)

\* POST .../reassignments: the new operator, if any, can manage the new agent.
ReassignOpportunity(actor, agent, to, operator, expected) ==
  /\ Commanded(actor, "opportunities.manage")
  /\ operator # NoAdmin => "opportunities.manage" \in Permissions[operator]
  /\ Reassign(actor, agent, to, operator, expected)

\* POST .../stage-transitions
TransitionOpportunity(actor, agent, expected) ==
  /\ Commanded(actor, "opportunities.manage")
  /\ CloseOpportunity(actor, agent, expected)

\* POST .../cancel
CancelFollowUp(t, agent, actor, expected) ==
  /\ Commanded(actor, "follow_ups.manage")
  /\ Cancel(t, agent, actor, expected, {"scheduled", "review_required"})

\* POST .../requeue and .../review-resolution
ResolveReview(t, agent, actor, expected, resolution) ==
  /\ Commanded(actor, "follow_ups.review")
  /\ \/ resolution = "requeue" /\ Requeue(t, agent, actor, expected)
     \/ /\ resolution = "cancel"
        /\ Cancel(t, agent, actor, expected, {"review_required"})

-----------------------------------------------------------------------------

Operate ==
  \/ \E actor \in Admins, agent \in Agents :
       \/ \E t \in Tasks :
            \/ \E due \in 1..MaxNow + MaxDue : CreateFollowUp(t, agent, actor, due)
            \/ CancelFollowUp(t, agent, actor, task[t].version)
            \/ \E resolution \in {"requeue", "cancel"} :
                 ResolveReview(t, agent, actor, task[t].version, resolution)
       \/ \E limits \in Limits :
            UpdateAutomationPolicy(actor, agent, policy[agent].version, limits)
       \/ \E to \in Agents, operator \in Admins \cup {NoAdmin} :
            ReassignOpportunity(actor, agent, to, operator, opp.version)
       \/ TransitionOpportunity(actor, agent, opp.version)
  \/ \E actor \in Admins, overtaken \in BOOLEAN : RevokeFollowUpConsent(actor, overtaken)
  \/ \E actor \in Admins, c \in {Source, Delivery} : ControlChanges(c, actor)
  \/ \E overtaken \in BOOLEAN : GrantConsent(overtaken)
  \/ SwitchRoute
  \/ \E t \in Tasks, outcome \in {"delivered", "cancelled"} :
       ResolveDelivery(t, outcome)
  \/ Purge

RunOnce(w) == RunClaim(w) \/ \E t \in Tasks : RunReconcile(w, t)

WorkerStep(w) ==
  \/ RunOnce(w)
  \/ EnqueueClaim(w)
  \/ EnqueueFails(w)
  \/ MarkClaimError(w)
  \/ WorkerDies(w)

OutboxStep(t) ==
  \/ ClaimMessage(t)
  \/ StartDispatch(t)
  \/ BlockDispatch(t)
  \/ \E outcome \in {"accepted", "failed", "delivery_unknown"} :
       EndDispatch(t, outcome)
  \/ RecoverDispatch(t)

Next ==
  \/ Operate
  \/ \E w \in Workers : WorkerStep(w)
  \/ \E t \in Tasks : OutboxStep(t) \/ DispatcherDies(t)
  \/ Tick

Spec == Init /\ [][Next]_vars

\* The worker and the dispatcher poll for ever, and time passes.
Fairness ==
  /\ \A w \in Workers :
       WF_vars(RunOnce(w) \/ EnqueueClaim(w) \/ MarkClaimError(w))
  /\ \A t \in Tasks : WF_vars(OutboxStep(t))
  /\ WF_vars(Tick)

FairSpec == Spec /\ Fairness

-----------------------------------------------------------------------------
(* Properties.                                                             *)

\* Rows have the shapes of their tables.  Whoever writes a task (operators, four
\* worker transactions, reassignment, revocation, retention), it satisfies the
\* CHECK constraints and one event at most names its outbound message: no
\* transaction of a worker can fail at the flush.
TypeOK ==
  /\ conv \in [Conversations -> Conversation]
  /\ now \in 0..MaxNow
  /\ task \in [Tasks -> Task]
  /\ \A t \in Tasks : RowChecks(task[t]) /\ events.evidence[t] <= 1
  /\ events \in [claims : SUBSET (Tasks \X Agents \X (0..MaxNow) \X Nat),
                 evidence : [Tasks -> Nat]]
  /\ policy \in [Agents -> [version : Nat, limits : Limits]]
  /\ consents \in Seq({"grant", "revoke"})
  /\ opp \in [agent : Agents, operator : Admins \cup {NoAdmin}, open : BOOLEAN,
              version : Nat]
  /\ claim \in [Workers -> ClaimedFollowUp]
  /\ om \in [Tasks -> OutboundMessage]
  /\ calling \subseteq Tasks
  /\ {route, purged} \subseteq BOOLEAN
  /\ refused \subseteq {"cancel", "requeue", "revoke", "reassign", "retention"}
  /\ changes \in 0..MaxChanges

\* Consent governs follow-ups.  Once the effective record of the scope is a
\* revocation, no follow-up of the scope is waiting, claimed or in the outbox:
\* schedule, requeue, the worker and the quarantine agree whatever the order in
\* which they commit.  And throughout a provider call the consent, the
\* conversation's epochs, the owner of the opportunity and the state of the task
\* are those the call was authorized under: revalidate holds their rows.
ConsentGoverns ==
  /\ consents # <<>> /\ ~Consented => LiveTasks = {}
  /\ \A t \in calling : DispatchAuthorized(t) /\ MessageFence(t)

\* A follow-up of a conversation is attempted only when every earlier one is
\* over: a task in review holds the lane until somebody decides it.
LaneInOrder ==
  \A t, u \in Tasks :
    (/\ task[t].attempts > 0
     /\ task[u].status # "none"
     /\ Before(task, u, t))
    => task[u].status \in {"completed", "cancelled"}

\* A follow-up that is over is over for good and for a reason: a completed one
\* was sent, under a consent on record, and neither a late worker, nor a
\* reconciliation, nor retention reopens or rewrites what was decided.
OverForGood ==
  /\ [](\A t \in Tasks : task[t].status = "completed" =>
         om[t].status \in Definitive /\ task[t].executed_consent)
  /\ [][\A t \in Tasks : task[t].status \in {"completed", "cancelled"} =>
          task'[t].status = task[t].status]_vars

\* The local hours a policy keeps quiet: from start, round the clock, to end.
QuietHours(limits) ==
  IF limits.quiet = None THEN {}
  ELSE {(limits.quiet[1] + k) % DayLength :
          k \in 0..(limits.quiet[2] - limits.quiet[1] - 1) % DayLength}

\* A claim happens outside quiet hours, the policy's interval after the last
\* claim of the lane, and within the day's allowance of the agent.
ClaimsWithinLimits ==
  [][\A e \in events'.claims \ events.claims :
       LET limits == policy[e[2]].limits IN
       /\ LocalTime(now) \notin QuietHours(limits)
       /\ \A c \in LaneClaims : now - c >= limits.interval
       /\ Cardinality({d \in events'.claims :
            d[2] = e[2] /\ DayStart(d[3]) = DayStart(now)}) <= limits.daily]_vars

\* Nothing is left half done: a claim does not outlive the worker that took it
\* (it is enqueued, or somebody is asked to look at it), and what was handed to
\* the outbox comes back as a result (recover_expired_leases, reconcile_next).
EveryTaskSettles ==
  \A t \in Tasks :
    /\ task[t].status = "in_progress" ~> task[t].status # "in_progress"
    /\ task[t].status = "dispatch_queued" ~> task[t].status # "dispatch_queued"

\* docs/architecture/human-led-omnichannel-sales.md: "Revoked consent stops
\* future follow-up".  A revocation an operator is entitled to takes effect.
RevocationTakesEffect == "revoke" \notin refused
=============================================================================
