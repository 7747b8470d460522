------------------------------ MODULE Commercial ------------------------------
(***************************************************************************)
(* The commercial records operators work on: opportunities with their      *)
(* stage and ownership events, quote requests with their issued versions,  *)
(* and meetings with their proposals, slots and events                     *)
(* (services/commercial/opportunities.py, quotes.py, meetings.py).         *)
(*                                                                         *)
(* A command names an idempotency key and the version it was decided on.   *)
(* A step is the transaction of one command, which locks the opportunity   *)
(* first.  Meeting commands take three steps: _command_context loads the   *)
(* meeting, waits for that lock, whose SELECT does not refresh the copy    *)
(* already in the session, and reads the sender's grant; the commit comes  *)
(* later.  The lock is held over the last two, the grant is not.           *)
(***************************************************************************)
EXTENDS Integers, Sequences, FiniteSets

CONSTANTS
  Agents, Admins, Conversations,
  Opportunities,  \* each stands for one (creating agent, creation key)
  Creator,        \* Opportunities -> Agents
  Requests,       \* quote requests, each one (opportunity, key)
  Meetings,       \* meetings, each one (agent, key)
  RoutingAgent,   \* Conversations -> Agents: ChatConversation.agent_id
  References,     \* external references of the quoting authority
  Targets,        \* the stages operators move an opportunity to
  None,
  MaxWork         \* bound of the work of a behaviour

VARIABLES
  opp, stages, owners, links,   \* rows and events of the opportunities
  request, quotes,              \* quote requests and their versions
  meeting, events,              \* meetings and their events
  grants,                       \* active AdminAgentGrants
  pending                       \* per admin, a meeting command before its commit

oppVars == <<opp, stages, owners, links>>
quoteVars == <<request, quotes>>
meetingVars == <<meeting, events, pending>>
vars == <<opp, stages, owners, links, request, quotes, meeting, events,
          grants, pending>>

Stages == {"new", "qualified", "proposal_requested", "proposal_preparing",
           "proposal_sent", "negotiation", "meeting_scheduled", "won",
           "lost", "paused"}
Terminal == {"won", "lost"}
Statuses == {"requested", "slots_proposed", "awaiting_response",
             "slot_selected", "calendar_pending", "scheduled",
             "reschedule_requested", "cancelled", "review_required"}

Operations == {"propose", "await", "select", "reschedule", "cancel",
               "review", "schedule"}
QuoteStatuses == {"unavailable", "review_required", "issued", "cancelled"}

\* The rows of the tables, their events, and a meeting command in flight.
Opportunity == [stage : Stages, agent : Agents, operator : Admins \cup {None},
                version : Nat, closed : BOOLEAN]
StageEvents == [version : Nat, key : Opportunities \cup (Meetings \cup {None}) \X Nat,
                from : Stages \cup {None}, to : Stages, agent : Agents]
OwnershipEvents == [version : Nat, key : Opportunities \cup Nat,
                    fromAgent : Agents \cup {None}, fromOperator : Admins \cup {None},
                    agent : Agents, operator : Admins \cup {None}]
Link == [conversation : Conversations, key : Opportunities \cup Nat, agent : Agents]
QuoteRequest == [opportunity : Opportunities, status : QuoteStatuses, version : Nat,
                 failure : BOOLEAN]
QuoteVersion == [version : Nat, key : Nat, reference : References]
Meeting == [opportunity : Opportunities, status : Statuses, version : Nat,
            proposal : Nat, slot : Nat]
MeetingEvents == [version : Nat, key : Meetings \cup Nat, from : Statuses \cup {None},
                  to : Statuses, proposal : Nat, slot : Nat, agent : Agents,
                  operator : Admins \cup {None}, oppVersion : Nat]
MeetingCommand == [agent : Agents, meeting : Meetings, op : Operations, expected : Nat,
                   slot : Nat, oppVersion : Nat, key : Nat, seen : Meeting,
                  locked : BOOLEAN]

ASSUME CommercialAssumption ==
  /\ Creator \in [Opportunities -> Agents]
  /\ RoutingAgent \in [Conversations -> Agents]
  /\ Targets \subseteq Stages
  /\ None \notin Admins \cup Conversations \cup Agents \cup Statuses \cup Stages
  /\ None \notin Opportunity \cup QuoteRequest \cup Meeting \cup MeetingCommand
  /\ IsFiniteSet(Admins)

-------------------------------------------------------------------------------
(* Rows and the constraints of their tables. *)

HasKey(log, key) == \E i \in DOMAIN log : log[i].key = key
HasVersion(log, v) == \E i \in DOMAIN log : log[i].version = v

\* uq_opportunity_stage_event_version, uq_opportunity_stage_event_idempotency
\* and the shape of a stage event.
StageEventFits(log, e) ==
  /\ ~ HasKey(log, e.key) /\ ~ HasVersion(log, e.version)
  /\ (e.version = 0) = (e.from = None)
  /\ e.from # e.to

\* uq_opportunity_ownership_event_version, ..._idempotency and the shape of an
\* ownership event.
OwnershipEventFits(log, e) ==
  /\ ~ HasKey(log, e.key) /\ ~ HasVersion(log, e.version)
  /\ (e.version = 0) = (e.fromAgent = None)
  /\ e.fromAgent # e.agent \/ e.fromOperator # e.operator

\* ck_opportunity_stage, ck_opportunity_closed_at.
OpportunityFits(row) ==
  row.stage \in Stages /\ (row.stage \in Terminal) = row.closed

\* uq_opportunity_conversation_link and uq_opportunity_conversation_idempotency.
LinkFits(rows, l) ==
  \A r \in rows : r.conversation # l.conversation /\ r.key # l.key

\* ck_quote_request_status and ck_quote_request_failure_reason.
QuoteRequestFits(row) ==
  /\ row.status \in QuoteStatuses
  /\ row.status \in {"unavailable", "review_required"} => row.failure

\* uq_quote_version_request_version, ..._request_idempotency and
\* uq_quote_version_authority_reference, which spans all the requests.
QuoteVersionFits(q, e) ==
  /\ ~ HasKey(quotes[q], e.key) /\ ~ HasVersion(quotes[q], e.version)
  /\ \A r \in Requests : \A i \in DOMAIN quotes[r] :
        quotes[r][i].reference # e.reference

\* A slot is named by the proposal it belongs to, which fk_meeting_selected_slot
\* and uq_meeting_slot_proposal_position keep to those stored.
SlotFits(row) == row.slot \in 0..row.proposal

\* ck_meeting_status and the versions of a meeting.
MeetingFits(row) == row.status \in Statuses /\ row.version >= 0 /\ SlotFits(row)

\* Faulty variant: without uq_meeting_event_state_version.
MeetingEventFitsAnyVersion(log, e) == ~ HasKey(log, e.key)

\* uq_meeting_event_state_version (also the event's own id, uuid5 of the
\* version), uq_meeting_event_idempotency, ck_meeting_event_shape and
\* ck_meeting_event_manual_evidence.
MeetingEventFits(log, e) ==
  /\ ~ HasKey(log, e.key) /\ ~ HasVersion(log, e.version)
  /\ (e.version = 0) = (e.from = None)
  /\ e.to = "scheduled" => e.slot # 0

-------------------------------------------------------------------------------
(* Access. *)

UnderWay == Cardinality({a \in Admins : pending[a] # None})

\* The work done: the events of meetings and the commands under way, and
\* twice over the other receipts and the grants withdrawn, so that meetings
\* have the longest histories.
Work ==
  LET rows(log, S) == UNION {{r} \X DOMAIN log[r] : r \in S}
  IN  Cardinality(rows(events, Meetings)) + UnderWay
      + 2 * (Cardinality(rows(stages, Opportunities))
             + Cardinality(rows(owners, Opportunities))
             + Cardinality(UNION {{o} \X links[o] : o \in Opportunities})
             + Cardinality({q \in Requests : request[q] # None})
             + Cardinality(rows(quotes, Requests))
             + Cardinality((Admins \X Agents) \ grants))

\* One more request of the panel.  It comes with a key of its own or with
\* one its record has seen (keys are numbered by the record's log), and with
\* the version the panel last showed: the current one or the one before.
Sent == Work < MaxWork
Shown(v) == {v} \cup {u \in {v - 1} : v > 0}
FreshOrUsed(log) == Shown(Len(log))

\* _allows over the active grant: the roles of the panel allow it here.
HasPermission(admin, agent) == <<admin, agent>> \in grants

SetGrant(admin, agent) ==
  /\ ~ HasPermission(admin, agent)
  /\ grants' = grants \cup {<<admin, agent>>}
  /\ UNCHANGED <<oppVars, quoteVars, meetingVars>>

RevokeGrant(admin, agent) ==
  /\ Sent
  /\ HasPermission(admin, agent)
  /\ grants' = grants \ {<<admin, agent>>}
  /\ UNCHANGED <<oppVars, quoteVars, meetingVars>>

\* The caller acts under the assigned agent and, where one operator is
\* assigned, is that operator.
Owns(o, agent, admin) ==
  /\ opp[o] # None
  /\ opp[o].agent = agent
  /\ opp[o].operator \in {None, admin}

\* Faulty variant: a command that has checked its sender holds no lock.
OpportunityFreeAlways(o) == TRUE

\* SELECT ... FOR UPDATE of the opportunity: it waits for the meeting command
\* that holds the row.
OpportunityFree(o) ==
  \A a \in Admins :
    pending[a] # None /\ pending[a].locked => pending[a].seen.opportunity # o

\* The operator named in a payload may manage the agent.
OperatorCanManage(operator, agent) ==
  operator # None => HasPermission(operator, agent)

-------------------------------------------------------------------------------
(* Opportunities. *)

NewOpportunity(o, operator) ==
  [stage |-> "new", agent |-> Creator[o], operator |-> operator,
   version |-> 0, closed |-> FALSE]

StageEvent(row, key, from) ==
  [version |-> row.version, key |-> key, from |-> from, to |-> row.stage,
   agent |-> row.agent]

OwnershipEvent(row, key, fromAgent, fromOperator) ==
  [version |-> row.version, key |-> key, fromAgent |-> fromAgent,
   fromOperator |-> fromOperator, agent |-> row.agent,
   operator |-> row.operator]

NewLink(c, key, agent) == [conversation |-> c, key |-> key, agent |-> agent]

\* opportunity_service.create: the row, the first event of both logs and the
\* link of the source conversation.
Create(o, c, operator) ==
  /\ opp[o] = None
  /\ RoutingAgent[c] = Creator[o]
  /\ opp' = [opp EXCEPT ![o] = NewOpportunity(o, operator)]
  /\ stages' = [stages EXCEPT ![o] = <<StageEvent(opp'[o], o, None)>>]
  /\ owners' = [owners EXCEPT ![o] =
                   <<OwnershipEvent(opp'[o], o, None, None)>>]
  /\ links' = [links EXCEPT ![o] = {NewLink(c, o, Creator[o])}]

\* POST /: the creation key and the primary key derived from it let one
\* creation through.
CreateOpportunity(admin, o, c, operator) ==
  /\ Sent
  /\ HasPermission(admin, Creator[o])
  /\ OperatorCanManage(operator, Creator[o])
  /\ Create(o, c, operator)
  /\ UNCHANGED <<quoteVars, meetingVars, grants>>

\* Faulty variant: a stage change leaves the version of the opportunity.
TransitionStageUnversioned(o, agent, admin, target, expected, key) ==
  /\ Owns(o, agent, admin)
  /\ ~ HasKey(stages[o], key)
  /\ opp[o].version = expected
  /\ opp[o].stage \notin Terminal
  /\ target \notin {"new", opp[o].stage}
  /\ opp' = [opp EXCEPT ![o].stage = target,
                        ![o].closed = target \in Terminal]
  /\ stages' = [stages EXCEPT ![o] =
                   Append(@, StageEvent(opp'[o], key, opp[o].stage))]

\* opportunity_service.transition_stage under the lock of the opportunity.  A
\* key already in the log ends the command: its stored hash only decides
\* whether the answer is a replay or a conflict.
TransitionStage(o, agent, admin, target, expected, key) ==
  /\ ~ HasKey(stages[o], key)
  /\ Owns(o, agent, admin)
  /\ opp[o].version = expected
  /\ opp[o].stage \notin Terminal
  /\ target \notin {"new", opp[o].stage}
  /\ opp' = [opp EXCEPT ![o].stage = target,
                        ![o].version = @ + 1,
                        ![o].closed = target \in Terminal]
  /\ OpportunityFits(opp'[o])
  /\ LET e == StageEvent(opp'[o], key, opp[o].stage)
     IN  /\ StageEventFits(stages[o], e)
         /\ stages' = [stages EXCEPT ![o] = Append(@, e)]

TransitionOpportunity(admin, agent, o, target, expected, key) ==
  /\ Sent
  /\ opp[o] # None
  /\ HasPermission(admin, agent)
  /\ OpportunityFree(o)
  /\ TransitionStage(o, agent, admin, target, expected, <<None, key>>)
  /\ UNCHANGED <<owners, links, quoteVars, meetingVars, grants>>

\* Faulty variant: a new owner without a new version.
ReassignUnversioned(o, agent, admin, to, operator, expected, key) ==
  /\ ~ HasKey(owners[o], key)
  /\ Owns(o, agent, admin)
  /\ opp' = [opp EXCEPT ![o].agent = to, ![o].operator = operator]
  /\ owners' = [owners EXCEPT ![o] = Append(@,
       OwnershipEvent(opp'[o], key, opp[o].agent, opp[o].operator))]

\* opportunity_service.reassign; its follow-ups are those of FollowUps.
Reassign(o, agent, admin, to, operator, expected, key) ==
  /\ ~ HasKey(owners[o], key)
  /\ Owns(o, agent, admin)
  /\ opp[o].version = expected
  /\ <<opp[o].agent, opp[o].operator>> # <<to, operator>>
  /\ opp' = [opp EXCEPT ![o].agent = to, ![o].operator = operator,
                        ![o].version = @ + 1]
  /\ LET e == OwnershipEvent(opp'[o], key, opp[o].agent, opp[o].operator)
     IN  /\ OwnershipEventFits(owners[o], e)
         /\ owners' = [owners EXCEPT ![o] = Append(@, e)]

\* The caller manages the target agent too, and so does the operator named.
ReassignOpportunity(admin, agent, o, to, operator, expected, key) ==
  /\ Sent
  /\ opp[o] # None
  /\ HasPermission(admin, agent) /\ HasPermission(admin, to)
  /\ OperatorCanManage(operator, to)
  /\ OpportunityFree(o)
  /\ Reassign(o, agent, admin, to, operator, expected, key)
  /\ UNCHANGED <<stages, links, quoteVars, meetingVars, grants>>

\* opportunity_service.link_conversation: a conversation of the acting agent,
\* linked once; it changes no version.
LinkConversation(admin, agent, o, c, key) ==
  /\ Sent
  /\ opp[o] # None
  /\ HasPermission(admin, agent)
  /\ OpportunityFree(o)
  /\ Owns(o, agent, admin)
  /\ RoutingAgent[c] = agent
  /\ LinkFits(links[o], NewLink(c, key, agent))
  /\ links' = [links EXCEPT ![o] = @ \cup {NewLink(c, key, agent)}]
  /\ UNCHANGED <<opp, stages, owners, quoteVars, meetingVars, grants>>

-------------------------------------------------------------------------------
(* Quotes. *)

NewRequest(o, status) ==
  [opportunity |-> o, status |-> status, version |-> 0, failure |-> TRUE]

\* The authoritative version after the greatest number stored.
NextQuoteVersion(q, key, reference) ==
  [version |-> Len(quotes[q]) + 1, key |-> key, reference |-> reference]

\* Faulty variant: a request waits in a status of its own.
RequestQuotePending(q, o, agent, admin, status) ==
  /\ request[q] = None /\ Owns(o, agent, admin)
  /\ request' = [request EXCEPT ![q] = NewRequest(o, "pending")]

\* quote_service.request: a request starts without a price.
RequestQuote(q, o, agent, admin, status) ==
  /\ request[q] = None
  /\ Owns(o, agent, admin)
  /\ opp[o].stage \notin Terminal
  /\ QuoteRequestFits(NewRequest(o, status))
  /\ request' = [request EXCEPT ![q] = NewRequest(o, status)]

CreateQuoteRequest(admin, agent, q, o, status) ==
  /\ Sent
  /\ HasPermission(admin, agent)
  /\ OpportunityFree(o)
  /\ RequestQuote(q, o, agent, admin, status)
  /\ UNCHANGED <<oppVars, quotes, meetingVars, grants>>

\* quote_service.issue_authoritative_version under the locks of the request
\* and the opportunity.
IssueVersion(q, agent, admin, expected, reference, key) ==
  LET e == NextQuoteVersion(q, key, reference)
  IN  /\ request[q] # None
      /\ OpportunityFree(request[q].opportunity)
      /\ Owns(request[q].opportunity, agent, admin)
      /\ opp[request[q].opportunity].stage \notin Terminal
      /\ ~ HasKey(quotes[q], key)
      /\ request[q].status # "cancelled"
      /\ request[q].version = expected
      /\ QuoteVersionFits(q, e)
      /\ quotes' = [quotes EXCEPT ![q] = Append(@, e)]
      /\ request' = [request EXCEPT ![q].status = "issued",
                       ![q].failure = FALSE, ![q].version = @ + 1]

CreateQuoteVersion(admin, agent, q, expected, reference, key) ==
  /\ Sent
  /\ HasPermission(admin, agent)
  /\ IssueVersion(q, agent, admin, expected, reference, key)
  /\ UNCHANGED <<oppVars, meetingVars, grants>>

-------------------------------------------------------------------------------
(* Meetings. *)

\* The statuses a command may start from.
AllowedFrom(op) ==
  CASE op = "propose" -> {"requested", "slots_proposed", "awaiting_response",
                          "reschedule_requested", "review_required"}
    [] op = "await" -> {"slots_proposed"}
    [] op = "select" -> {"slots_proposed", "awaiting_response"}
    [] op = "reschedule" -> {"scheduled"}
    [] op = "cancel" -> Statuses \ {"cancelled", "calendar_pending"}
    [] op = "review" -> Statuses \ {"cancelled", "calendar_pending",
                                    "review_required"}
    [] op = "schedule" -> {"slots_proposed", "awaiting_response",
                           "slot_selected", "reschedule_requested",
                           "review_required"}

TargetStatus(op) ==
  CASE op = "propose" -> "slots_proposed"
    [] op = "await" -> "awaiting_response"
    [] op = "select" -> "slot_selected"
    [] op = "reschedule" -> "reschedule_requested"
    [] op = "cancel" -> "cancelled"
    [] op = "review" -> "review_required"
    [] op = "schedule" -> "scheduled"

\* _current_slot: the slot belongs to the proposal in force.
CurrentSlot(row, slot) == slot = row.proposal /\ slot > 0

\* Faulty variant: only the router asks whether the sender may act.
MayCoordinateUnasked(o, agent, admin) == opp[o] # None

\* _lock_owned_opportunity and _assert_actor_authorized: the owner is read with
\* the row's lock, the grant by a SELECT that locks nothing.
MayCoordinate(o, agent, admin) ==
  Owns(o, agent, admin) /\ HasPermission(admin, agent)

\* The receipt of a command, with the owner and version of the opportunity it
\* was decided under.
MeetingEvent(row, owner, from, key, slot) ==
  [version |-> row.version, key |-> key, from |-> from, to |-> row.status,
   proposal |-> row.proposal, slot |-> slot, agent |-> owner.agent,
   operator |-> owner.operator, oppVersion |-> owner.version]

NewMeeting(o) ==
  [opportunity |-> o, status |-> "requested", version |-> 0, proposal |-> 0,
   slot |-> 0]

\* _resolve_conversation: a conversation, if named, is one of the
\* opportunity's.
ConversationLinked(o, c) ==
  c # None => \E l \in links[o] : l.conversation = c

\* meeting_service.create.
MeetingCreated(m, o, agent, admin, c) ==
  LET e == MeetingEvent(NewMeeting(o), opp[o], None, m, 0)
  IN  /\ meeting[m] = None /\ opp[o] # None
      /\ OpportunityFree(o)
      /\ MayCoordinate(o, agent, admin)
      /\ ConversationLinked(o, c)
      /\ MeetingEventFits(events[m], e)
      /\ meeting' = [meeting EXCEPT ![m] = NewMeeting(o)]
      /\ events' = [events EXCEPT ![m] = <<e>>]

CreateMeeting(admin, agent, m, o, c) ==
  /\ Sent
  /\ HasPermission(admin, agent)
  /\ MeetingCreated(m, o, agent, admin, c)
  /\ UNCHANGED <<oppVars, quoteVars, grants, pending>>

\* Faulty variant: a new proposal keeps the slot selected before.
AppliedKeepsSlot(c) ==
  LET row == [c.seen EXCEPT !.version = @ + 1, !.status = TargetStatus(c.op)]
  IN  CASE c.op = "propose" -> [row EXCEPT !.proposal = @ + 1]
        [] c.op \in {"select", "schedule"} -> [row EXCEPT !.slot = c.slot]
        [] OTHER -> row

\* The row a command leaves, computed from the copy the session holds.
Applied(c) ==
  LET row == [c.seen EXCEPT !.version = @ + 1, !.status = TargetStatus(c.op)]
  IN  CASE c.op = "propose" -> [row EXCEPT !.proposal = @ + 1, !.slot = 0]
        [] c.op \in {"select", "schedule"} -> [row EXCEPT !.slot = c.slot]
        [] OTHER -> row

\* _command_context after the lock: the owner is read afresh, and a key in the
\* log ends the command.
ContextHolds(c, admin) ==
  /\ MayCoordinate(c.seen.opportunity, c.agent, admin)
  /\ ~ HasKey(events[c.meeting], c.key)

\* The checks of _command_context, _transition and propose_slots on the copy
\* of the meeting: what they say is settled when it is loaded.
CopyAllows(c) ==
  /\ c.seen.version = c.expected
  /\ c.seen.status \in AllowedFrom(c.op)
  /\ c.op \in {"select", "schedule"} => CurrentSlot(c.seen, c.slot)

\* Faulty variant: a paused or closed opportunity accepts a meeting.
ScheduleHoldsAnyStage(c) == opp[c.seen.opportunity].version = c.oppVersion

\* schedule_manual: the opportunity is the one the operator saw, and open.
ScheduleHolds(c) ==
  /\ opp[c.seen.opportunity].version = c.oppVersion
  /\ opp[c.seen.opportunity].stage \notin Terminal \cup {"paused"}

\* _opportunity_stage_key: one stage command per meeting and key, apart from
\* the keys of the panel's own stage commands.
StageKey(c) == <<c.meeting, c.key>>

\* A meeting scheduled by hand takes its opportunity to meeting_scheduled in
\* the same transaction.
StageFollows(c, admin) ==
  LET o == c.seen.opportunity
  IN  IF c.op = "schedule" /\ opp[o].stage # "meeting_scheduled"
        THEN TransitionStage(o, opp[o].agent, admin, "meeting_scheduled",
                             c.oppVersion, StageKey(c))
        ELSE UNCHANGED <<opp, stages>>

\* A request arrives: the dependency of the router checks the grant, and
\* db.get loads the meeting before anything is locked.
BeginMeetingCommand(admin, agent, m, op, expected, slot, oppVersion, key) ==
  /\ pending[admin] = None /\ meeting[m] # None
  /\ Sent
  /\ HasPermission(admin, agent)
  /\ LET c == [agent |-> agent, meeting |-> m, op |-> op,
               expected |-> expected, slot |-> slot,
               oppVersion |-> oppVersion, key |-> key, seen |-> meeting[m],
               locked |-> FALSE]
     IN  /\ CopyAllows(c)
         /\ pending' = [pending EXCEPT ![admin] = c]
  /\ UNCHANGED <<oppVars, quoteVars, grants, meeting, events>>

\* _command_context gets the opportunity's lock and checks the sender under it.
AuthorizeMeetingCommand(admin) ==
  /\ pending[admin] # None
  /\ ~ pending[admin].locked
  /\ OpportunityFree(pending[admin].seen.opportunity)
  /\ ContextHolds(pending[admin], admin)
  /\ pending' = [pending EXCEPT ![admin].locked = TRUE]
  /\ UNCHANGED <<oppVars, quoteVars, grants, meeting, events>>

\* The rest of the command's transaction and its commit: it applies as a whole,
\* or fails at a check or at a constraint of its tables and leaves all.
MeetingCommandApplies(c, admin) ==
  /\ c.op = "schedule" => ScheduleHolds(c)
  /\ StageFollows(c, admin)
  /\ MeetingFits(Applied(c))
  /\ LET e == MeetingEvent(Applied(c), opp'[c.seen.opportunity],
                           c.seen.status, c.key,
                           IF c.op \in {"select", "schedule"} THEN c.slot
                                                              ELSE 0)
     IN  /\ MeetingEventFits(events[c.meeting], e)
         /\ events' = [events EXCEPT ![c.meeting] = Append(@, e)]
  /\ meeting' = [meeting EXCEPT ![c.meeting] = Applied(c)]

FinishMeetingCommand(admin) ==
  /\ pending[admin] # None
  /\ pending[admin].locked
  /\ MeetingCommandApplies(pending[admin], admin)
  /\ pending' = [pending EXCEPT ![admin] = None]
  /\ UNCHANGED <<owners, links, quoteVars, grants>>

\* A check, a conflict or a constraint refuses the command, or its response
\* is a replay: nothing is written, and a lock it holds is released.
RefuseMeetingCommand(admin) ==
  /\ pending[admin] # None
  /\ pending' = [pending EXCEPT ![admin] = None]
  /\ UNCHANGED <<oppVars, quoteVars, grants, meeting, events>>

-------------------------------------------------------------------------------
(* The endpoints of routers/admin/meetings.py. *)

ProposeSlots(admin, agent, m, expected, key) ==
  BeginMeetingCommand(admin, agent, m, "propose", expected, 0, 0, key)

MarkAwaitingResponse(admin, agent, m, expected, key) ==
  BeginMeetingCommand(admin, agent, m, "await", expected, 0, 0, key)

SelectSlot(admin, agent, m, expected, slot, key) ==
  BeginMeetingCommand(admin, agent, m, "select", expected, slot, 0, key)

ScheduleManually(admin, agent, m, expected, slot, oppVersion, key) ==
  BeginMeetingCommand(admin, agent, m, "schedule", expected, slot,
                      oppVersion, key)

RequestReschedule(admin, agent, m, expected, key) ==
  BeginMeetingCommand(admin, agent, m, "reschedule", expected, 0, 0, key)

CancelMeeting(admin, agent, m, expected, key) ==
  BeginMeetingCommand(admin, agent, m, "cancel", expected, 0, 0, key)

RequireReview(admin, agent, m, expected, key) ==
  BeginMeetingCommand(admin, agent, m, "review", expected, 0, 0, key)

MeetingRequest(admin, agent, m, key) ==
  /\ meeting[m] # None
  /\ opp[meeting[m].opportunity].agent = agent
  /\ \E expected \in Shown(meeting[m].version) :
       \/ ProposeSlots(admin, agent, m, expected, key)
       \/ MarkAwaitingResponse(admin, agent, m, expected, key)
       \/ RequestReschedule(admin, agent, m, expected, key)
       \/ CancelMeeting(admin, agent, m, expected, key)
       \/ RequireReview(admin, agent, m, expected, key)
       \/ \E slot \in Shown(meeting[m].proposal) \ {0} :
            \/ SelectSlot(admin, agent, m, expected, slot, key)
            \/ \E v \in Shown(opp[meeting[m].opportunity].version) :
                 ScheduleManually(admin, agent, m, expected, slot, v, key)

-------------------------------------------------------------------------------
Init ==
  /\ opp = [o \in Opportunities |-> None]
  /\ stages = [o \in Opportunities |-> << >>]
  /\ owners = [o \in Opportunities |-> << >>]
  /\ links = [o \in Opportunities |-> {}]
  /\ request = [q \in Requests |-> None]
  /\ quotes = [q \in Requests |-> << >>]
  /\ meeting = [m \in Meetings |-> None]
  /\ events = [m \in Meetings |-> << >>]
  /\ grants = Admins \X Agents
  /\ pending = [a \in Admins |-> None]

Next ==
  \/ \E admin \in Admins, agent \in Agents :
       \/ SetGrant(admin, agent)
       \/ RevokeGrant(admin, agent)
       \/ \E m \in Meetings :
            \/ \E o \in Opportunities, c \in Conversations \cup {None} :
                 CreateMeeting(admin, agent, m, o, c)
            \/ \E key \in Len(events[m])..(Len(events[m]) + UnderWay) :
                 MeetingRequest(admin, agent, m, key)
       \/ \E o \in Opportunities :
          /\ opp[o] # None
          /\ \/ \E expected \in Shown(opp[o].version), target \in Targets,
                   key \in FreshOrUsed(stages[o]) :
                 TransitionOpportunity(admin, agent, o, target, expected, key)
             \/ \E expected \in Shown(opp[o].version), to \in Agents,
                   operator \in Admins \cup {None},
                   key \in FreshOrUsed(owners[o]) :
                 ReassignOpportunity(admin, agent, o, to, operator, expected,
                                     key)
             \/ \E c \in Conversations, key \in {1, 2} :
                 LinkConversation(admin, agent, o, c, key)
       \/ \E q \in Requests, o \in Opportunities,
             status \in {"unavailable", "review_required"} :
            CreateQuoteRequest(admin, agent, q, o, status)
       \/ \E q \in Requests, reference \in References :
          /\ request[q] # None
          /\ \E expected \in Shown(request[q].version),
                key \in FreshOrUsed(quotes[q]) :
            CreateQuoteVersion(admin, agent, q, expected, reference, key)
  \/ \E admin \in Admins :
       \/ \E o \in Opportunities, c \in Conversations,
             operator \in Admins \cup {None} :
            CreateOpportunity(admin, o, c, operator)
       \/ AuthorizeMeetingCommand(admin)
       \/ FinishMeetingCommand(admin)
       \/ RefuseMeetingCommand(admin)

Spec == Init /\ [][Next]_vars

-------------------------------------------------------------------------------
(* Properties. *)

\* Rows, events and requests in flight have the shapes their tables and
\* classes give them.
TypeOK ==
  /\ opp \in [Opportunities -> Opportunity \cup {None}]
  /\ stages \in [Opportunities -> Seq(StageEvents)]
  /\ owners \in [Opportunities -> Seq(OwnershipEvents)]
  /\ links \in [Opportunities -> SUBSET Link]
  /\ request \in [Requests -> QuoteRequest \cup {None}]
  /\ quotes \in [Requests -> Seq(QuoteVersion)]
  /\ meeting \in [Meetings -> Meeting \cup {None}]
  /\ events \in [Meetings -> Seq(MeetingEvents)]
  /\ grants \subseteq Admins \X Agents
  /\ pending \in [Admins -> MeetingCommand \cup {None}]
  /\ \A o \in Opportunities : opp[o] # None => OpportunityFits(opp[o])
  /\ \A q \in Requests : request[q] # None => QuoteRequestFits(request[q])
  /\ \A m \in Meetings : meeting[m] # None => MeetingFits(meeting[m])

\* The events of a log up to a version, and the last of them.
Reach(log, v) == {i \in DOMAIN log : log[i].version <= v}
Newest(log, v) == CHOOSE i \in Reach(log, v) : \A j \in Reach(log, v) : j <= i

\* The stage and the owner that the two logs of an opportunity leave at a
\* version.
StageAt(o, v) == stages[o][Newest(stages[o], v)].to
OwnerAt(o, v) ==
  <<owners[o][Newest(owners[o], v)].agent, owners[o][Newest(owners[o], v)].operator>>

\* The two logs of an opportunity, which share its control_version, as one:
\* the creation, then the event of each later version.
OpportunityLog(o) ==
  LET keys(v) == {<<"stage", stages[o][i].key>> :
                    i \in {j \in DOMAIN stages[o] : stages[o][j].version = v}}
                 \cup
                 {<<"owner", owners[o][i].key>> :
                    i \in {j \in DOMAIN owners[o] : owners[o][j].version = v}}
  IN  [n \in 1..(Len(stages[o]) + Len(owners[o]) - 1) |->
         [key |-> keys(n - 1),
          value |-> <<StageAt(o, n - 1), OwnerAt(o, n - 1), n - 1>>]]

QuoteLog(q) ==
  IF request[q] = None THEN << >>
  ELSE <<[key |-> <<"request", q>>, value |-> <<0, FALSE>>]>>
       \o [i \in DOMAIN quotes[q] |->
            [key |-> <<"issue", quotes[q][i].key>>,
             value |-> <<quotes[q][i].version, TRUE>>]]

MeetingLog(m) ==
  [i \in DOMAIN events[m] |->
     [key |-> events[m][i].key,
      value |-> <<events[m][i].version, events[m][i].to,
                  events[m][i].proposal>>]]

Ids == Opportunities \cup Requests \cup Meetings

Rows ==
  [id \in Ids |->
     IF id \in Opportunities THEN
       IF opp[id] = None THEN None
       ELSE <<opp[id].stage, <<opp[id].agent, opp[id].operator>>,
              opp[id].version>>
     ELSE IF id \in Requests THEN
       IF request[id] = None THEN None
       ELSE <<request[id].version, request[id].status = "issued">>
     ELSE
       IF meeting[id] = None THEN None
       ELSE <<meeting[id].version, meeting[id].status, meeting[id].proposal>>]

Logs ==
  [id \in Ids |-> IF id \in Opportunities THEN OpportunityLog(id)
                  ELSE IF id \in Requests THEN QuoteLog(id)
                  ELSE MeetingLog(id)]

Promise == INSTANCE CommandLog
             WITH Ids <- Ids, Absent <- None, cur <- Rows, log <- Logs

\* Every opportunity, quote request and meeting is written only with a receipt
\* under a key that record has not seen, and is what its receipts add up to:
\* a command applies once however often it is retried, and none is lost to a
\* concurrent one (the idempotency and version checks of the three services).
EveryWriteHasItsReceipt == Promise!Spec

\* The history of a meeting has no gap and no fork, and each event stands under
\* the owner of its time: an event starts where the one before it ended and names
\* the owner the ownership log had at the version it was decided under, as the
\* stage events do.  Copies loaded before the lock are stale as soon as another
\* command commits, and reassigning an opportunity fences the old owner's commands
\* at once (meetings.py _command_context, _lock_owned_opportunity,
\* opportunities.py _assert_owner).  The slot a meeting was selected or scheduled
\* for belongs to the proposal in force (propose_slots, _current_slot).
MeetingHistory ==
  /\ \A m \in Meetings : \A i \in DOMAIN events[m] :
       LET e == events[m][i] IN
       /\ e.version = i - 1
       /\ i > 1 => e.from = events[m][i - 1].to
       /\ OwnerAt(meeting[m].opportunity, e.oppVersion) = <<e.agent, e.operator>>
  /\ \A o \in Opportunities : \A i \in DOMAIN stages[o] :
       OwnerAt(o, stages[o][i].version)[1] = stages[o][i].agent
  /\ \A m \in Meetings : meeting[m] # None =>
       /\ meeting[m].slot \in {0, meeting[m].proposal}
       /\ meeting[m].status \in {"slot_selected", "scheduled"} =>
            meeting[m].slot # 0

\* The owner a meeting command was checked against is still the owner when it
\* commits, several awaits later: the opportunity is still the acting agent's and
\* reserved for nobody but the sender, because every writer of the opportunity
\* waits for the command's lock; and a meeting becomes scheduled only with its
\* opportunity open and moved to meeting_scheduled in the same transaction
\* (meetings.py _lock_owned_opportunity, schedule_manual).  The sender's grant is
\* not in it: it is read without a lock and may be revoked before the commit.
AuthorizedAtCommit ==
  /\ [][\A a \in Admins :
          (pending[a] # None /\ pending'[a] = None /\ events' # events) =>
            Owns(pending[a].seen.opportunity, pending[a].agent, a)]_vars
  /\ [][\A m \in Meetings :
          (meeting'[m] # meeting[m] /\ meeting'[m].status = "scheduled") =>
            /\ opp'[meeting'[m].opportunity].stage = "meeting_scheduled"
            /\ opp[meeting'[m].opportunity].stage \notin Terminal \cup {"paused"}]_vars
===============================================================================
