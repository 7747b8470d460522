------------------------------- MODULE Intake -------------------------------
(***************************************************************************)
(* How a web conversation becomes an opportunity: the contact form a tool  *)
(* shows (tools/adapters/commercial_quote_contact_request.py), its capture *)
(* (services/web_commercial.py) with contact, consents and the handoff or  *)
(* continuation the agent is configured for (services/commercial/          *)
(* contacts.py, consents.py, handoffs.py, progression_policy.py), and the  *)
(* handoff routes operators maintain (services/agent_handoff_routes.py).   *)
(*                                                                         *)
(* One web session.  A capture is one transaction that holds the session's *)
(* advisory lock and the conversation row from BeginCapture, where it      *)
(* reads the policy and share-locks the route, to CommitCapture.  A route  *)
(* command of the panel loads the route before it locks it.                *)
(***************************************************************************)
EXTENDS ConversationControl, Sequences, FiniteSets

CONSTANTS
  Session,      \* the conversation of the web session
  Requests,     \* client_request_id values
  Moves,        \* control modes operators move the session to
  Runs,         \* request ids of agent runs that call the tool
  None,
  MaxRoute,     \* bound on the receipts of the route
  MaxPolicy,    \* bound on the policy's version
  MaxSwitches,  \* bound on the changes of is_public
  MaxReceipts,    \* bound on assignment receipts, and ...
  MaxRevocations  \* ... on revocations of follow-up consent

VARIABLES
  active,     \* agents with is_active; is_public of the routing agent
  policy,     \* CommercialProgressionPolicy; version 0 when unconfigured
  route,      \* the AgentHandoffRoute of (routing agent, quote_requested)
  receipts,   \* AgentHandoffRouteReceipt rows, oldest first
  command,    \* per admin, a route command that has loaded the route
  assigned,   \* ConversationAutomationAssignmentEvent rows, oldest first
  requested,  \* per request, the input its internal event fingerprints
  contact,    \* Contact, ContactPoint and ConsentRecord rows
  opp,        \* per request, the agent of its opportunity
  created,    \* public "commercial.opportunity.created" events, in order
  capture,    \* the capture whose transaction is open
  run,        \* the agent run under way
  forms       \* the runs whose contact-request event is published

routeVars == <<route, receipts, command>>
captureVars == <<requested, contact, opp, created, capture>>
vars == <<conv, active, policy, routeVars, assigned, captureVars, run, forms>>

Source == RoutingAgent[Session]
Here == conv[Session]

Actions == {"handoff", "keep_agent"}
Inputs == {"plain", "consenting"}   \* without and with follow-up consent
Purposes == {"quote", "follow_up"}

\* The rows.
Active == [on : SUBSET Agents, public : BOOLEAN, switches : Nat]
Policy == [action : Actions, version : Nat]
Route == [target : Agents, active : BOOLEAN, version : Nat]
Receipt == [key : Nat, target : Agents, active : BOOLEAN, version : Nat]
Assignment ==
  [key : ({"panel"} \X Nat) \cup ({"handoff"} \X Requests), from : Agents,
   to : Agents, version : Nat, applied : BOOLEAN]
Consent ==
  [purpose : Purposes, action : {"grant", "revoke"},
   key : (Purposes \X Requests) \cup ({"revoke"} \X Nat)]
Contact == [known : BOOLEAN, point : BOOLEAN, consents : Seq(Consent)]

\* Commands, captures and runs under way.
Command == [target : Agents \cup {None}, on : BOOLEAN, expected : Nat,
            key : Nat, seen : Route]
Capture == [request : Requests, input : Inputs, replay : BOOLEAN,
            keep : BOOLEAN, target : Agents \cup {None}]
Run == [id : Runs, agent : Agents, control : Nat, automation : Nat]

ASSUME IntakeAssumption ==
  /\ Session \in Conversations
  /\ Moves \subseteq Modes
  /\ None \notin Agents \cup Requests \cup Runs \cup Admins
  /\ None \notin Inputs \cup Route
  /\ {MaxRoute, MaxPolicy, MaxSwitches, MaxReceipts, MaxRevocations} \subseteq Nat

HasKey(log, key) == \E i \in DOMAIN log : log[i].key = key

-----------------------------------------------------------------------------
(* Tables. *)

\* ck_agent_handoff_route_distinct_agents and its version.
RouteFits(row) == row.target # Source /\ row.version >= 0

\* uq_agent_handoff_receipt_source_idempotency and
\* ck_agent_handoff_receipt_distinct_agents.
ReceiptFits(row) == ~ HasKey(receipts, row.key) /\ row.target # Source

\* uq_conversation_automation_assignment_applied_version and
\* ck_conversation_automation_assignment_shape.
AssignmentFits(row) ==
  /\ row.applied = (row.from # row.to)
  /\ row.applied => \A i \in DOMAIN assigned :
                      ~ (assigned[i].applied /\ assigned[i].version = row.version)

\* uq_contact_principal, uq_contact_point_value.
ContactFits(c) == c.point => c.known

\* uq_consent_record_agent_idempotency.
ConsentFits(log) ==
  \A i, j \in DOMAIN log : log[i].key = log[j].key => i = j

PolicyFits(p) == p.action \in Actions /\ (p.version = 0 => p.action = "handoff")

AssignmentEvent(target, key) ==
  LET applied == target # Here.automation_agent
  IN  [key |-> key, from |-> Here.automation_agent, to |-> target,
       version |-> Here.automation_version + (IF applied THEN 1 ELSE 0),
       applied |-> applied]

NewRoute(target, on) == [target |-> target, active |-> on, version |-> 0]

RouteReceipt(row, key) ==
  [key |-> key, target |-> row.target, active |-> row.active,
   version |-> row.version]

-----------------------------------------------------------------------------
(* Agents and the progression policy. *)

\* POST activate: profiles start inactive and are never deactivated.
ActivateProfile(agent) ==
  /\ agent \notin active.on
  /\ active' = [active EXCEPT !.on = @ \cup {agent}]
  /\ UNCHANGED <<conv, policy, routeVars, assigned, captureVars, run, forms>>

\* PATCH profile: the web agent is hidden or shown.
UpdateProfile(public) ==
  /\ active.switches < MaxSwitches
  /\ active.public # public
  /\ active' = [active EXCEPT !.public = public, !.switches = @ + 1]
  /\ UNCHANGED <<conv, policy, routeVars, assigned, captureVars, run, forms>>

\* CommercialProgressionService.configure, under the lock of the profile.
Configured(action, expected) ==
  /\ expected = policy.version
  /\ policy' = [action |-> action, version |-> policy.version + 1]

ConfigureProgressionPolicy(action, expected) ==
  /\ policy.version < MaxPolicy
  /\ Configured(action, expected)
  /\ UNCHANGED <<conv, active, routeVars, assigned, captureVars, run, forms>>

-----------------------------------------------------------------------------
(* Handoff routes. *)

\* _validate_agents.
TargetAllowed(target) == target # Source /\ target \in active.on

\* create_route: one route per trigger, ON CONFLICT DO NOTHING.
CreateRoute(target, on, key) ==
  /\ ~ HasKey(receipts, key)
  /\ TargetAllowed(target)
  /\ route = None
  /\ route' = NewRoute(target, on)
  /\ ReceiptFits(RouteReceipt(route', key))
  /\ receipts' = Append(receipts, RouteReceipt(route', key))

CreateHandoffRoute(target, on, key) ==
  /\ Len(receipts) < MaxRoute
  /\ CreateRoute(target, on, key)
  /\ UNCHANGED <<conv, active, policy, command, assigned, captureVars, run,
                 forms>>

\* PATCH and deactivate: get_route puts the row into the session before the
\* service locks it, and the locking SELECT does not refresh it.  A command
\* with on = FALSE and no target is a deactivation.
BeginRouteCommand(admin, target, on, expected, key) ==
  /\ command[admin] = None /\ route # None
  /\ Len(receipts) < MaxRoute
  /\ command' = [command EXCEPT ![admin] =
       [target |-> target, on |-> on, expected |-> expected, key |-> key,
        seen |-> route]]
  /\ UNCHANGED <<conv, active, policy, route, receipts, assigned,
                 captureVars, run, forms>>

UpdateHandoffRoute(admin, target, on, expected, key) ==
  BeginRouteCommand(admin, target, on, expected, key)

DeactivateHandoffRoute(admin, expected, key) ==
  BeginRouteCommand(admin, None, FALSE, expected, key)

\* Faulty variant: route commands do not wait for a capture's share lock.
RouteLockFreeAlways == TRUE

\* with_for_update of _load_route waits for the captures that share the row.
RouteLockFree == capture # None => (capture.keep \/ capture.replay)

\* The object in the session after the command's assignments.
Effective(c) ==
  LET target == IF c.target = None THEN c.seen.target ELSE c.target
      changed == target # c.seen.target \/ c.on # c.seen.active
  IN  [target |-> target, active |-> c.on,
       version |-> IF changed THEN c.seen.version + 1 ELSE c.seen.version]

\* The UPDATE writes the columns that differ from the copy.
Written(c) ==
  LET e == Effective(c)
  IN  [target |-> IF e.target # c.seen.target THEN e.target ELSE route.target,
       active |-> IF e.active # c.seen.active THEN e.active ELSE route.active,
       version |-> IF e.version # c.seen.version THEN e.version
                   ELSE route.version]

\* _prepare_mutation, _assert_version and the receipt; a receipt is appended
\* even when nothing changes.  A deactivation does not ask for the target.
RouteCommand(c) ==
  /\ ~ HasKey(receipts, c.key)
  /\ c.seen.version = c.expected
  /\ (c.target # None \/ c.on) => TargetAllowed(Effective(c).target)
  /\ route' = Written(c)
  /\ RouteFits(route') /\ ReceiptFits(RouteReceipt(Effective(c), c.key))
  /\ receipts' = Append(receipts, RouteReceipt(Effective(c), c.key))

FinishRouteCommand(admin) ==
  /\ command[admin] # None
  /\ RouteLockFree
  /\ RouteCommand(command[admin])
  /\ command' = [command EXCEPT ![admin] = None]
  /\ UNCHANGED <<conv, active, policy, assigned, captureVars, run, forms>>

\* _raise_handoff_error, or the answer to a repeated key.
RefuseRouteCommand(admin) ==
  /\ command[admin] # None
  /\ command' = [command EXCEPT ![admin] = None]
  /\ UNCHANGED <<conv, active, policy, route, receipts, assigned,
                 captureVars, run, forms>>

-----------------------------------------------------------------------------
(* The acting agent. *)

\* Faulty variant: a key that was used assigns again.
AssignActingRepeated(target, expected, key) ==
  /\ Here.control_mode # "closed"
  /\ Here.automation_version < MaxAutomation
  /\ conv' = [conv EXCEPT ![Session].automation_agent = target,
                          ![Session].automation_version = @ + 1]
  /\ assigned' = Append(assigned,
       [key |-> key, from |-> Here.automation_agent, to |-> target,
        version |-> conv'[Session].automation_version, applied |-> TRUE])

\* assign: a receipt either way, a new epoch only if the agent changes.
AssignActing(target, expected, key) ==
  LET row == AssignmentEvent(target, key)
  IN  /\ ~ HasKey(assigned, key)
      /\ Here.control_mode # "closed"
      /\ {Source, target} \subseteq active.on
      /\ expected = Here.automation_version
      /\ row.version <= MaxAutomation
      /\ AssignmentFits(row)
      /\ assigned' = Append(assigned, row)
      /\ conv' = [conv EXCEPT ![Session].automation_agent = target,
                              ![Session].automation_version = row.version]

\* POST automation-assignments; the row lock waits for an open capture.
AssignInboxAutomationAgent(target, expected, key) ==
  /\ capture = None
  /\ Len(assigned) < MaxReceipts
  /\ AssignActing(target, expected, key)
  /\ UNCHANGED <<active, policy, routeVars, captureVars, run, forms>>

TransitionInboxConversation(admin, target, expected) ==
  /\ capture = None
  /\ Transition(Session, admin, target, NoAdmin, expected)
  /\ UNCHANGED <<active, policy, routeVars, assigned, captureVars, run, forms>>

-----------------------------------------------------------------------------
(* Contacts and consents. *)

\* Faulty variant: the point is stored without its contact.
EnsureContactSkipped(c) == c

\* ensure_contact and add_contact_point find what an earlier request stored.
EnsureContact(c) == [c EXCEPT !.known = TRUE]
AddContactPoint(c) == [c EXCEPT !.point = TRUE]

Grant(purpose, r) == [purpose |-> purpose, action |-> "grant",
                      key |-> <<purpose, r>>]

\* Faulty variant: a grant is stored again for a repeated key.
RecordAgain(log, row) == Append(log, row)

\* ConsentService.record: a repeated key returns the stored record.
Record(log, row) == IF HasKey(log, row.key) THEN log ELSE Append(log, row)

\* ConsentService.effective for one purpose: the latest record decides.
Effectively(log, purpose) ==
  LET S == {i \in DOMAIN log : log[i].purpose = purpose}
  IN  S # {} /\ log[CHOOSE i \in S : \A j \in S : j <= i].action = "grant"

\* POST consent-revocations for commercial follow-up.
RevokeFollowUpConsent ==
  LET revocations == Cardinality({i \in DOMAIN contact.consents :
                                    contact.consents[i].action = "revoke"})
  IN  /\ revocations < MaxRevocations
      /\ Effectively(contact.consents, "follow_up")
      /\ contact' = [contact EXCEPT !.consents = Record(@,
           [purpose |-> "follow_up", action |-> "revoke",
            key |-> <<"revoke", revocations>>])]
      /\ UNCHANGED <<conv, active, policy, routeVars, assigned, requested, opp,
                     created, capture, run, forms>>

-----------------------------------------------------------------------------
(* The capture of a contact request. *)

\* _resolve_scope: the routing agent answers and the session is open.
ScopeResolves ==
  Source \in active.on /\ active.public /\ Here.control_mode # "closed"

\* Faulty variant: an id that was used captures other input.
ReceiptAllowsAny(r, input) == TRUE

\* _ensure_request_receipt: a repeated id must carry the same input.
ReceiptAllows(r, input) == requested[r] \in {None, input}

\* _load_active_quote_route.
ActiveQuoteRoute == route # None /\ route.active

BeginCapture(r, input) ==
  LET replay == opp[r] # None
      keep == policy.action = "keep_agent"
  IN  /\ capture = None
      /\ ScopeResolves
      /\ ReceiptAllows(r, input)
      /\ ~ replay /\ ~ keep => ActiveQuoteRoute
      /\ capture' = [request |-> r, input |-> input, replay |-> replay,
                     keep |-> keep,
                     target |-> IF replay THEN None
                                ELSE IF keep THEN Here.automation_agent
                                ELSE route.target]
      /\ UNCHANGED <<conv, active, policy, routeVars, assigned, requested,
                     contact, opp, created, run, forms>>

\* The consents of a request, quote delivery before the opportunity and
\* follow-up after it, in one transaction.
Consents(log, r, input) ==
  LET quoted == Record(log, Grant("quote", r))
  IN  IF input = "consenting" THEN Record(quoted, Grant("follow_up", r))
                              ELSE quoted

\* quote_requested after its evidence: opportunities.create refuses an
\* inactive agent; a handoff assigns the conversation to the same agent.
QuoteRequested(r, keep, target) ==
  /\ Effectively(Consents(contact.consents, r, "plain"), "quote")
  /\ target \in active.on
  /\ opp' = [opp EXCEPT ![r] = target]
  /\ IF keep THEN UNCHANGED <<conv, assigned>>
     ELSE AssignActing(target, Here.automation_version, <<"handoff", r>>)

\* The rest of WebCommercialService.capture and the router's commit.
CommitCapture ==
  LET r == capture.request
  IN  /\ capture # None
      /\ requested' = [requested EXCEPT ![r] = capture.input]
      /\ contact' = [AddContactPoint(EnsureContact(contact)) EXCEPT
                       !.consents = Consents(@, r, capture.input)]
      /\ IF capture.replay THEN UNCHANGED <<opp, conv, assigned, created>>
         ELSE /\ QuoteRequested(r, capture.keep, capture.target)
              /\ created' = Append(created, r)
      /\ capture' = None
      /\ UNCHANGED <<active, policy, routeVars, run, forms>>

\* _raise_web_commercial_error, a lost connection or a crash: rolled back.
AbortCapture ==
  /\ capture # None
  /\ capture' = None
  /\ UNCHANGED <<conv, active, policy, routeVars, assigned, requested, contact,
                 opp, created, run, forms>>

-----------------------------------------------------------------------------
(* The tool that asks for the contact form. *)

\* A run reads the epochs it will act under.
StartRun(id) ==
  /\ run = None
  /\ Here.control_mode = "automated"
  /\ run' = [id |-> id, agent |-> Here.automation_agent,
             control |-> Here.control_version,
             automation |-> Here.automation_version]
  /\ UNCHANGED <<conv, active, policy, routeVars, assigned, captureVars, forms>>

EndRun ==
  /\ run # None
  /\ run' = None
  /\ UNCHANGED <<conv, active, policy, routeVars, assigned, captureVars, forms>>

\* Faulty variant: the run's control epoch is not compared.
ScopedConversationAnyEpoch ==
  /\ Here.automation_agent = run.agent
  /\ Here.automation_version = run.automation

\* _load_scoped_conversation.
ScopedConversation ==
  /\ Here.automation_agent = run.agent
  /\ Here.control_version = run.control
  /\ Here.automation_version = run.automation
  /\ Here.control_mode # "closed"

\* invoke: one public event per request id; a repeated call finds it, and one
\* with another payload is refused.
InvokeContactRequest ==
  /\ run # None /\ capture = None
  /\ ScopedConversation
  /\ Here.control_mode = "automated"
  /\ run.id \notin forms
  /\ forms' = forms \cup {run.id}
  /\ UNCHANGED <<conv, active, policy, routeVars, assigned, captureVars, run>>

-----------------------------------------------------------------------------
Init ==
  /\ ControlInit
  /\ active = [on |-> {Source}, public |-> TRUE, switches |-> 0]
  /\ policy = [action |-> "handoff", version |-> 0]
  /\ route = None /\ receipts = << >>
  /\ command = [a \in Admins |-> None]
  /\ assigned = << >>
  /\ requested = [r \in Requests |-> None]
  /\ contact = [known |-> FALSE, point |-> FALSE, consents |-> << >>]
  /\ opp = [r \in Requests |-> None]
  /\ created = << >> /\ capture = None
  /\ run = None /\ forms = {}

\* The version a form of the panel shows: the current one or the one before.
Shown(v) == {v} \cup {u \in {v - 1} : v > 0}

Next ==
  \/ \E agent \in Agents : ActivateProfile(agent)
  \/ \E public \in BOOLEAN : UpdateProfile(public)
  \/ \E action \in Actions, v \in Shown(policy.version) :
       ConfigureProgressionPolicy(action, v)
  \/ \E target \in Agents, on \in BOOLEAN, key \in Shown(Len(receipts)) :
       CreateHandoffRoute(target, on, key)
  \/ \E admin \in Admins :
       \/ /\ route # None
          /\ \E v \in Shown(route.version), key \in Len(receipts)..MaxRoute :
               \/ \E target \in Agents, on \in BOOLEAN :
                    UpdateHandoffRoute(admin, target, on, v, key)
               \/ DeactivateHandoffRoute(admin, v, key)
       \/ FinishRouteCommand(admin)
       \/ RefuseRouteCommand(admin)
       \/ \E target \in Moves, v \in Shown(Here.control_version) :
            TransitionInboxConversation(admin, target, v)
  \/ \E target \in Agents, v \in Shown(Here.automation_version),
        key \in Shown(Len(assigned)) :
       AssignInboxAutomationAgent(target, v, <<"panel", key>>)
  \/ RevokeFollowUpConsent
  \/ \E r \in Requests, input \in Inputs : BeginCapture(r, input)
  \/ CommitCapture
  \/ AbortCapture
  \/ \E id \in Runs : StartRun(id)
  \/ InvokeContactRequest
  \/ EndRun

Spec == Init /\ [][Next]_vars

-----------------------------------------------------------------------------
(* Properties. *)

\* Rows have the shapes of their tables and keep their constraints.
TypeOK ==
  /\ conv \in [Conversations -> Conversation]
  /\ active \in Active
  /\ policy \in Policy
  /\ route \in Route \cup {None}
  /\ receipts \in Seq(Receipt)
  /\ command \in [Admins -> Command \cup {None}]
  /\ assigned \in Seq(Assignment)
  /\ requested \in [Requests -> Inputs \cup {None}]
  /\ contact \in Contact
  /\ opp \in [Requests -> Agents \cup {None}]
  /\ created \in Seq(Requests)
  /\ capture \in Capture \cup {None}
  /\ run \in Run \cup {None}
  /\ forms \subseteq Runs
  /\ PolicyFits(policy)
  /\ route # None => RouteFits(route)
  /\ ContactFits(contact) /\ ConsentFits(contact.consents)

\* A request leaves everything or nothing: its opportunity, the event that
\* announces it once, the receipt of its input, the contact point and the
\* consents it gave (web_commercial.py capture, one transaction).
CaptureIsWhole ==
  \A r \in Requests :
    LET announced == Cardinality({i \in DOMAIN created : created[i] = r})
        granted(p) == HasKey(contact.consents, <<p, r>>)
    IN  IF opp[r] = None
          THEN requested[r] = None /\ announced = 0 /\ ~ granted("quote")
          ELSE /\ announced = 1 /\ contact.point
               /\ granted("quote")
               /\ granted("follow_up") = (requested[r] = "consenting")

\* What a visitor is shown and given follows whoever answers the conversation.  A
\* new opportunity belongs to the agent that answers from then on: under
\* keep_agent nothing about the conversation changes, under handoff the route's
\* target takes both at once, and the route is still active when it does
\* (handoffs.py quote_requested and its share lock).  A contact form appears only
\* while the run that asks for it still has the conversation: one that was taken
\* over, or whose agent was replaced, shows none even after control came back
\* (commercial_quote_contact_request.py).
FollowsTheAgent ==
  /\ [][\A r \in Requests : opp'[r] # opp[r] =>
          /\ opp[r] = None
          /\ opp'[r] = conv'[Session].automation_agent
          /\ opp'[r] \in active.on
          /\ IF capture.keep THEN conv' = conv
             ELSE route.active /\ route.target = opp'[r]]_vars
  /\ [][forms' # forms =>
          /\ Here.control_mode = "automated"
          /\ run.agent = Here.automation_agent
          /\ run.control = Here.control_version]_vars

Assignments ==
  [i \in DOMAIN assigned |->
     [key |-> assigned[i].key, value |-> <<assigned[i].to, assigned[i].version>>]]

Epochs == INSTANCE CommandLog
  WITH Ids <- {Session}, Absent <- <<Source, 0>>,
       cur <- [c \in {Session} |-> <<Here.automation_agent,
                                     Here.automation_version>>],
       log <- [c \in {Session} |-> Assignments]

\* Commands apply once.  "Replay resolves existing receipts before mutable
\* policy": a request sent again changes nothing, whatever route, policy, acting
\* agent or consent has become since (handoffs.py _load_existing, consents.py
\* record); and the acting agent changes only with a receipt under a key of its
\* own: the assignments of operators and of handoffs together implement
\* CommandLog (conversation_automation_assignment.py assign).
CommandsApplyOnce ==
  /\ [][(capture # None /\ capture' = None /\ opp[capture.request] # None) =>
          UNCHANGED <<conv, assigned, requested, contact, opp, created>>]_vars
  /\ Epochs!Spec

\* A route command decided on a version that is no longer the route's is
\* refused, as test_agent_handoff_routes_integration.py:234 expects of a stale
\* deactivation (agent_handoff_routes.py _assert_version).
StaleVersionRejected ==
  [][\A a \in Admins :
       (command[a] # None /\ command'[a] = None /\ receipts' # receipts) =>
         command[a].expected = route.version]_vars
=============================================================================
