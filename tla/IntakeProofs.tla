---------------------------- MODULE IntakeProofs ----------------------------
(***************************************************************************)
(* Proofs about the capture of contact requests, for any sets of requests, *)
(* agents and operators.                                                   *)
(***************************************************************************)
EXTENDS Intake, ConversationControlProofs, SequenceTheorems, FiniteSetTheorems, TLAPS

-----------------------------------------------------------------------------
(* The inductive invariant.                                                *)

\* The shapes of rows and of what is under way.
Types ==
  /\ conv \in [Conversations -> Conversation]
  /\ active \in Active
  /\ policy \in Policy
  /\ route \in Route \cup {None}
  /\ receipts \in Seq(Receipt)
  /\ command \in [Admins -> Command \cup {None}]
  /\ assigned \in Seq(Assignment)
  /\ requested \in [Requests -> Inputs \cup {None}]
  /\ contact \in Contact
  /\ opp \in [Requests -> Agents \cup {None}]
  /\ created \in Seq(Requests)
  /\ capture \in Capture \cup {None}
  /\ run \in Run \cup {None}
  /\ forms \subseteq Runs

\* The constraints of the tables.
TablesFit ==
  /\ PolicyFits(policy)
  /\ route # None => RouteFits(route)
  /\ ContactFits(contact) /\ ConsentFits(contact.consents)

\* A route that a command loaded is never removed.
CommandsFit == \A a \in Admins : command[a] # None => route # None

\* What a request has left so far: nothing, or all of it.
RequestFits(r) ==
  IF opp[r] = None
    THEN /\ requested[r] = None
         /\ \A i \in DOMAIN created : created[i] # r
         /\ \A p \in Purposes : ~HasKey(contact.consents, <<p, r>>)
    ELSE /\ requested[r] # None
         /\ \E i \in DOMAIN created : created[i] = r
         /\ contact.point
         /\ HasKey(contact.consents, <<"quote", r>>)
         /\ HasKey(contact.consents, <<"follow_up", r>>) <=> requested[r] = "consenting"
RequestsFit == \A r \in Requests : RequestFits(r)

AnnouncedOnce == \A i, j \in DOMAIN created : created[i] = created[j] => i = j

\* What a capture read still holds: it is the lock on the session that keeps the
\* opportunity, the receipt and the acting agent, and the lock on the route that
\* keeps its target.
CaptureFits ==
  capture # None =>
    /\ capture.replay <=> opp[capture.request] # None
    /\ requested[capture.request] \in {None, capture.input}
    /\ ~capture.replay /\ capture.keep => capture.target = Here.automation_agent
    /\ ~capture.replay /\ ~capture.keep =>
         route # None /\ route.active /\ route.target = capture.target

IInv ==
  /\ Types
  /\ TablesFit
  /\ CommandsFit
  /\ RequestsFit
  /\ AnnouncedOnce
  /\ CaptureFits

-----------------------------------------------------------------------------
(* Frames.                                                                  *)

\* A step outside of captures leaves what requests have left.
LEMMA DataKept ==
  ASSUME IInv, UNCHANGED <<requested, opp, created>>, contact' = contact
  PROVE  RequestsFit' /\ AnnouncedOnce' /\ ContactFits(contact)' /\ ConsentFits(contact.consents)'
BY DEF IInv, RequestsFit, RequestFits, AnnouncedOnce, TablesFit, ContactFits, ConsentFits, HasKey

\* What a capture read stays if the rows it read stay.
LEMMA CaptureKept ==
  ASSUME IInv, UNCHANGED <<requested, opp, capture>>,
         capture # None /\ ~capture.replay /\ capture.keep =>
           conv'[Session].automation_agent = conv[Session].automation_agent,
         capture # None /\ ~capture.replay /\ ~capture.keep => route' = route
  PROVE  CaptureFits'
BY DEF IInv, CaptureFits, Here

\* A step that changes neither the session's agent, nor the route, nor a request.
LEMMA FrameKeeps ==
  ASSUME IInv, Types', PolicyFits(policy)', CommandsFit', UNCHANGED <<route, captureVars>>,
         conv'[Session].automation_agent = conv[Session].automation_agent
  PROVE  IInv'
<1>1. UNCHANGED <<route, requested, contact, opp, created, capture>>
  BY DEF captureVars
<1>2. RequestsFit' /\ AnnouncedOnce' /\ ContactFits(contact)' /\ ConsentFits(contact.consents)'
  BY <1>1, DataKept
<1>3. (route # None => RouteFits(route))'
  BY <1>1 DEF IInv, TablesFit, RouteFits, Source
<1>4. CaptureFits'
  BY <1>1, CaptureKept
<1>5. QED
  BY <1>2, <1>3, <1>4 DEF IInv, TablesFit

\* Versions shown by the panel, and keys, are natural numbers.
LEMMA ShownType ==
  ASSUME NEW n \in Nat
  PROVE  Shown(n) \subseteq Nat
BY DEF Shown

\* Unchanged policies fit as before.
LEMMA PolicyKept ==
  ASSUME IInv, UNCHANGED policy
  PROVE  PolicyFits(policy)'
BY DEF IInv, TablesFit, PolicyFits

\* Unchanged commands and routes fit as before.
LEMMA CommandsKept ==
  ASSUME IInv, UNCHANGED <<route, command>>
  PROVE  CommandsFit'
BY DEF IInv, CommandsFit

-----------------------------------------------------------------------------
(* Agents, the policy and the routes.                                       *)

\* ActivateProfile keeps the invariant.
LEMMA ActivateProfileKeeps ==
  ASSUME IInv, NEW agent \in Agents, ActivateProfile(agent)
  PROVE  IInv'
<1>1. UNCHANGED <<conv, policy, routeVars, assigned, captureVars, run, forms>>
      /\ active' = [active EXCEPT !.on = @ \cup {agent}]
  BY DEF ActivateProfile
<1>2. active' \in Active
  BY <1>1 DEF IInv, Types, Active
<1>3. Types' /\ UNCHANGED <<route, command, captureVars, policy, conv>>
  BY <1>1, <1>2 DEF IInv, Types, routeVars, captureVars
<1>4. QED
  BY <1>3, PolicyKept, CommandsKept, FrameKeeps

\* UpdateProfile keeps the invariant.
LEMMA UpdateProfileKeeps ==
  ASSUME IInv, NEW public \in BOOLEAN, UpdateProfile(public)
  PROVE  IInv'
<1>1. UNCHANGED <<conv, policy, routeVars, assigned, captureVars, run, forms>>
      /\ active' = [active EXCEPT !.public = public, !.switches = @ + 1]
  BY DEF UpdateProfile
<1>2. active' \in Active
  <2>1. active \in Active /\ active.switches + 1 \in Nat
    BY DEF IInv, Types, Active
  <2>2. QED
    BY <1>1, <2>1 DEF Active
<1>3. Types' /\ UNCHANGED <<route, command, captureVars, policy, conv>>
  BY <1>1, <1>2 DEF IInv, Types, routeVars, captureVars
<1>4. QED
  BY <1>3, PolicyKept, CommandsKept, FrameKeeps

\* Configuring a policy keeps the invariant.
LEMMA ConfigureKeeps ==
  ASSUME IInv, NEW action \in Actions, NEW v, ConfigureProgressionPolicy(action, v)
  PROVE  IInv'
<1>1. UNCHANGED <<conv, active, routeVars, assigned, captureVars, run, forms>>
      /\ policy' = [action |-> action, version |-> policy.version + 1]
  BY DEF ConfigureProgressionPolicy, Configured
<1>2. policy' \in Policy /\ policy'.version # 0 /\ policy'.action = action
  BY <1>1 DEF IInv, Types, Policy
<1>3. PolicyFits(policy)'
  BY <1>2 DEF PolicyFits
<1>4. Types' /\ UNCHANGED <<route, command, captureVars, conv>>
  BY <1>1, <1>2 DEF IInv, Types, routeVars, captureVars
<1>5. QED
  BY <1>3, <1>4, CommandsKept, FrameKeeps

\* A step on the route, with no capture relying on it.
LEMMA RouteKeeps ==
  ASSUME IInv, Types', CommandsFit', UNCHANGED <<conv, policy, captureVars>>,
         capture # None => capture.keep \/ capture.replay,
         RouteFits(route')
  PROVE  IInv'
<1>1. UNCHANGED <<requested, contact, opp, created, capture>>
  BY DEF captureVars
<1>2. RequestsFit' /\ AnnouncedOnce' /\ ContactFits(contact)' /\ ConsentFits(contact.consents)'
  BY <1>1, DataKept
<1>3. CaptureFits'
  BY <1>1, CaptureKept
<1>4. (route # None => RouteFits(route))'
  BY DEF RouteFits, Source
<1>5. QED
  BY <1>2, <1>3, <1>4, PolicyKept DEF IInv, TablesFit

\* CreateRoute keeps the invariant.
LEMMA CreateRouteKeeps ==
  ASSUME IInv, NEW target \in Agents, NEW on \in BOOLEAN, NEW key \in Nat,
         CreateHandoffRoute(target, on, key)
  PROVE  IInv'
<1>1. /\ route = None /\ route' = NewRoute(target, on) /\ target # Source
      /\ receipts' = Append(receipts, RouteReceipt(route', key))
      /\ UNCHANGED <<conv, active, policy, command, assigned, captureVars, run, forms>>
  BY DEF CreateHandoffRoute, CreateRoute, TargetAllowed
<1>2. route' \in Route /\ route'.target = target /\ route'.version = 0
  BY <1>1 DEF NewRoute, Route
<1>3. RouteReceipt(route', key) \in Receipt
  BY <1>2 DEF RouteReceipt, Receipt, Route
<1>4. receipts' \in Seq(Receipt)
  BY <1>1, <1>3 DEF IInv, Types
<1>5. Types' /\ UNCHANGED <<conv, policy, captureVars>>
  BY <1>1, <1>2, <1>4 DEF IInv, Types, captureVars
<1>6. capture # None => capture.keep \/ capture.replay
  BY <1>1 DEF IInv, Types, CaptureFits, Capture
<1>7. RouteFits(route')
  BY <1>1, <1>2 DEF RouteFits
<1>8. CommandsFit'
  BY <1>1 DEF IInv, CommandsFit
<1>9. QED
  BY <1>5, <1>6, <1>7, <1>8, RouteKeeps

\* A step that only changes the command of one admin.
LEMMA CommandKeeps ==
  ASSUME IInv, NEW admin \in Admins, NEW c \in Command \cup {None},
         command' = [command EXCEPT ![admin] = c], c # None => route # None,
         UNCHANGED <<conv, active, policy, route, receipts, assigned, captureVars, run, forms>>
  PROVE  IInv'
<1>1. command' \in [Admins -> Command \cup {None}]
  BY DEF IInv, Types
<1>2. Types' /\ UNCHANGED <<route, captureVars, policy, conv>>
  BY <1>1 DEF IInv, Types, captureVars
<1>3. CommandsFit'
  BY <1>2 DEF IInv, Types, CommandsFit
<1>4. QED
  BY <1>2, <1>3, PolicyKept, FrameKeeps

\* BeginRouteCommand keeps the invariant.
LEMMA BeginRouteCommandKeeps ==
  ASSUME IInv, NEW admin \in Admins, NEW target \in Agents \cup {None}, NEW on \in BOOLEAN,
         NEW v \in Nat, NEW key \in Nat, BeginRouteCommand(admin, target, on, v, key)
  PROVE  IInv'
<1>1. PICK c : c = [target |-> target, on |-> on, expected |-> v, key |-> key, seen |-> route]
  OBVIOUS
<1>2. route \in Route
  BY DEF BeginRouteCommand, IInv, Types
<1>3. c \in Command
  BY <1>1, <1>2 DEF Command
<1>4. c \in Command \cup {None} /\ route # None /\ command' = [command EXCEPT ![admin] = c]
      /\ UNCHANGED <<conv, active, policy, route, receipts, assigned, captureVars, run, forms>>
  BY <1>1, <1>3 DEF BeginRouteCommand
<1>5. QED
  BY <1>4, CommandKeeps

\* RefuseRouteCommand keeps the invariant.
LEMMA RefuseRouteCommandKeeps ==
  ASSUME IInv, NEW admin \in Admins, RefuseRouteCommand(admin)
  PROVE  IInv'
<1>1. None \in Command \cup {None}
  OBVIOUS
<1>2. QED
  BY <1>1, CommandKeeps DEF RefuseRouteCommand

\* What a route command writes.
LEMMA WrittenType ==
  ASSUME NEW c \in Command, route \in Route
  PROVE  Effective(c) \in Route /\ Written(c) \in Route
<1>1. c.target \in Agents \cup {None} /\ c.on \in BOOLEAN /\ c.seen \in Route
  BY DEF Command
<1>2. c.seen.target \in Agents /\ c.seen.active \in BOOLEAN /\ c.seen.version \in Nat
  BY <1>1 DEF Route
<1>3. Effective(c) \in Route
  BY <1>1, <1>2 DEF Effective, Route
<1>4. Written(c) \in Route
  BY <1>2, <1>3 DEF Written, Route
<1>5. QED
  BY <1>3, <1>4

\* FinishRouteCommand keeps the invariant.
LEMMA FinishRouteCommandKeeps ==
  ASSUME IInv, NEW admin \in Admins, FinishRouteCommand(admin)
  PROVE  IInv'
<1>1. PICK c \in Command : c = command[admin]
  BY DEF FinishRouteCommand, IInv, Types
<1>2. route \in Route
  BY DEF FinishRouteCommand, IInv, Types, CommandsFit
<1>3. /\ route' = Written(c) /\ RouteFits(route') /\ RouteLockFree
      /\ receipts' = Append(receipts, RouteReceipt(Effective(c), c.key))
      /\ command' = [command EXCEPT ![admin] = None]
      /\ UNCHANGED <<conv, active, policy, assigned, captureVars, run, forms>>
  BY <1>1 DEF FinishRouteCommand, RouteCommand
<1>4. Effective(c) \in Route /\ route' \in Route
  BY <1>2, <1>3, WrittenType
<1>5. RouteReceipt(Effective(c), c.key) \in Receipt
  BY <1>4 DEF RouteReceipt, Receipt, Route, Command
<1>6. receipts' \in Seq(Receipt) /\ command' \in [Admins -> Command \cup {None}]
  BY <1>3, <1>5 DEF IInv, Types
<1>7. Types' /\ UNCHANGED <<conv, policy, captureVars>>
  BY <1>3, <1>4, <1>6 DEF IInv, Types, captureVars
<1>8. CommandsFit'
  BY <1>4, IntakeAssumption DEF CommandsFit
<1>9. QED
  BY <1>3, <1>7, <1>8, RouteKeeps DEF RouteLockFree

-----------------------------------------------------------------------------
(* The acting agent.                                                        *)

\* An assignment of the acting agent leaves rows of the tables.
LEMMA AssignActingType ==
  ASSUME IInv, NEW target \in Agents, NEW v,
         NEW key \in ({"panel"} \X Nat) \cup ({"handoff"} \X Requests),
         AssignActing(target, v, key)
  PROVE  /\ conv' \in [Conversations -> Conversation]
         /\ conv'[Session].automation_agent = target
         /\ assigned' \in Seq(Assignment)
<1> DEFINE row == AssignmentEvent(target, key)
<1>1. /\ assigned' = Append(assigned, row)
      /\ conv' = [conv EXCEPT ![Session].automation_agent = target,
                              ![Session].automation_version = row.version]
  BY DEF AssignActing
<1>2. Session \in Conversations /\ conv[Session] \in Conversation
  BY IntakeAssumption DEF IInv, Types
<1>3. conv[Session].automation_agent \in Agents /\ conv[Session].automation_version \in Nat
  BY <1>2 DEF Conversation
<1>4. row \in Assignment
  BY <1>3 DEF AssignmentEvent, Assignment, Here
<1>5. row.version \in Nat
  BY <1>4 DEF Assignment
<1> HIDE DEF row
<1>6. conv' \in [Conversations -> Conversation] /\ conv'[Session].automation_agent = target
  BY <1>1, <1>2, <1>5 DEF Conversation, IInv, Types
<1>7. assigned' \in Seq(Assignment)
  BY <1>1, <1>4 DEF IInv, Types
<1>8. QED
  BY <1>6, <1>7

\* AssignInbox keeps the invariant.
LEMMA AssignInboxKeeps ==
  ASSUME IInv, NEW target \in Agents, NEW v, NEW key \in Nat,
         AssignInboxAutomationAgent(target, v, <<"panel", key>>)
  PROVE  IInv'
<1>1. /\ capture = None /\ AssignActing(target, v, <<"panel", key>>)
      /\ UNCHANGED <<active, policy, routeVars, captureVars, run, forms>>
  BY DEF AssignInboxAutomationAgent
<1>2. conv' \in [Conversations -> Conversation] /\ assigned' \in Seq(Assignment)
  <2>1. PICK k : k = <<"panel", key>>
    OBVIOUS
  <2>2. k \in ({"panel"} \X Nat) \cup ({"handoff"} \X Requests)
    BY <2>1
  <2>3. AssignActing(target, v, k)
    BY <1>1, <2>1
  <2>4. QED
    BY <2>2, <2>3, AssignActingType
<1>3. UNCHANGED <<route, receipts, command, requested, contact, opp, created, capture>>
  BY <1>1 DEF routeVars, captureVars
<1>4. Types'
  BY <1>1, <1>2, <1>3 DEF IInv, Types
<1>5. RequestsFit' /\ AnnouncedOnce' /\ ContactFits(contact)' /\ ConsentFits(contact.consents)'
  BY <1>3, DataKept
<1>6. CaptureFits'
  BY <1>1, <1>3 DEF CaptureFits
<1>7. (route # None => RouteFits(route))'
  BY <1>3 DEF IInv, TablesFit, RouteFits, Source
<1>8. PolicyFits(policy)' /\ CommandsFit'
  BY <1>1, <1>3, PolicyKept, CommandsKept
<1>9. QED
  BY <1>4, <1>5, <1>6, <1>7, <1>8 DEF IInv, TablesFit

\* A change of control keeps the invariant.
LEMMA TransitionKeeps ==
  ASSUME IInv, NEW admin \in Admins, NEW target \in Moves, NEW v,
         TransitionInboxConversation(admin, target, v)
  PROVE  IInv'
<1>1. /\ capture = None /\ Transition(Session, admin, target, NoAdmin, v)
      /\ UNCHANGED <<active, policy, routeVars, assigned, captureVars, run, forms>>
  BY DEF TransitionInboxConversation
<1>2. Session \in Conversations /\ target \in Modes /\ NoAdmin \in Admins \cup {NoAdmin}
  BY IntakeAssumption
<1>3. conv \in [Conversations -> Conversation]
  BY DEF IInv, Types
<1>4. conv' \in [Conversations -> Conversation]
  BY <1>1, <1>2, <1>3, TransitionType
<1>5. conv'[Session].automation_agent = conv[Session].automation_agent
  BY <1>1, <1>2, <1>3 DEF Transition, Conversation
<1>6. Types' /\ UNCHANGED <<route, command, captureVars, policy>>
  BY <1>1, <1>4 DEF IInv, Types, routeVars, captureVars
<1>7. QED
  BY <1>5, <1>6, PolicyKept, CommandsKept, FrameKeeps

-----------------------------------------------------------------------------
(* Runs and their forms.                                                    *)

\* StartRun, EndRun and InvokeContactRequest keep the invariant.
LEMMA RunsKeep ==
  ASSUME IInv, (\E id \in Runs : StartRun(id)) \/ EndRun \/ InvokeContactRequest
  PROVE  IInv'
<1>1. UNCHANGED <<conv, active, policy, routeVars, assigned, captureVars>>
  BY DEF StartRun, EndRun, InvokeContactRequest
<1>2. run' \in Run \cup {None} /\ forms' \subseteq Runs
  <2>1. CASE \E id \in Runs : StartRun(id)
    <3>1. PICK id \in Runs : StartRun(id)
      BY <2>1
    <3>2. conv[Session] \in Conversation
      BY IntakeAssumption DEF IInv, Types
    <3>3. run' \in Run /\ forms' = forms
      BY <3>1, <3>2 DEF StartRun, Run, Here, Conversation
    <3>4. QED
      BY <3>3 DEF IInv, Types
  <2>2. CASE EndRun
    BY <2>2 DEF EndRun, IInv, Types
  <2>3. CASE InvokeContactRequest
    <3>1. run \in Run /\ run' = run /\ forms' = forms \cup {run.id}
      BY <2>3 DEF InvokeContactRequest, IInv, Types
    <3>2. QED
      BY <3>1 DEF Run, IInv, Types
  <2>4. QED
    BY <2>1, <2>2, <2>3
<1>3. Types' /\ UNCHANGED <<route, command, captureVars, policy, conv>>
  BY <1>1, <1>2 DEF IInv, Types, routeVars, captureVars
<1>4. QED
  BY <1>3, PolicyKept, CommandsKept, FrameKeeps

-----------------------------------------------------------------------------
(* Consents.                                                                *)

\* A record is appended once.
LEMMA RecordOnce ==
  ASSUME NEW log \in Seq(Consent), ConsentFits(log), NEW row \in Consent
  PROVE  /\ Record(log, row) \in Seq(Consent)
         /\ ConsentFits(Record(log, row))
         /\ \A key : HasKey(Record(log, row), key) <=> HasKey(log, key) \/ key = row.key
         /\ HasKey(log, row.key) => Record(log, row) = log
<1>1. CASE HasKey(log, row.key)
  <2>1. Record(log, row) = log
    BY <1>1 DEF Record
  <2>2. QED
    BY <1>1, <2>1
<1>2. CASE ~HasKey(log, row.key)
  <2>1. PICK q : q = Append(log, row)
    OBVIOUS
  <2>2. PICK n \in Nat : n = Len(log) + 1
    OBVIOUS
  <2>3. /\ q \in Seq(Consent) /\ DOMAIN q = DOMAIN log \cup {n} /\ n \notin DOMAIN log
        /\ q[n] = row /\ \A i \in DOMAIN log : q[i] = log[i]
    BY <2>1, <2>2
  <2>4. \A key : HasKey(q, key) <=> HasKey(log, key) \/ key = row.key
    BY <2>3 DEF HasKey
  <2>5. ConsentFits(q)
    BY <1>2, <2>3 DEF ConsentFits, HasKey
  <2>6. Record(log, row) = q
    BY <1>2, <2>1 DEF Record
  <2>7. QED
    BY <1>2, <2>3, <2>4, <2>5, <2>6
<1>3. QED
  BY <1>1, <1>2

\* A consent granted is a row of the table.
LEMMA GrantType ==
  ASSUME NEW p \in Purposes, NEW r \in Requests
  PROVE  Grant(p, r) \in Consent /\ Grant(p, r).key = <<p, r>>
BY DEF Grant, Consent

\* The consents of a request are recorded once, and no others are.
LEMMA ConsentsOnce ==
  ASSUME NEW log \in Seq(Consent), ConsentFits(log), NEW r \in Requests, NEW input \in Inputs
  PROVE  /\ Consents(log, r, input) \in Seq(Consent)
         /\ ConsentFits(Consents(log, r, input))
         /\ \A key : HasKey(Consents(log, r, input), key) <=>
              \/ HasKey(log, key)
              \/ key = <<"quote", r>>
              \/ input = "consenting" /\ key = <<"follow_up", r>>
         /\ HasKey(log, <<"quote", r>>)
            /\ (input = "consenting" => HasKey(log, <<"follow_up", r>>)) =>
                 Consents(log, r, input) = log
<1>1. PICK g : g = Grant("quote", r) /\ g \in Consent /\ g.key = <<"quote", r>>
  BY GrantType DEF Purposes
<1>2. PICK h : h = Grant("follow_up", r) /\ h \in Consent /\ h.key = <<"follow_up", r>>
  BY GrantType DEF Purposes
<1>3. PICK q : q = Record(log, g)
  OBVIOUS
<1>4. /\ q \in Seq(Consent) /\ ConsentFits(q)
      /\ \A key : HasKey(q, key) <=> HasKey(log, key) \/ key = g.key
      /\ HasKey(log, g.key) => q = log
  BY <1>1, <1>3, RecordOnce
<1>5. CASE input = "consenting"
  <2>1. Consents(log, r, input) = Record(q, h)
    BY <1>1, <1>2, <1>3, <1>5 DEF Consents
  <2>2. /\ Record(q, h) \in Seq(Consent) /\ ConsentFits(Record(q, h))
        /\ \A key : HasKey(Record(q, h), key) <=> HasKey(q, key) \/ key = h.key
        /\ HasKey(q, h.key) => Record(q, h) = q
    BY <1>2, <1>4, RecordOnce
  <2>3. QED
    BY <1>1, <1>2, <1>4, <1>5, <2>1, <2>2
<1>6. CASE input # "consenting"
  <2>1. Consents(log, r, input) = q
    BY <1>1, <1>3, <1>6 DEF Consents
  <2>2. QED
    BY <1>1, <1>4, <1>6, <2>1
<1>7. QED
  BY <1>5, <1>6

\* Revoking a consent keeps the invariant.
LEMMA RevokeKeeps ==
  ASSUME IInv, RevokeFollowUpConsent
  PROVE  IInv'
<1> DEFINE S == {i \in DOMAIN contact.consents : contact.consents[i].action = "revoke"}
<1>1. contact \in Contact /\ contact.consents \in Seq(Consent)
  BY DEF IInv, Types, Contact
<1>2. PICK n \in Nat : n = Cardinality(S)
  <2>1. PICK m \in Nat : m = Len(contact.consents) /\ DOMAIN contact.consents = 1..m
    BY <1>1
  <2>2. IsFiniteSet(1..m)
    BY <2>1, FS_Interval
  <2>3. S \subseteq 1..m
    BY <2>1
  <2>4. IsFiniteSet(S)
    BY <2>2, <2>3, FS_Subset
  <2>5. QED
    BY <2>4, FS_CardinalityType
<1>3. PICK row : row = [purpose |-> "follow_up", action |-> "revoke", key |-> <<"revoke", n>>]
  OBVIOUS
<1>4. row \in Consent /\ row.key = <<"revoke", n>>
  BY <1>3 DEF Consent, Purposes
<1>5. /\ contact' = [contact EXCEPT !.consents = Record(contact.consents, row)]
      /\ UNCHANGED <<conv, active, policy, routeVars, assigned, requested, opp, created, capture,
                     run, forms>>
  BY <1>2, <1>3 DEF RevokeFollowUpConsent
<1>6. PICK q : q = Record(contact.consents, row)
  OBVIOUS
<1>7. /\ q \in Seq(Consent) /\ ConsentFits(q)
      /\ \A key : HasKey(q, key) <=> HasKey(contact.consents, key) \/ key = row.key
  BY <1>1, <1>4, <1>6, RecordOnce DEF IInv, TablesFit
<1>8. contact' \in Contact /\ contact'.consents = q /\ contact'.point = contact.point
      /\ contact'.known = contact.known
  BY <1>1, <1>5, <1>6, <1>7 DEF Contact
<1>9. UNCHANGED <<route, receipts, command>>
  BY <1>5 DEF routeVars
<1>10. Types'
  BY <1>5, <1>8, <1>9 DEF IInv, Types
<1>11. ContactFits(contact)' /\ ConsentFits(contact.consents)'
  BY <1>7, <1>8 DEF IInv, TablesFit, ContactFits, ConsentFits
<1>12. \A p \in Purposes, r \in Requests :
         HasKey(contact'.consents, <<p, r>>) <=> HasKey(contact.consents, <<p, r>>)
  BY <1>4, <1>7, <1>8 DEF Purposes
<1>13. RequestsFit'
  <2>1. ASSUME NEW r \in Requests PROVE RequestFits(r)'
    <3>1. RequestFits(r)
      BY DEF IInv, RequestsFit
    <3>2. \A p \in Purposes :
            HasKey(contact.consents, <<p, r>>)' <=> HasKey(contact.consents, <<p, r>>)
      BY <1>12 DEF HasKey
    <3>3. "quote" \in Purposes /\ "follow_up" \in Purposes
      BY DEF Purposes
    <3>4. QED
      BY <1>5, <1>8, <3>1, <3>2, <3>3 DEF RequestFits
  <2>2. QED
    BY <2>1 DEF RequestsFit
<1>14. AnnouncedOnce' /\ CaptureFits'
  BY <1>5, <1>9, CaptureKept DEF IInv, AnnouncedOnce
<1>15. (route # None => RouteFits(route))' /\ PolicyFits(policy)' /\ CommandsFit'
  BY <1>5, <1>9, PolicyKept, CommandsKept DEF IInv, TablesFit, RouteFits, Source
<1>16. QED
  BY <1>10, <1>11, <1>13, <1>14, <1>15 DEF IInv, TablesFit

-----------------------------------------------------------------------------
(* Captures.                                                                *)

\* A step that only opens, ends or drops a capture.
LEMMA CaptureOnly ==
  ASSUME IInv, capture' \in Capture \cup {None}, CaptureFits',
         UNCHANGED <<conv, active, policy, routeVars, assigned, requested, contact, opp, created,
                     run, forms>>
  PROVE  IInv'
<1>1. UNCHANGED <<route, receipts, command>>
  BY DEF routeVars
<1>2. Types'
  BY <1>1 DEF IInv, Types
<1>3. RequestsFit' /\ AnnouncedOnce' /\ ContactFits(contact)' /\ ConsentFits(contact.consents)'
  BY DataKept
<1>4. (route # None => RouteFits(route))' /\ PolicyFits(policy)' /\ CommandsFit'
  BY <1>1, PolicyKept, CommandsKept DEF IInv, TablesFit, RouteFits, Source
<1>5. QED
  BY <1>2, <1>3, <1>4 DEF IInv, TablesFit

\* BeginCapture keeps the invariant.
LEMMA BeginCaptureKeeps ==
  ASSUME IInv, NEW r \in Requests, NEW input \in Inputs, BeginCapture(r, input)
  PROVE  IInv'
<1> DEFINE replay == opp[r] # None
           keep == policy.action = "keep_agent"
           target == IF replay THEN None ELSE IF keep THEN Here.automation_agent
                     ELSE route.target
<1>1. /\ ReceiptAllows(r, input) /\ (~replay /\ ~keep => ActiveQuoteRoute)
      /\ capture' = [request |-> r, input |-> input, replay |-> replay, keep |-> keep,
                     target |-> target]
      /\ UNCHANGED <<conv, active, policy, routeVars, assigned, requested, contact, opp, created,
                     run, forms>>
  BY DEF BeginCapture
<1>2. target \in Agents \cup {None}
  <2>1. conv[Session].automation_agent \in Agents
    BY IntakeAssumption DEF IInv, Types, Conversation
  <2>2. ~replay /\ ~keep => route.target \in Agents
    BY <1>1 DEF ActiveQuoteRoute, IInv, Types, Route
  <2>3. QED
    BY <2>1, <2>2 DEF Here
<1>3. PICK a \in BOOLEAN, b \in BOOLEAN, t \in Agents \cup {None} :
        a = replay /\ b = keep /\ t = target
  BY <1>2
<1>4. capture' = [request |-> r, input |-> input, replay |-> a, keep |-> b, target |-> t]
  BY <1>1, <1>3
<1>5. capture' \in Capture
  BY <1>4 DEF Capture
<1>6. /\ capture'.request = r /\ capture'.input = input /\ capture'.replay = a
      /\ capture'.keep = b /\ capture'.target = t
  BY <1>4
<1>7. UNCHANGED <<conv, route, requested, opp>>
  BY <1>1 DEF routeVars
<1>8. a <=> opp[r] # None
  BY <1>3
<1>9. requested[r] \in {None, input}
  BY <1>1 DEF ReceiptAllows
<1>10. ~a /\ b => t = conv[Session].automation_agent
  BY <1>3 DEF Here
<1>11. ~a /\ ~b => route # None /\ route.active /\ route.target = t
  BY <1>1, <1>3 DEF ActiveQuoteRoute
<1>12. CaptureFits'
  BY <1>6, <1>7, <1>8, <1>9, <1>10, <1>11 DEF CaptureFits, Here
<1>13. QED
  BY <1>1, <1>5, <1>12, CaptureOnly

\* AbortCapture keeps the invariant.
LEMMA AbortCaptureKeeps ==
  ASSUME IInv, AbortCapture
  PROVE  IInv'
<1>1. capture' = None
      /\ UNCHANGED <<conv, active, policy, routeVars, assigned, requested, contact, opp, created,
                     run, forms>>
  BY DEF AbortCapture
<1>2. CaptureFits' /\ capture' \in Capture \cup {None}
  BY <1>1 DEF CaptureFits
<1>3. QED
  BY <1>1, <1>2, CaptureOnly

\* What every commit of a capture writes.
LEMMA CommitWrites ==
  ASSUME IInv, CommitCapture
  PROVE  /\ capture \in Capture /\ capture # None /\ capture' = None
         /\ requested' = [requested EXCEPT ![capture.request] = capture.input]
         /\ contact' \in Contact
         /\ contact'.known = TRUE /\ contact'.point = TRUE
         /\ contact'.consents = Consents(contact.consents, capture.request, capture.input)
         /\ ConsentFits(contact'.consents)
         /\ UNCHANGED <<active, policy, routeVars, run, forms>>
<1>1. capture \in Capture /\ capture # None /\ capture' = None
  BY DEF CommitCapture, IInv, Types
<1>2. PICK r \in Requests, input \in Inputs : r = capture.request /\ input = capture.input
  BY <1>1 DEF Capture
<1>3. contact \in Contact /\ contact.consents \in Seq(Consent) /\ ConsentFits(contact.consents)
  BY DEF IInv, Types, Contact, TablesFit
<1>4. PICK q : q = Consents(contact.consents, r, input)
  OBVIOUS
<1>5. q \in Seq(Consent) /\ ConsentFits(q)
  BY <1>3, <1>4, ConsentsOnce
<1>6. PICK c : c = [contact EXCEPT !.known = TRUE]
  OBVIOUS
<1>7. c \in Contact /\ c.known = TRUE /\ c.consents = contact.consents
  BY <1>3, <1>6 DEF Contact
<1>8. PICK d : d = [c EXCEPT !.point = TRUE]
  OBVIOUS
<1>9. d \in Contact /\ d.known = TRUE /\ d.point = TRUE /\ d.consents = contact.consents
  BY <1>7, <1>8 DEF Contact
<1>10. d = AddContactPoint(EnsureContact(contact))
  BY <1>6, <1>8 DEF AddContactPoint, EnsureContact
<1>11. contact' = [d EXCEPT !.consents = Consents(d.consents, r, input)]
  BY <1>2, <1>10 DEF CommitCapture
<1>12. contact' = [d EXCEPT !.consents = q]
  BY <1>4, <1>9, <1>11
<1>13. contact' \in Contact /\ contact'.known = TRUE /\ contact'.point = TRUE
       /\ contact'.consents = q
  BY <1>5, <1>9, <1>12 DEF Contact
<1>14. QED
  BY <1>1, <1>2, <1>4, <1>5, <1>13 DEF CommitCapture

\* A request sent again changes nothing.
LEMMA ReplayChangesNothing ==
  ASSUME IInv, CommitCapture, opp[capture.request] # None
  PROVE  UNCHANGED <<conv, assigned, requested, contact, opp, created>>
<1>1. /\ capture \in Capture /\ capture # None /\ capture' = None
      /\ requested' = [requested EXCEPT ![capture.request] = capture.input]
      /\ contact' \in Contact
      /\ contact'.known = TRUE /\ contact'.point = TRUE
      /\ contact'.consents = Consents(contact.consents, capture.request, capture.input)
  BY CommitWrites
<1>2. PICK r \in Requests, input \in Inputs : r = capture.request /\ input = capture.input
  BY <1>1 DEF Capture
<1>3. capture.replay
  BY <1>1 DEF IInv, CaptureFits
<1>4. UNCHANGED <<opp, conv, assigned, created>>
  BY <1>3 DEF CommitCapture
<1>5. RequestFits(r) /\ opp[r] # None
  BY <1>2 DEF IInv, RequestsFit
<1>6. requested[r] = input
  BY <1>1, <1>2, <1>5 DEF IInv, CaptureFits, RequestFits
<1>7. requested' = requested
  BY <1>1, <1>2, <1>6 DEF IInv, Types
<1>8. contact \in Contact /\ contact.consents \in Seq(Consent) /\ ConsentFits(contact.consents)
      /\ contact.point = TRUE /\ contact.known = TRUE
  BY <1>5 DEF IInv, Types, Contact, TablesFit, ContactFits, RequestFits
<1>9. Consents(contact.consents, r, input) = contact.consents
  <2>1. HasKey(contact.consents, <<"quote", r>>)
        /\ (input = "consenting" => HasKey(contact.consents, <<"follow_up", r>>))
    BY <1>5, <1>6 DEF RequestFits
  <2>2. QED
    BY <1>8, <2>1, ConsentsOnce
<1>10. contact'.consents = contact.consents /\ contact'.known = contact.known
       /\ contact'.point = contact.point
  BY <1>1, <1>2, <1>8, <1>9
<1>11. contact' = contact
  BY <1>1, <1>8, <1>10 DEF Contact
<1>12. QED
  BY <1>4, <1>7, <1>11

\* A new request: its opportunity goes to the agent that answers from then on.
LEMMA FreshCommit ==
  ASSUME IInv, CommitCapture, opp[capture.request] = None
  PROVE  /\ capture.target \in Agents /\ capture.target \in active.on
         /\ opp' = [opp EXCEPT ![capture.request] = capture.target]
         /\ created' = Append(created, capture.request)
         /\ conv' \in [Conversations -> Conversation] /\ assigned' \in Seq(Assignment)
         /\ conv'[Session].automation_agent = capture.target
         /\ IF capture.keep THEN UNCHANGED <<conv, assigned>>
            ELSE /\ AssignActing(capture.target, Here.automation_version,
                                 <<"handoff", capture.request>>)
                 /\ route.active /\ route.target = capture.target
<1>1. capture \in Capture /\ capture # None
  BY CommitWrites
<1>2. ~capture.replay
  BY <1>1 DEF IInv, CaptureFits
<1>3. QuoteRequested(capture.request, capture.keep, capture.target)
      /\ created' = Append(created, capture.request)
  BY <1>2 DEF CommitCapture
<1>4. capture.target \in active.on /\ opp' = [opp EXCEPT ![capture.request] = capture.target]
  BY <1>3 DEF QuoteRequested
<1>5. capture.target \in Agents
  BY <1>4 DEF IInv, Types, Active
<1>6. CASE capture.keep
  <2>1. UNCHANGED <<conv, assigned>>
    BY <1>3, <1>6 DEF QuoteRequested
  <2>2. capture.target = conv[Session].automation_agent
    BY <1>1, <1>2, <1>6 DEF IInv, CaptureFits, Here
  <2>3. QED
    BY <1>3, <1>4, <1>5, <1>6, <2>1, <2>2 DEF IInv, Types
<1>7. CASE ~capture.keep
  <2>1. AssignActing(capture.target, Here.automation_version, <<"handoff", capture.request>>)
    BY <1>3, <1>7 DEF QuoteRequested
  <2>2. PICK key \in ({"panel"} \X Nat) \cup ({"handoff"} \X Requests) :
          key = <<"handoff", capture.request>>
    BY <1>1 DEF Capture
  <2>3. PICK t \in Agents : t = capture.target
    BY <1>5
  <2>v. PICK v : v = Here.automation_version
    OBVIOUS
  <2>4. AssignActing(t, v, key)
    BY <2>1, <2>2, <2>3, <2>v
  <2>5. /\ conv' \in [Conversations -> Conversation]
        /\ conv'[Session].automation_agent = t
        /\ assigned' \in Seq(Assignment)
    BY <2>4, AssignActingType
  <2>6. route.active /\ route.target = capture.target
    BY <1>1, <1>2, <1>7 DEF IInv, CaptureFits
  <2>7. QED
    BY <1>3, <1>4, <1>5, <1>7, <2>1, <2>3, <2>5, <2>6
<1>8. QED
  BY <1>6, <1>7

\* CommitCapture keeps the invariant.
LEMMA CommitCaptureKeeps ==
  ASSUME IInv, CommitCapture
  PROVE  IInv'
<1>1. /\ capture \in Capture /\ capture # None /\ capture' = None
      /\ requested' = [requested EXCEPT ![capture.request] = capture.input]
      /\ contact' \in Contact
      /\ contact'.known = TRUE /\ contact'.point = TRUE
      /\ contact'.consents = Consents(contact.consents, capture.request, capture.input)
      /\ ConsentFits(contact'.consents)
      /\ UNCHANGED <<active, policy, routeVars, run, forms>>
  BY CommitWrites
<1>2. CaptureFits' /\ capture' \in Capture \cup {None}
  BY <1>1 DEF CaptureFits
<1>3. CASE opp[capture.request] # None
  <2>1. UNCHANGED <<conv, assigned, requested, contact, opp, created>>
    BY <1>3, ReplayChangesNothing
  <2>2. QED
    BY <1>1, <1>2, <2>1, CaptureOnly
<1>4. CASE opp[capture.request] = None
  <2>1. PICK r \in Requests, input \in Inputs, t \in Agents :
          r = capture.request /\ input = capture.input /\ t = capture.target
    BY <1>1, <1>4, FreshCommit DEF Capture
  <2>2. /\ opp' = [opp EXCEPT ![r] = t] /\ created' = Append(created, r)
        /\ conv' \in [Conversations -> Conversation] /\ assigned' \in Seq(Assignment)
    BY <1>4, <2>1, FreshCommit
  <2>3. t # None /\ input # None
    BY IntakeAssumption
  <2>4. /\ opp' \in [Requests -> Agents \cup {None}] /\ opp'[r] = t
        /\ requested' \in [Requests -> Inputs \cup {None}] /\ requested'[r] = input
        /\ \A q \in Requests \ {r} : opp'[q] = opp[q] /\ requested'[q] = requested[q]
    BY <1>1, <2>1, <2>2 DEF IInv, Types
  <2>5. PICK n \in Nat :
        /\ created' \in Seq(Requests) /\ DOMAIN created' = DOMAIN created \cup {n}
        /\ n \notin DOMAIN created /\ created'[n] = r
        /\ \A i \in DOMAIN created : created'[i] = created[i]
    <3>1. created \in Seq(Requests) /\ Len(created) + 1 \in Nat
      BY DEF IInv, Types
    <3>2. QED
      BY <2>2, <3>1
  <2>6. RequestFits(r) /\ opp[r] = None
    BY <1>4, <2>1 DEF IInv, RequestsFit
  <2>7. AnnouncedOnce'
    BY <2>5, <2>6 DEF IInv, AnnouncedOnce, RequestFits
  <2>8. contact.consents \in Seq(Consent) /\ ConsentFits(contact.consents)
    BY DEF IInv, Types, Contact, TablesFit
  <2>9. \A key : HasKey(contact.consents, key)' <=>
              \/ HasKey(contact.consents, key)
              \/ key = <<"quote", r>>
              \/ input = "consenting" /\ key = <<"follow_up", r>>
    <3>1. PICK q : q = contact.consents
      OBVIOUS
    <3>2. PICK p : p = Consents(q, r, input)
      OBVIOUS
    <3>3. \A key : HasKey(p, key) <=>
              \/ HasKey(q, key)
              \/ key = <<"quote", r>>
              \/ input = "consenting" /\ key = <<"follow_up", r>>
      BY <2>8, <3>1, <3>2, ConsentsOnce
    <3>4. contact'.consents = p
      BY <1>1, <2>1, <3>1, <3>2
    <3>5. QED
      BY <3>1, <3>3, <3>4 DEF HasKey
  <2>10. "quote" \in Purposes /\ "follow_up" \in Purposes
    BY DEF Purposes
  <2>11. RequestFits(r)'
    <3>1. ~HasKey(contact.consents, <<"follow_up", r>>)
      BY <2>6, <2>10 DEF RequestFits
    <3>2. HasKey(contact.consents, <<"quote", r>>)'
      BY <2>9
    <3>3. HasKey(contact.consents, <<"follow_up", r>>)' <=> input = "consenting"
      BY <2>9, <3>1
    <3>4. \E i \in DOMAIN created' : created'[i] = r
      BY <2>5
    <3>5. QED
      BY <1>1, <2>3, <2>4, <3>2, <3>3, <3>4 DEF RequestFits
  <2>12. ASSUME NEW q \in Requests, q # r PROVE RequestFits(q)'
    <3>1. RequestFits(q)
      BY DEF IInv, RequestsFit
    <3>2. \A p \in Purposes :
            HasKey(contact.consents, <<p, q>>)' <=> HasKey(contact.consents, <<p, q>>)
      BY <2>9, <2>12
    <3>3. (\E i \in DOMAIN created' : created'[i] = q) <=> \E i \in DOMAIN created : created[i] = q
      BY <2>5, <2>12
    <3>4. opp'[q] = opp[q] /\ requested'[q] = requested[q]
      BY <2>4, <2>12
    <3>5. QED
      BY <1>1, <2>10, <3>1, <3>2, <3>3, <3>4 DEF RequestFits
  <2>13. RequestsFit'
    BY <2>11, <2>12 DEF RequestsFit
  <2>14. UNCHANGED <<route, receipts, command>>
    BY <1>1 DEF routeVars
  <2>15. Types'
    BY <1>1, <1>2, <2>2, <2>4, <2>5, <2>14 DEF IInv, Types
  <2>16. ContactFits(contact)' /\ ConsentFits(contact.consents)'
    BY <1>1 DEF ContactFits, ConsentFits
  <2>17. (route # None => RouteFits(route))' /\ PolicyFits(policy)' /\ CommandsFit'
    BY <1>1, <2>14, PolicyKept, CommandsKept DEF IInv, TablesFit, RouteFits, Source
  <2>18. QED
    BY <1>2, <2>7, <2>13, <2>15, <2>16, <2>17 DEF IInv, TablesFit
<1>5. QED
  BY <1>3, <1>4

-----------------------------------------------------------------------------
(* The invariant.                                                           *)

\* The invariant holds at the start.
LEMMA InitHolds == Init => IInv
<1> SUFFICES ASSUME Init PROVE IInv
  OBVIOUS
<1>1. conv \in [Conversations -> Conversation]
  BY InitialType DEF Init
<1>2. Source \in Agents
  BY ControlAssumption, IntakeAssumption DEF Source
<1>3. active \in Active /\ policy \in Policy /\ policy.action = "handoff"
  BY <1>2 DEF Init, Active, Policy, Actions
<1>4. contact \in Contact /\ contact.point = FALSE /\ contact.consents = << >>
  BY DEF Init, Contact
<1>5. Types
  BY <1>1, <1>3, <1>4 DEF Init, Types
<1>6. TablesFit /\ CommandsFit /\ CaptureFits
  BY <1>3, <1>4 DEF Init, TablesFit, PolicyFits, Policy, ContactFits, ConsentFits, CommandsFit,
     CaptureFits
<1>7. RequestsFit /\ AnnouncedOnce
  BY <1>4 DEF Init, RequestsFit, RequestFits, AnnouncedOnce, HasKey
<1>8. QED
  BY <1>5, <1>6, <1>7 DEF IInv

\* Every step keeps the invariant.
LEMMA NextKeeps == IInv /\ [Next]_vars => IInv'
<1> SUFFICES ASSUME IInv, [Next]_vars PROVE IInv'
  OBVIOUS
<1> USE DEF IInv
<1>1. CASE \E agent \in Agents : ActivateProfile(agent)
  BY <1>1, ActivateProfileKeeps
<1>2. CASE \E public \in BOOLEAN : UpdateProfile(public)
  BY <1>2, UpdateProfileKeeps
<1>3. CASE \E action \in Actions, v \in Shown(policy.version) :
             ConfigureProgressionPolicy(action, v)
  BY <1>3, ConfigureKeeps
<1>4. CASE \E target \in Agents, on \in BOOLEAN, key \in Shown(Len(receipts)) :
             CreateHandoffRoute(target, on, key)
  <2>1. Len(receipts) \in Nat
    BY DEF Types
  <2>2. QED
    BY <1>4, <2>1, ShownType, CreateRouteKeeps
<1>5. ASSUME NEW admin \in Admins, route # None,
             NEW v \in Shown(route.version), NEW key \in Len(receipts)..MaxRoute,
             \/ \E target \in Agents, on \in BOOLEAN :
                  UpdateHandoffRoute(admin, target, on, v, key)
             \/ DeactivateHandoffRoute(admin, v, key)
      PROVE  IInv'
  <2>1. v \in Nat
    BY <1>5, ShownType DEF Types, Route
  <2>2. key \in Nat
    <3>1. Len(receipts) \in Nat
      BY DEF Types
    <3>2. QED
      BY <3>1, IntakeAssumption
  <2>3. None \in Agents \cup {None} /\ FALSE \in BOOLEAN
    OBVIOUS
  <2>4. QED
    BY <1>5, <2>1, <2>2, <2>3, BeginRouteCommandKeeps DEF UpdateHandoffRoute, DeactivateHandoffRoute
<1>6. ASSUME NEW admin \in Admins, FinishRouteCommand(admin) \/ RefuseRouteCommand(admin)
      PROVE  IInv'
  BY <1>6, FinishRouteCommandKeeps, RefuseRouteCommandKeeps
<1>7. ASSUME NEW admin \in Admins, NEW target \in Moves, NEW v,
             TransitionInboxConversation(admin, target, v)
      PROVE  IInv'
  BY <1>7, TransitionKeeps
<1>8. CASE \E target \in Agents, v \in Shown(Here.automation_version),
              key \in Shown(Len(assigned)) :
             AssignInboxAutomationAgent(target, v, <<"panel", key>>)
  <2>1. Len(assigned) \in Nat
    BY DEF Types
  <2>2. QED
    BY <1>8, <2>1, ShownType, AssignInboxKeeps
<1>9. CASE RevokeFollowUpConsent
  BY <1>9, RevokeKeeps
<1>10. CASE \E r \in Requests, input \in Inputs : BeginCapture(r, input)
  BY <1>10, BeginCaptureKeeps
<1>11. CASE CommitCapture \/ AbortCapture
  BY <1>11, CommitCaptureKeeps, AbortCaptureKeeps
<1>12. CASE (\E id \in Runs : StartRun(id)) \/ EndRun \/ InvokeContactRequest
  BY <1>12, RunsKeep
<1>13. CASE UNCHANGED vars
  <2>1. UNCHANGED <<conv, active, policy, routeVars, assigned, captureVars, run, forms>>
    BY <1>13 DEF vars
  <2>2. Types' /\ UNCHANGED <<route, command, captureVars, policy, conv>>
    BY <2>1 DEF Types, routeVars, captureVars
  <2>3. QED
    BY <2>2, PolicyKept, CommandsKept, FrameKeeps
<1>14. QED
  BY <1>1, <1>2, <1>3, <1>4, <1>5, <1>6, <1>7, <1>8, <1>9, <1>10, <1>11, <1>12, <1>13 DEF Next

-----------------------------------------------------------------------------
(* The theorems.                                                            *)

\* IInv holds in every reachable state.
THEOREM Invariance == Spec => []IInv
BY InitHolds, NextKeeps, PTL DEF Spec

\* Rows have the shapes of their tables and keep their constraints (TypeOK).
THEOREM TypeCorrect == Spec => []TypeOK
<1>1. IInv => TypeOK
  BY DEF IInv, Types, TablesFit, TypeOK
<1>2. QED
  BY <1>1, Invariance, PTL

\* A request leaves everything or nothing (CaptureIsWhole): however often it is
\* sent, aborted and sent again, it has one opportunity, one announcement, its
\* receipt, the contact point and exactly the consents it gave.
THEOREM CapturesAreWhole == Spec => []CaptureIsWhole
<1>1. ASSUME IInv PROVE CaptureIsWhole
  <2>1. ASSUME NEW r \in Requests, opp[r] = None
        PROVE  /\ requested[r] = None /\ ~HasKey(contact.consents, <<"quote", r>>)
               /\ Cardinality({i \in DOMAIN created : created[i] = r}) = 0
    <3>1. RequestFits(r) /\ "quote" \in Purposes
      BY <1>1 DEF IInv, RequestsFit, Purposes
    <3>2. {i \in DOMAIN created : created[i] = r} = {}
      BY <2>1, <3>1 DEF RequestFits
    <3>3. QED
      BY <2>1, <3>1, <3>2, FS_EmptySet DEF RequestFits
  <2>2. ASSUME NEW r \in Requests, opp[r] # None
        PROVE  /\ contact.point /\ HasKey(contact.consents, <<"quote", r>>)
               /\ HasKey(contact.consents, <<"follow_up", r>>) = (requested[r] = "consenting")
               /\ Cardinality({i \in DOMAIN created : created[i] = r}) = 1
    <3>1. RequestFits(r)
      BY <1>1 DEF IInv, RequestsFit
    <3>2. PICK i \in DOMAIN created : created[i] = r
      BY <2>2, <3>1 DEF RequestFits
    <3>3. {j \in DOMAIN created : created[j] = r} = {i}
      BY <1>1, <3>2 DEF IInv, AnnouncedOnce
    <3>4. Cardinality({j \in DOMAIN created : created[j] = r}) = 1
      BY <3>3, FS_Singleton
    <3>5. HasKey(contact.consents, <<"follow_up", r>>) \in BOOLEAN
      BY DEF HasKey
    <3>6. contact.point /\ HasKey(contact.consents, <<"quote", r>>)
          /\ (HasKey(contact.consents, <<"follow_up", r>>) <=> requested[r] = "consenting")
      BY <2>2, <3>1 DEF RequestFits
    <3>7. QED
      BY <3>4, <3>5, <3>6
  <2>3. QED
    BY <2>1, <2>2 DEF CaptureIsWhole
<1>2. QED
  BY <1>1, Invariance, PTL

\* Only a commit writes what requests leave, and only the tool shows a form.
LEMMA Writers ==
  ASSUME [Next]_vars
  PROVE  /\ UNCHANGED <<opp, created>> \/ CommitCapture
         /\ UNCHANGED capture \/ CommitCapture \/ AbortCapture
              \/ \E r \in Requests, input \in Inputs : BeginCapture(r, input)
         /\ UNCHANGED forms \/ InvokeContactRequest
BY DEF Next, vars, ActivateProfile, UpdateProfile, ConfigureProgressionPolicy, CreateHandoffRoute,
   UpdateHandoffRoute, DeactivateHandoffRoute, BeginRouteCommand, FinishRouteCommand,
   RefuseRouteCommand, TransitionInboxConversation, AssignInboxAutomationAgent,
   RevokeFollowUpConsent, BeginCapture, AbortCapture, CommitCapture, StartRun, EndRun,
   InvokeContactRequest, captureVars

\* An opportunity is given once, to the agent that answers the conversation from
\* then on, which under a handoff is the target of an active route; and a form
\* appears only while the run that asks for it has the conversation.
THEOREM AgentsFollowed == Spec => FollowsTheAgent
<1>1. ASSUME IInv, [Next]_vars, NEW r \in Requests, opp'[r] # opp[r]
      PROVE  /\ opp[r] = None
             /\ opp'[r] = conv'[Session].automation_agent
             /\ opp'[r] \in active.on
             /\ IF capture.keep THEN conv' = conv
                ELSE route.active /\ route.target = opp'[r]
  <2>1. CommitCapture
    BY <1>1, Writers
  <2>2. opp[capture.request] = None
    BY <1>1, <2>1, ReplayChangesNothing
  <2>3. /\ capture.target \in active.on
        /\ opp' = [opp EXCEPT ![capture.request] = capture.target]
        /\ conv'[Session].automation_agent = capture.target
        /\ IF capture.keep THEN UNCHANGED <<conv, assigned>>
           ELSE route.active /\ route.target = capture.target
    BY <1>1, <2>1, <2>2, FreshCommit
  <2>4. opp \in [Requests -> Agents \cup {None}]
    BY <1>1 DEF IInv, Types
  <2>5. r = capture.request /\ opp'[r] = capture.target
    BY <1>1, <2>3, <2>4
  <2>6. QED
    BY <2>2, <2>3, <2>5
<1>2. ASSUME [Next]_vars, forms' # forms
      PROVE  /\ Here.control_mode = "automated"
             /\ run.agent = Here.automation_agent
             /\ run.control = Here.control_version
  BY <1>2, Writers DEF InvokeContactRequest, ScopedConversation
<1>3. IInv /\ [Next]_vars =>
        /\ [\A r \in Requests : opp'[r] # opp[r] =>
              /\ opp[r] = None
              /\ opp'[r] = conv'[Session].automation_agent
              /\ opp'[r] \in active.on
              /\ IF capture.keep THEN conv' = conv
                 ELSE route.active /\ route.target = opp'[r]]_vars
        /\ [forms' # forms =>
              /\ Here.control_mode = "automated"
              /\ run.agent = Here.automation_agent
              /\ run.control = Here.control_version]_vars
  BY <1>1, <1>2
<1>4. QED
  BY <1>3, Invariance, PTL DEF Spec, FollowsTheAgent

-----------------------------------------------------------------------------
(* Commands apply once.                                                     *)

\* The acting agent of the session with its epoch.
Epoch == <<Here.automation_agent, Here.automation_version>>

\* The receipts of a sequence of assignments, one for one.
LEMMA AssignmentsLog ==
  ASSUME NEW s \in Seq(Assignment), NEW log,
         log = [i \in DOMAIN s |-> [key |-> s[i].key, value |-> <<s[i].to, s[i].version>>]]
  PROVE  /\ DOMAIN log = DOMAIN s
         /\ Len(log) = Len(s)
         /\ \A i \in DOMAIN s :
              /\ log[i].key = s[i].key
              /\ log[i].value = <<s[i].to, s[i].version>>
<1>1. PICK n \in Nat : n = Len(s) /\ DOMAIN s = 1..n
  OBVIOUS
<1>2. PICK S : \A i \in DOMAIN s : log[i] \in S
  <2>1. \A i \in DOMAIN s : log[i] \in {log[j] : j \in DOMAIN s}
    OBVIOUS
  <2>2. QED
    BY <2>1
<1>3. DOMAIN log = 1..n
  BY <1>1
<1>4. log = [i \in 1..n |-> log[i]]
  BY <1>1
<1>5. log \in Seq(S)
  BY <1>1, <1>2, <1>4, SeqDef
<1>6. Len(log) = n
  BY <1>3, <1>5
<1>7. \A i \in DOMAIN s :
        /\ log[i].key = s[i].key
        /\ log[i].value = <<s[i].to, s[i].version>>
  OBVIOUS
<1>8. QED
  BY <1>1, <1>3, <1>6, <1>7

\* An assignment is recorded under a key of its own and leaves the session at it.
LEMMA AssignRecords ==
  ASSUME IInv, NEW target \in Agents, NEW v, NEW key, AssignActing(target, v, key),
         assigned' \in Seq(Assignment)
  PROVE  Epochs!Recorded(Session)
<1> DEFINE row == AssignmentEvent(target, key)
<1>1. /\ assigned' = Append(assigned, row) /\ ~HasKey(assigned, key)
      /\ conv' = [conv EXCEPT ![Session].automation_agent = target,
                              ![Session].automation_version = row.version]
  BY DEF AssignActing
<1>2. row.key = key /\ row.to = target
  BY DEF AssignmentEvent
<1>3. conv[Session] \in Conversation /\ Session \in Conversations
      /\ conv \in [Conversations -> Conversation] /\ assigned \in Seq(Assignment)
  BY IntakeAssumption DEF IInv, Types
<1> HIDE DEF row
<1>4. Epoch' = <<target, row.version>>
  BY <1>1, <1>3 DEF Epoch, Here, Conversation
<1>5. PICK n \in Nat : n = Len(assigned')
  OBVIOUS
<1>6. /\ n = Len(assigned) + 1 /\ DOMAIN assigned' = DOMAIN assigned \cup {n}
      /\ n \in DOMAIN assigned' /\ assigned'[n] = row
      /\ \A i \in DOMAIN assigned : assigned'[i] = assigned[i]
  BY <1>1, <1>3, <1>5
<1>7. /\ DOMAIN Assignments = DOMAIN assigned
      /\ Len(Assignments) = Len(assigned)
      /\ \A i \in DOMAIN assigned : Assignments[i].key = assigned[i].key
  BY <1>3, AssignmentsLog DEF Assignments
<1>8. /\ Len(Assignments') = n
      /\ Assignments'[n].key = key /\ Assignments'[n].value = <<target, row.version>>
  <2>1. /\ Len(Assignments') = Len(assigned')
        /\ \A i \in DOMAIN assigned' :
             /\ Assignments'[i].key = assigned'[i].key
             /\ Assignments'[i].value = <<assigned'[i].to, assigned'[i].version>>
    BY AssignmentsLog DEF Assignments
  <2>2. QED
    BY <1>2, <1>5, <1>6, <2>1
<1>9. \A i \in DOMAIN assigned : Assignments'[i] = Assignments[i]
  BY <1>6 DEF Assignments
<1>10. \A i \in DOMAIN assigned : assigned[i].key # key
  BY <1>1 DEF HasKey
<1>11. QED
  BY <1>4, <1>6, <1>7, <1>8, <1>9, <1>10 DEF Epochs!Recorded, Epoch

\* The acting agent and its epoch stay, or one assignment is recorded.
LEMMA EpochStep ==
  ASSUME IInv, [Next]_vars
  PROVE  Epochs!Kept(Session) \/ Epochs!Recorded(Session)
<1>1. CASE UNCHANGED <<conv, assigned>>
  BY <1>1 DEF Epochs!Kept, Here, Assignments
<1>2. ASSUME NEW admin \in Admins, NEW target \in Moves, NEW v,
             TransitionInboxConversation(admin, target, v)
      PROVE  Epochs!Kept(Session)
  <2>1. assigned' = assigned /\ Transition(Session, admin, target, NoAdmin, v)
    BY <1>2 DEF TransitionInboxConversation
  <2>2. conv \in [Conversations -> Conversation] /\ Session \in Conversations
    BY IntakeAssumption DEF IInv, Types
  <2>3. conv[Session] \in Conversation
    BY <2>2
  <2>4. /\ conv'[Session].automation_agent = conv[Session].automation_agent
        /\ conv'[Session].automation_version = conv[Session].automation_version
    BY <2>1, <2>2, <2>3 DEF Transition, Conversation
  <2>5. QED
    BY <2>1, <2>4 DEF Epochs!Kept, Here, Assignments
<1>3. ASSUME NEW target \in Agents, NEW v, NEW key \in Shown(Len(assigned)),
             AssignInboxAutomationAgent(target, v, <<"panel", key>>)
      PROVE  Epochs!Recorded(Session)
  <2>1. AssignActing(target, v, <<"panel", key>>)
    BY <1>3 DEF AssignInboxAutomationAgent
  <2>2. assigned \in Seq(Assignment)
    BY DEF IInv, Types
  <2>3. key \in Nat
    BY <2>2, ShownType
  <2>4. <<"panel", key>> \in ({"panel"} \X Nat) \cup ({"handoff"} \X Requests)
    BY <2>3
  <2>5. assigned' \in Seq(Assignment)
    BY <2>1, <2>4, AssignActingType
  <2>6. QED
    BY <2>1, <2>5, AssignRecords
<1>4. CASE CommitCapture
  <2>1. CASE opp[capture.request] # None
    BY <1>1, <1>4, <2>1, ReplayChangesNothing
  <2>2. CASE opp[capture.request] = None
    <3>1. /\ capture.target \in Agents /\ assigned' \in Seq(Assignment)
          /\ IF capture.keep THEN UNCHANGED <<conv, assigned>>
             ELSE AssignActing(capture.target, Here.automation_version,
                               <<"handoff", capture.request>>)
      BY <1>4, <2>2, FreshCommit
    <3>2. QED
      BY <1>1, <3>1, AssignRecords
  <2>3. QED
    BY <2>1, <2>2
<1>5. \/ UNCHANGED <<conv, assigned>> \/ CommitCapture
      \/ \E admin \in Admins, target \in Moves, v \in Shown(Here.control_version) :
           TransitionInboxConversation(admin, target, v)
      \/ \E target \in Agents, v \in Shown(Here.automation_version),
            key \in Shown(Len(assigned)) :
           AssignInboxAutomationAgent(target, v, <<"panel", key>>)
  BY DEF Next, vars, ActivateProfile, UpdateProfile, ConfigureProgressionPolicy, CreateHandoffRoute,
     UpdateHandoffRoute, DeactivateHandoffRoute, BeginRouteCommand, FinishRouteCommand,
     RefuseRouteCommand, RevokeFollowUpConsent, BeginCapture, AbortCapture, StartRun, EndRun,
     InvokeContactRequest, captureVars
<1>6. QED
  BY <1>1, <1>2, <1>3, <1>4, <1>5

\* Commands apply once (CommandsApplyOnce): a request sent again changes nothing,
\* and the assignments of operators and of handoffs together implement CommandLog.
THEOREM AppliedOnce == Spec => CommandsApplyOnce
<1>1. ASSUME IInv, [Next]_vars, capture # None, capture' = None, opp[capture.request] # None
      PROVE  UNCHANGED <<conv, assigned, requested, contact, opp, created>>
  <2>1. CommitCapture \/ AbortCapture
    <3>1. ASSUME NEW r \in Requests, NEW input \in Inputs, BeginCapture(r, input)
          PROVE  FALSE
      BY <1>1, <3>1 DEF BeginCapture
    <3>2. QED
      BY <1>1, <3>1, Writers
  <2>2. CASE CommitCapture
    BY <1>1, <2>2, ReplayChangesNothing
  <2>3. CASE AbortCapture
    BY <2>3 DEF AbortCapture
  <2>4. QED
    BY <2>1, <2>2, <2>3
<1>2. IInv /\ [Next]_vars =>
        [(capture # None /\ capture' = None /\ opp[capture.request] # None) =>
           UNCHANGED <<conv, assigned, requested, contact, opp, created>>]_vars
  BY <1>1
<1>3. Init => Epochs!Init
  <2>1. ASSUME Init
        PROVE  Here.automation_agent = Source /\ Here.automation_version = 0
               /\ assigned = << >>
    BY <2>1, IntakeAssumption DEF Init, ControlInit, InitialConversation, Here, Source
  <2>2. ASSUME Init PROVE Assignments = << >>
    BY <2>1, <2>2 DEF Assignments
  <2>3. QED
    BY <2>1, <2>2 DEF Epochs!Init
<1>4. IInv /\ [Next]_vars =>
        [Epochs!Next]_<<[c \in {Session} |-> <<Here.automation_agent, Here.automation_version>>],
                        [c \in {Session} |-> Assignments]>>
  BY EpochStep DEF Epochs!Next
<1>5. QED
  BY <1>2, <1>3, <1>4, Invariance, PTL DEF Spec, CommandsApplyOnce, Epochs!Spec
=============================================================================
