------------------------ MODULE ConversationControl ------------------------
(***************************************************************************)
(* Who controls a conversation: the control epoch (automated, paused,      *)
(* human, closed) of services/conversation_control.py and the acting-agent *)
(* epoch of services/conversation_automation_assignment.py.  Both epochs   *)
(* live on the chat_conversations row and every writer holds that row FOR  *)
(* UPDATE, so a command is one atomic step here; the modules that extend   *)
(* this one add the lock another transaction may be holding.               *)
(***************************************************************************)
EXTENDS Naturals

CONSTANTS
  Conversations,
  Admins,         \* active operators with conversations.manage
  Agents,         \* active agent profiles
  RoutingAgent,   \* RoutingAgent[c]: the agent that owns c's route
  NoAdmin,        \* assigned_admin_id IS NULL
  MaxControl,     \* bound on control_version
  MaxAutomation   \* bound on automation_version

ASSUME ControlAssumption ==
  /\ NoAdmin \notin Admins
  /\ RoutingAgent \in [Conversations -> Agents]
  /\ MaxControl \in Nat
  /\ MaxAutomation \in Nat

VARIABLE conv   \* the control columns of chat_conversations

Modes == {"automated", "paused", "human", "closed"}

Conversation ==
  [control_mode : Modes,
   control_version : Nat,
   assigned_admin : Admins \cup {NoAdmin},
   automation_agent : Agents,
   automation_version : Nat]

\* A new row: column defaults, the acting agent is the routing agent.
InitialConversation(c) ==
  [control_mode |-> "automated",
   control_version |-> 0,
   assigned_admin |-> NoAdmin,
   automation_agent |-> RoutingAgent[c],
   automation_version |-> 0]

ControlInit == conv = [c \in Conversations |-> InitialConversation(c)]

-----------------------------------------------------------------------------
(* ConversationControlService.transition                                   *)

AllowedTransitions(mode) ==
  CASE mode = "automated" -> {"paused", "human", "closed"}
    [] mode = "paused"    -> {"automated", "human", "closed"}
    [] mode = "human"     -> {"automated", "paused", "human", "closed"}
    [] mode = "closed"    -> {}

\* _resolve_target_admin: who owns c after the transition ...
TargetAdmin(c, actor, target, requested) ==
  CASE target = "human"  -> IF requested = NoAdmin THEN actor ELSE requested
    [] target = "paused" -> conv[c].assigned_admin
    [] OTHER             -> NoAdmin

\* ... and which requests it refuses.
AdminRequestValid(c, actor, target, requested) ==
  IF target = "human"
    THEN ~ /\ conv[c].control_mode = "human"
           /\ TargetAdmin(c, actor, target, requested) = conv[c].assigned_admin
    ELSE requested = NoAdmin

(* conversation.status leaves "active" exactly when control_mode becomes    *)
(* "closed", so the mode stands for both columns.                           *)
Transition(c, actor, target, requested, expected) ==
  /\ expected = conv[c].control_version
  /\ target \in AllowedTransitions(conv[c].control_mode)
  /\ AdminRequestValid(c, actor, target, requested)
  /\ conv[c].control_version < MaxControl
  /\ conv' = [conv EXCEPT
       ![c].control_mode = target,
       ![c].control_version = @ + 1,
       ![c].assigned_admin = TargetAdmin(c, actor, target, requested)]

-----------------------------------------------------------------------------
(* ConversationAutomationAssignmentService.assign: assigning the current    *)
(* agent again only appends a receipt, which this model does not keep.      *)
Assign(c, agent, expected) ==
  /\ conv[c].control_mode # "closed"
  /\ expected = conv[c].automation_version
  /\ agent # conv[c].automation_agent
  /\ conv[c].automation_version < MaxAutomation
  /\ conv' = [conv EXCEPT
       ![c].automation_agent = agent,
       ![c].automation_version = @ + 1]
=============================================================================
