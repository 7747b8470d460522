----------------------- MODULE ConversationControlProofs -----------------------
(***************************************************************************)
(* What the commands of ConversationControl do to the control columns.     *)
(***************************************************************************)
EXTENDS ConversationControl, TLAPS

\* A transition leaves well-formed rows, and all but one as they were.
LEMMA TransitionType ==
  ASSUME conv \in [Conversations -> Conversation],
         NEW c \in Conversations, NEW actor \in Admins,
         NEW target \in Modes, NEW requested \in Admins \cup {NoAdmin},
         NEW v, Transition(c, actor, target, requested, v)
  PROVE  /\ conv' \in [Conversations -> Conversation]
         /\ \A d \in Conversations \ {c} : conv'[d] = conv[d]
<1>1. TargetAdmin(c, actor, target, requested) \in Admins \cup {NoAdmin}
  BY DEF TargetAdmin, Conversation
<1>2. QED
  BY <1>1 DEF Transition, Conversation, Modes

\* So does a change of the acting agent.
LEMMA AssignType ==
  ASSUME conv \in [Conversations -> Conversation],
         NEW c \in Conversations, NEW a \in Agents, NEW v, Assign(c, a, v)
  PROVE  /\ conv' \in [Conversations -> Conversation]
         /\ \A d \in Conversations \ {c} : conv'[d] = conv[d]
BY DEF Assign, Conversation

\* A new conversation is well formed.
LEMMA InitialType ==
  ASSUME ControlInit
  PROVE  conv \in [Conversations -> Conversation]
BY ControlAssumption
   DEF ControlInit, InitialConversation, Conversation, Modes
=============================================================================
