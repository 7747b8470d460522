\* One session, two messages, two workers: takeovers, changes of agent, operator
\* replies, resets, expired leases and workers that die.
SPECIFICATION FairSpec
CONSTANTS
  c1 = c1
  m1 = m1
  m2 = m2
  a1 = a1
  a2 = a2
  w1 = w1
  w2 = w2
  NoAdmin = NoAdmin
  None = None
  FreshSession = FreshSession
  Conversations = {c1}
  Admins = {op1}
  Agents = {a1, a2}
  RoutingAgent <- SessionRoutingAgent
  Messages = {m1, m2}
  ConvOf <- SessionConvOf
  Workers = {w1, w2}
  MaxControl = 2
  MaxAutomation = 1
  MaxReplies = 1
  MaxEpochs = 2
INVARIANTS TypeOK TranscriptFollowsControl OneVerdict AnsweredInOrder
PROPERTIES ActingAgentSpeaks EveryMessageDecided
CHECK_DEADLOCK FALSE
