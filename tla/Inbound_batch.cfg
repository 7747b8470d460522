\* Two messages of a thread in one webhook.
SPECIFICATION Spec
CONSTANTS
  c1 = c1
  j1 = j1
  j2 = j2
  a1 = a1
  a2 = a2
  w1 = w1
  w2 = w2
  NoAdmin = NoAdmin
  None = None
  Conversations = {c1}
  Admins = {op1}
  Agents = {a1}
  RoutingAgent <- SingleRoutingAgent
  Jobs = {j1, j2}
  ThreadOf <- ThreadPair
  Sent <- PairSent
  Refused = {}
  Workers = {w1}
  MaxControl = 0
  MaxAutomation = 0
  MaxOpen = 1
  MaxBatch = 2
  MaxAttempts = 1
  MaxEpochs = 0
INVARIANTS
  SenderOrder
CHECK_DEADLOCK FALSE
