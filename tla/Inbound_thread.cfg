\* One thread, two messages (one from a refused sender), two workers, a requeue, and
\* either webhooks that overlap or a takeover or a change of agent.
SPECIFICATION MCSpec
CONSTANTS
  c1 = c1
  j1 = j1
  j2 = j2
  a1 = a1
  a2 = a2
  w1 = w1
  w2 = w2
  NoAdmin = NoAdmin
  None = None
  Conversations = {c1}
  Admins = {op1}
  Agents = {a1, a2}
  RoutingAgent <- SingleRoutingAgent
  Jobs = {j1, j2}
  ThreadOf <- ThreadPair
  Sent <- PairSent
  Refused = {j2}
  Workers = {w1, w2}
  MaxControl = 1
  MaxAutomation = 1
  MaxOpen = 2
  MaxBatch = 1
  MaxAttempts = 2
  MaxEpochs = 1
INVARIANTS TypeOK HonestDisposition ThreadFifo OneAttemptActs
PROPERTIES EveryJobSurfaces
CHECK_DEADLOCK FALSE
