SPECIFICATION FairSpec
CONSTANTS
  source = source
  delivery = delivery
  agent1 = agent1
  agent2 = agent2
  admin1 = admin1
  None = None
  NoAdmin = NoAdmin
  Conversations = {source, delivery}
  Source = source
  Delivery = delivery
  Admins = {admin1}
  Agents = {agent1, agent2}
  RoutingAgent <- MCRoutingAgent
  MaxControl = 1
  MaxAutomation = 1
  Tasks = {1, 2}
  Workers = {w1, w2}
  Permissions <- MCPermissions
  Limits <- MCLimits
  DayLength = 3
  ZoneOffset = 1
  LeaseTicks = 1
  MaxNow = 3
  MaxDue = 1
  MaxConsents = 2
  Takeovers = {"human"}
  MaxChanges = 3
INVARIANTS TypeOK ConsentGoverns LaneInOrder
PROPERTIES OverForGood ClaimsWithinLimits EveryTaskSettles
CHECK_DEADLOCK FALSE
