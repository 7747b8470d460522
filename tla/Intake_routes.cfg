SPECIFICATION Spec
CONSTANTS
  agent1 = agent1
  agent2 = agent2
  agent3 = agent3
  admin1 = admin1
  admin2 = admin2
  conv1 = conv1
  None = None
  NoAdmin = NoAdmin
  Conversations = {conv1}
  Session = conv1
  Admins = {admin1, admin2}
  Agents = {agent1, agent2, agent3}
  RoutingAgent <- MCRoutingAgent
  Requests = {r1, r2}
  Runs = {x1}
  MaxControl = 2
  MaxAutomation = 2
  MaxRoute = 3
  MaxPolicy = 1
  MaxSwitches = 1
  MaxRevocations = 1
  Moves = {"human", "automated", "closed"}
  MaxReceipts = 1

PROPERTIES StaleVersionRejected
CHECK_DEADLOCK FALSE
