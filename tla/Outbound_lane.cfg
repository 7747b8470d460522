\* One conversation with an agent's follow-up and an operator's answer, two
\* workers; control, acting agent and route may all change.
SPECIFICATION FairSpec
CONSTANTS
  c1 = c1
  m1 = m1
  m2 = m2
  a1 = a1
  a2 = a2
  r1 = r1
  NoAdmin = NoAdmin
  None = None
  Conversations = {c1}
  Admins = {op1, op2}
  Agents = {a1, a2}
  RoutingAgent <- LaneRoutingAgent
  Commands = {m1, m2}
  ConvOf <- LaneConvOf
  OperatorCommands = {m2}
  FollowUpCommands = {m1}
  Routes = {r1}
  RouteOf <- LaneRouteOf
  AdapterRoutes = {r1}
  Workers = {w1, w2}
  MaxControl = 2
  MaxAutomation = 1
  MaxRouteVersion = 1
INVARIANTS TypeOK AtMostOneCall CallUnderCurrentEpoch DispatchedInOrder StatusIsHonest ReferencesUnique
PROPERTIES ImplementsLane MessagesSurface
CHECK_DEADLOCK FALSE
