SPECIFICATION MCSpec
CONSTANTS
  agent1 = agent1
  agent2 = agent2
  admin1 = admin1
  admin2 = admin2
  conv1 = conv1
  conv2 = conv2
  opp1 = opp1
  quote1 = quote1
  meet1 = meet1
  None = None
  Agents = {agent1, agent2}
  Admins = {admin1, admin2}
  Conversations = {conv1, conv2}
  Opportunities = {opp1}
  Creator <- MCCreator
  Requests = {quote1}
  Meetings = {meet1}
  RoutingAgent <- MCRoutingAgent
  References = {r1, r2}
  Targets = {"paused", "won"}
  MaxWork = 11
  LinkKeys = {k1, k2, k3, k4}
  Identities = {"web", "whatsapp", "mail"}
  PrincipalOf <- MCPrincipalOf
  VisibleHere = {"web", "whatsapp", "mail"}
  NoClaim = NoClaim
  MaxEvents = 4
  Staff = {ana, ben}
  Profiles = {bot}
  People = {pat}
  Areas = {general, sales}
  General = general
  Sources = {source}
  Tools = {tool}
  Blocks = {block}
  RolePermissions <- MCRolePermissions
  Scoped <- MCScoped
  FirstAdmins = {ana}
  Nobody = Nobody
  MaxUpdates = 2
  MaxRequests = 5
  Editors = {editor}
  Bots = {b1}
  Providers = {openai}
  main = main
  backup = backup
  site = site
  Connections = {main, backup, site}
  ChannelOf <- MCChannelOf
  AdapterOf <- MCAdapterOf
  RouteKeys <- MCRouteKeys
  NoRow = NoRow
  MaxVersion = 3
  MaxEdits = 5
  Machines = {"commercial", "links", "access", "catalog"}
SYMMETRY MCSymmetry
INVARIANTS PanelTypeOK MeetingHistory DecidedOnce ShownIsAllowed
PROPERTIES RecordsKeepReceipts AuthorizedAtCommit EditsAreSeen
CHECK_DEADLOCK FALSE
