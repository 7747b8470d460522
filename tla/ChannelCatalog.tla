---------------------------- MODULE ChannelCatalog ----------------------------
(***************************************************************************)
(* How a message finds its agent: provider and channel connections, the    *)
(* runtime of each agent and the channel routes, edited from the panel     *)
(* (routers/admin/agent_runtime.py, services/agent_runtime.py,             *)
(* channel_catalog.py).  Channel connections and routes are versioned: an  *)
(* edit names the version its form shows and is applied under the row's    *)
(* lock.  Provider connections and runtimes are not.                       *)
(***************************************************************************)
EXTENDS Integers, FiniteSets

CONSTANTS
  Editors,
  Bots,            \* agents
  Providers,
  Connections,
  ChannelOf,       \* the channel each connection is created for
  AdapterOf,       \* the adapters of the catalog, by channel
  RouteKeys,       \* pairs of a channel and a route key
  NoRow,
  MaxVersion,      \* versions of a connection or a route
  MaxEdits         \* bound on the requests that change something

VARIABLES
  providers,    \* ProviderConnection rows
  runtimes,     \* AgentRuntimeConfig rows, by agent
  liveBots,     \* active AgentProfile rows
  connections,  \* ChannelConnection rows
  routes,       \* ChannelAgentRoute rows, by channel and key
  forms,        \* the row each editor's form was opened on
  traffic,      \* inbound jobs, by connection, and messages, by route
  edits

catalogVars ==
  <<providers, runtimes, liveBots, connections, routes, forms, traffic, edits>>

\* The rows of the tables; an editor's form holds a row of either kind.
Provider == [active : BOOLEAN, credentials : BOOLEAN]
Runtime == [provider : Providers \cup {NoRow}]
Accounts == {NoRow, "account"}
Connection == [active : BOOLEAN, account : Accounts, credentials : BOOLEAN, version : Nat]
ChannelRoute == [bot : Bots, connection : Connections, active : BOOLEAN, version : Nat]
Form == [id : Connections, row : Connection] \cup [id : RouteKeys, row : ChannelRoute]

ASSUME CatalogAssumption ==
  /\ \A c \in Connections : ChannelOf[c] \in DOMAIN AdapterOf
  /\ \A k \in RouteKeys : k[1] \in DOMAIN AdapterOf
  /\ NoRow \notin Connection \cup ChannelRoute \cup Providers
  /\ Connections \cap RouteKeys = {}
  /\ {MaxVersion, MaxEdits} \subseteq Nat

Edit == edits < MaxEdits /\ edits' = edits + 1

-----------------------------------------------------------------------------
(* Adapters. *)

Implemented(channel) == AdapterOf[channel].implemented
CredentialsRequired(channel) == AdapterOf[channel].credentials

\* resolve_channel_adapter: a connection has its channel's adapter.
ResolveChannelAdapter(channel) == channel \in DOMAIN AdapterOf
RequireImplementedAdapter(channel) ==
  ResolveChannelAdapter(channel) /\ Implemented(channel)

-----------------------------------------------------------------------------
(* Providers and runtimes. *)

NewProvider(active, credentials) == [active |-> active, credentials |-> credentials]
NewRuntime(p) == [provider |-> p]

CreateProvider(p, active, credentials) ==
  /\ Edit
  /\ providers[p] = NoRow
  /\ providers' = [providers EXCEPT ![p] = NewProvider(active, credentials)]
  /\ UNCHANGED <<runtimes, liveBots, connections, routes, forms, traffic>>

UpdateProvider(p, active, credentials) ==
  /\ Edit
  /\ providers[p] # NoRow
  /\ providers' = [providers EXCEPT ![p] = NewProvider(active, credentials)]
  /\ UNCHANGED <<runtimes, liveBots, connections, routes, forms, traffic>>

DeactivateProvider(p) ==
  /\ Edit
  /\ providers[p] # NoRow
  /\ providers' = [providers EXCEPT ![p].active = FALSE]
  /\ UNCHANGED <<runtimes, liveBots, connections, routes, forms, traffic>>

\* p is NoRow when the runtime is left without a provider.
PatchRuntime(b, p) ==
  /\ Edit
  /\ p # NoRow => providers[p] # NoRow
  /\ runtimes' = [runtimes EXCEPT ![b] = NewRuntime(p)]
  /\ UNCHANGED <<providers, liveBots, connections, routes, forms, traffic>>

\* profiles.py activate_profile.
ActivateBot(b) ==
  /\ Edit
  /\ liveBots' = liveBots \cup {b}
  /\ UNCHANGED <<providers, runtimes, connections, routes, forms, traffic>>

-----------------------------------------------------------------------------
(* Connections. *)

\* account is NoRow when there is none or it is not a provider's number.
NewConnection(active, account, credentials) ==
  [active |-> active, account |-> account, credentials |-> credentials, version |-> 0]

\* The CHECKs of channel_connections, and its unique accounts.
ConnectionFits(c, row) ==
  /\ ResolveChannelAdapter(ChannelOf[c])
  /\ row.version >= 0
  /\ \A d \in Connections \ {c} :
       (/\ connections[d] # NoRow
        /\ ChannelOf[d] = ChannelOf[c]
        /\ row.account # NoRow) => connections[d].account # row.account

CreateChannel(c, active, account, credentials) ==
  /\ Edit
  /\ connections[c] = NoRow
  /\ RequireImplementedAdapter(ChannelOf[c])
  /\ credentials => ChannelOf[c] # "web"
  /\ ConnectionFits(c, NewConnection(active, account, credentials))
  /\ connections' = [connections EXCEPT ![c] = NewConnection(active, account, credentials)]
  /\ UNCHANGED <<providers, runtimes, liveBots, routes, forms, traffic>>

RequireVersion(current, expected) == current = expected

\* Faulty variant: the update forgets to count its version.
ConnectionUpdatedUncounted(c, new, expected) ==
  /\ RequireVersion(connections[c].version, expected)
  /\ RequireImplementedAdapter(ChannelOf[c])
  /\ new.credentials /\ ~connections[c].credentials => ChannelOf[c] = "whatsapp"
  /\ ConnectionFits(c, new)
  /\ connections' = [connections EXCEPT ![c] = new]

\* ConnectionService.update_channel; new carries the requested fields.
ConnectionUpdated(c, new, expected) ==
  /\ RequireVersion(connections[c].version, expected)
  /\ RequireImplementedAdapter(ChannelOf[c])
  /\ new.credentials /\ ~connections[c].credentials => ChannelOf[c] = "whatsapp"
  /\ ConnectionFits(c, new)
  /\ connections[c].version < MaxVersion
  /\ connections' = [connections EXCEPT ![c] = [new EXCEPT !.version = connections[c].version + 1]]

\* An editor's form holds the row of the connection it was opened on.
UpdateChannel(e, c, new) ==
  /\ Edit
  /\ connections[c] # NoRow
  /\ forms[e] # NoRow /\ forms[e].id = c
  /\ ConnectionUpdated(c, new, forms[e].row.version)
  /\ UNCHANGED <<providers, runtimes, liveBots, routes, forms, traffic>>

\* Without a body it takes the version of the row it has just locked.
DeactivateChannel(c) ==
  /\ Edit
  /\ connections[c] # NoRow
  /\ ConnectionUpdated(c, [connections[c] EXCEPT !.active = FALSE], connections[c].version)
  /\ UNCHANGED <<providers, runtimes, liveBots, routes, forms, traffic>>

-----------------------------------------------------------------------------
(* Routes. *)

NewRoute(b, c, active) == [bot |-> b, connection |-> c, active |-> active, version |-> 0]

\* The keys of channel_agent_routes, and what create_route and update_route
\* ask of the connection.
RouteConnection(k, c) == connections[c] # NoRow /\ ChannelOf[c] = k[1]

CreateRoute(b, k, c, active) ==
  /\ Edit
  /\ routes[k] = NoRow
  /\ RouteConnection(k, c)
  /\ active => RequireImplementedAdapter(ChannelOf[c])
  /\ routes' = [routes EXCEPT ![k] = NewRoute(b, c, active)]
  /\ UNCHANGED <<providers, runtimes, liveBots, connections, forms, traffic>>

\* Faulty variant: a route moves to a connection of any channel.
RouteUpdatedAnyChannel(b, k, c, active, expected) ==
  /\ routes[k].bot = b
  /\ RequireVersion(routes[k].version, expected)
  /\ connections[c] # NoRow
  /\ routes[k].version < MaxVersion
  /\ routes' = [routes EXCEPT ![k] =
                 [bot |-> b, connection |-> c, active |-> active, version |-> expected + 1]]

RouteUpdated(b, k, c, active, expected) ==
  /\ routes[k].bot = b
  /\ RequireVersion(routes[k].version, expected)
  /\ RouteConnection(k, c)
  /\ active => RequireImplementedAdapter(ChannelOf[c])
  /\ routes[k].version < MaxVersion
  /\ routes' = [routes EXCEPT ![k] =
                 [bot |-> b, connection |-> c, active |-> active, version |-> expected + 1]]

UpdateRoute(e, b, k, c, active) ==
  /\ Edit
  /\ routes[k] # NoRow
  /\ forms[e] # NoRow /\ forms[e].id = k
  /\ RouteUpdated(b, k, c, active, forms[e].row.version)
  /\ UNCHANGED <<providers, runtimes, liveBots, connections, forms, traffic>>

DeactivateRoute(b, k) ==
  /\ Edit
  /\ routes[k] # NoRow
  /\ RouteUpdated(b, k, routes[k].connection, FALSE, routes[k].version)
  /\ UNCHANGED <<providers, runtimes, liveBots, connections, forms, traffic>>

-----------------------------------------------------------------------------
(* Resolution, readiness and the world around. *)

ResolveChannelRoute(k) ==
  /\ routes[k] # NoRow /\ routes[k].active
  /\ connections[routes[k].connection].active
  /\ ChannelOf[routes[k].connection] = k[1]
  /\ RequireImplementedAdapter(ChannelOf[routes[k].connection])

ResolveAgent(b) ==
  /\ runtimes[b] # NoRow /\ runtimes[b].provider # NoRow
  /\ b \in liveBots
  /\ providers[runtimes[b].provider].active
  /\ providers[runtimes[b].provider].credentials

ResolveRoute(k) == ResolveChannelRoute(k) /\ ResolveAgent(routes[k].bot)

SettingsAreValid(c) == ChannelOf[c] = "whatsapp" => connections[c].account # NoRow

RoutesOf(c) == {k \in RouteKeys : routes[k] # NoRow /\ routes[k].connection = c}

\* An external channel's inbound jobs name their connection; web messages
\* and outbound messages count for whatever connection their route has now.
HasTraffic(c) == c \in traffic \/ RoutesOf(c) \cap traffic # {}

RoutingState(c) ==
  IF \E k \in RoutesOf(c) : k[1] # ChannelOf[c] THEN "inconsistent"
  ELSE IF \E k \in RoutesOf(c) : routes[k].active THEN "active"
  ELSE IF RoutesOf(c) # {} THEN "inactive"
  ELSE "not_configured"

ConfigurationBlocked(c) ==
  \/ ~SettingsAreValid(c)
  \/ CredentialsRequired(ChannelOf[c]) /\ ~connections[c].credentials
  \/ RoutingState(c) # "active"

\* Faulty variant: a connection that is switched off is not looked for.
ReadinessWhenOff(c) ==
  IF ~Implemented(ChannelOf[c]) THEN "not_implemented"
  ELSE IF ConfigurationBlocked(c) /\ HasTraffic(c) THEN "degraded"
  ELSE IF ConfigurationBlocked(c) THEN "configuration_required"
  ELSE IF HasTraffic(c) THEN "traffic_observed"
  ELSE "configured_unverified"

ConnectionReadiness(c) ==
  IF ~Implemented(ChannelOf[c]) THEN "not_implemented"
  ELSE IF ~connections[c].active THEN "disabled"
  ELSE IF ConfigurationBlocked(c) /\ HasTraffic(c) THEN "degraded"
  ELSE IF ConfigurationBlocked(c) THEN "configuration_required"
  ELSE IF HasTraffic(c) THEN "traffic_observed"
  ELSE "configured_unverified"

\* An editor opens the form of a connection or of a route.
OpenForm(e) ==
  \E id \in Connections \cup RouteKeys :
    LET row == IF id \in Connections THEN connections[id] ELSE routes[id]
    IN  /\ row # NoRow
        /\ forms' = [forms EXCEPT ![e] = [id |-> id, row |-> row]]
        /\ UNCHANGED <<providers, runtimes, liveBots, connections, routes, traffic, edits>>

\* A message comes in on a route that resolves.
Inbound(k) ==
  /\ ResolveRoute(k)
  /\ traffic' = traffic \cup {IF k[1] = "web" THEN k ELSE routes[k].connection}
  /\ UNCHANGED <<providers, runtimes, liveBots, connections, routes, forms, edits>>

\* A provider accepts a message of the route.
Outbound(k) ==
  /\ ResolveChannelRoute(k) /\ k[1] = "whatsapp"
  /\ connections[routes[k].connection].credentials
  /\ traffic' = traffic \cup {k}
  /\ UNCHANGED <<providers, runtimes, liveBots, connections, routes, forms, edits>>

-----------------------------------------------------------------------------
CatalogInit ==
  /\ providers = [p \in Providers |-> NoRow]
  /\ runtimes = [b \in Bots |-> NoRow]
  /\ liveBots = {}
  /\ connections = [c \in Connections |-> NoRow]
  /\ routes = [k \in RouteKeys |-> NoRow]
  /\ forms = [e \in Editors |-> NoRow]
  /\ traffic = {}
  /\ edits = 0

ConnectionRows(c) ==
  {[active |-> on, account |-> a, credentials |-> has, version |-> connections[c].version] :
     on \in BOOLEAN, a \in Accounts, has \in BOOLEAN}

CatalogNext ==
  \/ \E p \in Providers :
       \/ \E on, has \in BOOLEAN : CreateProvider(p, on, has) \/ UpdateProvider(p, on, has)
       \/ DeactivateProvider(p)
  \/ \E b \in Bots :
       \/ \E p \in Providers \cup {NoRow} : PatchRuntime(b, p)
       \/ ActivateBot(b)
       \/ \E k \in RouteKeys :
            \/ \E c \in Connections, on \in BOOLEAN :
                 \/ CreateRoute(b, k, c, on)
                 \/ \E e \in Editors : UpdateRoute(e, b, k, c, on)
            \/ DeactivateRoute(b, k)
  \/ \E c \in Connections :
       \/ \E a \in Accounts, on, has \in BOOLEAN : CreateChannel(c, on, a, has)
       \/ /\ connections[c] # NoRow
          /\ \E e \in Editors, new \in ConnectionRows(c) : UpdateChannel(e, c, new)
       \/ DeactivateChannel(c)
  \/ \E e \in Editors : OpenForm(e)
  \/ \E k \in RouteKeys : Inbound(k) \/ Outbound(k)

CatalogSpec == CatalogInit /\ [][CatalogNext]_catalogVars

-----------------------------------------------------------------------------
\* Rows have their shape, and a route never leaves its channel (create_route,
\* update_route; resolve_channel_route answers "inconsistent" otherwise).
CatalogTypeOK ==
  /\ providers \in [Providers -> Provider \cup {NoRow}]
  /\ runtimes \in [Bots -> Runtime \cup {NoRow}]
  /\ liveBots \subseteq Bots
  /\ connections \in [Connections -> Connection \cup {NoRow}]
  /\ routes \in [RouteKeys -> ChannelRoute \cup {NoRow}]
  /\ forms \in [Editors -> Form \cup {NoRow}]
  /\ traffic \subseteq Connections \cup RouteKeys
  /\ \A c \in Connections : connections[c] # NoRow => connections[c].version \in 0..MaxVersion
  /\ \A k \in RouteKeys : routes[k] # NoRow =>
       /\ routes[k].version \in 0..MaxVersion
       /\ RouteConnection(k, routes[k].connection)
  /\ edits \in 0..MaxEdits

\* Editors decide on what is there.  No edit overwrites what its editor has not
\* seen: a row changes under the form that shows it as it is, or is only switched
\* off (require_version in update_channel and update_route); and a connection the
\* catalog shows as configured or in traffic can really be reached by some route
\* (_connection_readiness against resolve_channel_route).
EditsAreSeen ==
  /\ [][\A c \in Connections :
       (connections[c] # NoRow /\ connections'[c] # connections[c]) =>
         \/ \E e \in Editors : forms[e] = [id |-> c, row |-> connections[c]]
         \/ connections'[c] = [connections[c] EXCEPT !.active = FALSE, !.version = @ + 1]]_catalogVars
  /\ [][\A k \in RouteKeys :
       (routes[k] # NoRow /\ routes'[k] # routes[k]) =>
         \/ \E e \in Editors : forms[e] = [id |-> k, row |-> routes[k]]
         \/ routes'[k] = [routes[k] EXCEPT !.active = FALSE, !.version = @ + 1]]_catalogVars
  /\ [](\A c \in Connections :
         (/\ connections[c] # NoRow
          /\ ConnectionReadiness(c) \in {"traffic_observed", "configured_unverified"})
           => \E k \in RoutesOf(c) : ResolveChannelRoute(k))
===============================================================================
