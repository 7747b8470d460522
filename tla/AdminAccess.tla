----------------------------- MODULE AdminAccess -----------------------------
(***************************************************************************)
(* Who may do what: the panel's users and roles, their grants on agents,   *)
(* the library resources bound to an agent and the WhatsApp users it       *)
(* serves with their document areas (routers/admin/panel_users.py,         *)
(* profiles.py, agent_resources.py, services/admin_agent_access.py,        *)
(* agent_resources.py, governance.py).                                     *)
(*                                                                         *)
(* Most requests are one step.  Two take a step to read and check and one  *)
(* to write, because others may commit in between: the change of a panel   *)
(* user, which locks nothing, and the assignment of a WhatsApp user, which *)
(* locks its own row but not the areas it has checked.                     *)
(***************************************************************************)
EXTENDS Integers, FiniteSets

CONSTANTS
  Staff,        \* panel accounts
  Profiles,     \* agents, named by their slug
  People,       \* authorized (WhatsApp) users
  Areas, General,
  Sources, Tools, Blocks,
  RolePermissions,  \* the seeded roles and their permissions
  Scoped,       \* AGENT_SCOPED_PERMISSIONS
  FirstAdmins,  \* staff the installation starts with
  Nobody,
  MaxUpdates,   \* panel-user updates at the same time
  MaxRequests   \* bound on the requests that change something

VARIABLES
  staff,     \* AdminUser rows
  profiles,  \* AgentProfile rows, by slug
  agentGrants,    \* AdminAgentGrant rows
  bound,     \* the resources and areas bound to each agent
  areaOn,    \* active OrganizationArea rows
  members,   \* AgentAuthorizedUserBinding rows with their area rows
  requests,  \* requests between their check and their write
  requestsMade

accessVars == <<staff, profiles, agentGrants, bound, areaOn, members, requests, requestsMade>>

Roles == DOMAIN RolePermissions
All == "*"

\* The rows of the tables, and the two requests that take two steps.
PanelUser == [role : Roles, active : BOOLEAN]
AgentGrant == [permissions : SUBSET ({All} \cup Scoped), active : BOOLEAN]
Member == [active : BOOLEAN, everything : BOOLEAN, areas : SUBSET Areas]
UserChange == [kind : {"staff"}, user : Staff, new : PanelUser, copy : PanelUser]
MemberChange == [kind : {"member"}, agent : Profiles, user : People, active : BOOLEAN,
                 everything : BOOLEAN, areas : SUBSET Areas]

ASSUME AccessAssumption ==
  /\ FirstAdmins \subseteq Staff
  /\ General \in Areas
  /\ \E r \in Roles : All \in RolePermissions[r]
  /\ IsFiniteSet(Scoped) /\ Nobody \notin PanelUser
  /\ MaxRequests \in Nat

-----------------------------------------------------------------------------
(* Roles, grants and the checks every endpoint starts with. *)

Allows(permissions, p) == All \in permissions \/ p \in permissions

PermissionsForRole(role) == RolePermissions[role]

PermissionsForAgent(s, a) ==
  IF agentGrants[s, a] # Nobody /\ agentGrants[s, a].active THEN agentGrants[s, a].permissions ELSE {}

RequireAdmin(s) == staff[s] # Nobody /\ staff[s].active
RequirePermission(s, p) ==
  RequireAdmin(s) /\ Allows(PermissionsForRole(staff[s].role), p)

HasAgentPermission(s, a, p) ==
  /\ Allows(PermissionsForRole(staff[s].role), p)
  /\ Allows(PermissionsForAgent(s, a), p)

RequireAgentPermission(s, a, p) ==
  /\ RequireAdmin(s)
  /\ HasAgentPermission(s, a, p)
  /\ profiles[a] # Nobody

\* Faulty variant: what the grant names is offered, whatever the role has.
ListOperationAgentsByGrant(s, p) ==
  {[agent |-> a, capabilities |-> {c \in Scoped : Allows(PermissionsForAgent(s, a), c)}] :
     a \in {b \in Profiles : Allows(PermissionsForAgent(s, b), p)}}

\* The agents an operator is shown, and what the panel offers on each.
ListOperationAgents(s, p) ==
  IF ~Allows(PermissionsForRole(staff[s].role), p) THEN {}
  ELSE {[agent |-> a,
         capabilities |-> {c \in Scoped :
            /\ Allows(PermissionsForRole(staff[s].role), c)
            /\ Allows(PermissionsForAgent(s, a), c)}] :
          a \in {b \in Profiles : Allows(PermissionsForAgent(s, b), p)}}

GrantablePermissions(role) ==
  IF All \in PermissionsForRole(role) THEN {All} \cup Scoped
  ELSE Scoped \cap PermissionsForRole(role)

NewGrant(permissions) == [permissions |-> permissions, active |-> TRUE]

Request == requestsMade < MaxRequests /\ requestsMade' = requestsMade + 1

\* Faulty variant: the wildcard may be mixed with other permissions.
GrantAllowedMixed(role, permissions) ==
  permissions # {} /\ permissions \subseteq GrantablePermissions(role)

\* set_grant refuses what the user's role does not have.
GrantAllowed(role, permissions) ==
  /\ permissions # {}
  /\ permissions \subseteq GrantablePermissions(role)
  /\ All \in permissions => Cardinality(permissions) = 1

SetPanelUserAgentGrant(s, u, a, permissions) ==
  /\ Request
  /\ RequirePermission(s, "panel_users.manage")
  /\ staff[u] # Nobody /\ profiles[a] # Nobody
  /\ GrantAllowed(staff[u].role, permissions)
  /\ agentGrants' = [agentGrants EXCEPT ![<<u, a>>] = NewGrant(permissions)]
  /\ UNCHANGED <<staff, profiles, bound, areaOn, members, requests>>

RevokePanelUserAgentGrant(s, u, a) ==
  /\ Request
  /\ RequirePermission(s, "panel_users.manage")
  /\ agentGrants[u, a] # Nobody
  /\ agentGrants' = [agentGrants EXCEPT ![<<u, a>>].active = FALSE]
  /\ UNCHANGED <<staff, profiles, bound, areaOn, members, requests>>

\* ensure_grant: an existing grant stays as it is.
EnsureGrant(s, a) ==
  agentGrants' = IF agentGrants[s, a] # Nobody THEN agentGrants
            ELSE [agentGrants EXCEPT ![<<s, a>>] = NewGrant({All})]

\* A taken slug is refused, by the check or by the unique index.
CreateProfile(s, a) ==
  /\ Request
  /\ RequirePermission(s, All)
  /\ profiles[a] = Nobody
  /\ profiles' = [profiles EXCEPT ![a] = [active |-> FALSE]]
  /\ EnsureGrant(s, a)
  /\ UNCHANGED <<staff, bound, areaOn, members, requests>>

ActivateProfile(s, a) ==
  /\ Request
  /\ RequireAgentPermission(s, a, All)
  /\ profiles' = [profiles EXCEPT ![a].active = TRUE]
  /\ UNCHANGED <<staff, agentGrants, bound, areaOn, members, requests>>

-----------------------------------------------------------------------------
(* Panel users. *)

NewPanelUser(role) == [role |-> role, active |-> TRUE]

CreatePanelUser(s, u, role) ==
  /\ Request
  /\ RequirePermission(s, "panel_users.manage")
  /\ staff[u] = Nobody
  /\ staff' = [staff EXCEPT ![u] = NewPanelUser(role)]
  /\ UNCHANGED <<profiles, agentGrants, bound, areaOn, members, requests>>

RoleHasGlobalAccess(role) == All \in RolePermissions[role]

GlobalAdmins == {s \in Staff : RequireAdmin(s) /\ RoleHasGlobalAccess(staff[s].role)}

\* new is the row the request asks for; a field it leaves out is as before.
RemovesGlobalAccess(u, new) ==
  /\ RoleHasGlobalAccess(staff[u].role)
  /\ \/ staff[u].active /\ ~new.active
     \/ ~RoleHasGlobalAccess(new.role)

UpdateAllowed(s, u, new) ==
  /\ staff[u] # Nobody
  /\ u = s => new.active
  /\ RemovesGlobalAccess(u, new) => Cardinality(GlobalAdmins) > 1

BeginUpdatePanelUser(s, u, new) ==
  /\ Request
  /\ RequirePermission(s, "panel_users.manage")
  /\ UpdateAllowed(s, u, new)
  /\ requests[s] = Nobody
  /\ Cardinality({t \in Staff : requests[t] # Nobody /\ requests[t].kind = "staff"}) < MaxUpdates
  /\ requests' = [requests EXCEPT ![s] = [kind |-> "staff", user |-> u, new |-> new, copy |-> staff[u]]]
  /\ UNCHANGED <<staff, profiles, agentGrants, bound, areaOn, members>>

\* The flush writes the attributes that differ from the copy that was read.
FlushedUser(r) ==
  [role |-> IF r.new.role # r.copy.role THEN r.new.role ELSE staff[r.user].role,
   active |-> IF r.new.active # r.copy.active THEN r.new.active ELSE staff[r.user].active]

UpdatePanelUser(s) ==
  /\ requests[s] # Nobody /\ requests[s].kind = "staff"
  /\ staff' = [staff EXCEPT ![requests[s].user] = FlushedUser(requests[s])]
  /\ requests' = [requests EXCEPT ![s] = Nobody]
  /\ UNCHANGED <<profiles, agentGrants, bound, areaOn, members, requestsMade>>

-----------------------------------------------------------------------------
(* Resources of an agent. *)

Assign(a, r) == bound' = [bound EXCEPT ![a] = @ \cup {r}]

\* Deleting an area's binding deletes the grants on it (ON DELETE CASCADE).
Unassign(a, r) ==
  /\ bound' = [bound EXCEPT ![a] = @ \ {r}]
  /\ members' = [m \in Profiles \X People |->
                   IF m[1] = a /\ members[m] # Nobody
                   THEN [members[m] EXCEPT !.areas = @ \ {r}] ELSE members[m]]

\* A binding that is there already is left as it is.
AssignResource(s, a, r, p) ==
  /\ Request
  /\ RequireAgentPermission(s, a, p)
  /\ r \notin bound[a]
  /\ Assign(a, r)
  /\ UNCHANGED <<staff, profiles, agentGrants, areaOn, members, requests>>

UnassignResource(s, a, r, p) ==
  /\ Request
  /\ RequireAgentPermission(s, a, p)
  /\ r \in bound[a]
  /\ Unassign(a, r)
  /\ UNCHANGED <<staff, profiles, agentGrants, areaOn, requests>>

AssignAgentSource(s, a, r) == r \in Sources /\ AssignResource(s, a, r, "sources.manage")
UnassignAgentSource(s, a, r) == r \in Sources /\ UnassignResource(s, a, r, "sources.manage")
AssignAgentTool(s, a, r) == r \in Tools /\ AssignResource(s, a, r, "tools.manage")
UnassignAgentTool(s, a, r) == r \in Tools /\ UnassignResource(s, a, r, "tools.manage")
AssignAgentKnowledgeBlock(s, a, r) == r \in Blocks /\ AssignResource(s, a, r, All)
UnassignAgentKnowledgeBlock(s, a, r) == r \in Blocks /\ UnassignResource(s, a, r, All)
AssignAgentDocumentArea(s, a, r) ==
  r \in Areas /\ AssignResource(s, a, r, "documents.taxonomy")
UnassignAgentDocumentArea(s, a, r) ==
  r \in Areas /\ UnassignResource(s, a, r, "documents.taxonomy")

\* documents.py update_area: General is never deactivated.
SwitchArea(s, r) ==
  /\ Request
  /\ RequirePermission(s, "documents.taxonomy")
  /\ r # General \/ r \notin areaOn
  /\ areaOn' = IF r \in areaOn THEN areaOn \ {r} ELSE areaOn \cup {r}
  /\ UNCHANGED <<staff, profiles, agentGrants, bound, members, requests>>

-----------------------------------------------------------------------------
(* The people an agent serves. *)

NewMember(r) == [active |-> r.active, everything |-> r.everything, areas |-> r.areas]

AreasWithGeneral(a, areas) == areas \cup ({General} \cap bound[a] \cap areaOn)

\* _sync_authorized_user_areas refuses an area that is not the agent's.
AreasOwned(a, areas) == areas \subseteq bound[a] \cap areaOn

\* The upsert holds the row of the pair until its transaction ends.
Locked(a, u) ==
  \E s \in Staff : /\ requests[s] # Nobody
                   /\ requests[s].kind = "member"
                   /\ requests[s].agent = a /\ requests[s].user = u

BeginAssignAuthorizedUser(s, a, u, active, everything, areas) ==
  /\ Request
  /\ RequireAgentPermission(s, a, All)
  /\ requests[s] = Nobody
  /\ ~Locked(a, u)
  /\ AreasOwned(a, AreasWithGeneral(a, areas))
  /\ requests' = [requests EXCEPT ![s] =
       [kind |-> "member", agent |-> a, user |-> u, active |-> active,
        everything |-> everything, areas |-> AreasWithGeneral(a, areas)]]
  /\ UNCHANGED <<staff, profiles, agentGrants, bound, areaOn, members>>

\* Faulty variant: the area rows have no foreign key to the agent's areas.
AreaRowsFitAnyway(r) == TRUE

\* The foreign keys of agent_authorized_user_areas.
AreaRowsFit(r) == r.areas \subseteq bound[r.agent]

\* The rows are written, or refused by the database; either ends the request.
AssignAuthorizedUser(s) ==
  /\ requests[s] # Nobody /\ requests[s].kind = "member"
  /\ \/ /\ AreaRowsFit(requests[s])
        /\ members' = [members EXCEPT ![<<requests[s].agent, requests[s].user>>] = NewMember(requests[s])]
     \/ ~AreaRowsFit(requests[s]) /\ UNCHANGED members
  /\ requests' = [requests EXCEPT ![s] = Nobody]
  /\ UNCHANGED <<staff, profiles, agentGrants, bound, areaOn, requestsMade>>

UnassignAuthorizedUser(s, a, u) ==
  /\ Request
  /\ RequireAgentPermission(s, a, All)
  /\ members[a, u] # Nobody
  /\ ~Locked(a, u)
  /\ members' = [members EXCEPT ![<<a, u>>] = Nobody]
  /\ UNCHANGED <<staff, profiles, agentGrants, bound, areaOn, requests>>

\* governance.py: whether the agent serves this person at all.
CheckAccess(a, u) == members[a, u] # Nobody /\ members[a, u].active

\* rag/access.py: the areas whose documents the agent may quote to a person.
GetUserAreaIds(a, u) ==
  IF ~CheckAccess(a, u) THEN {}
  ELSE areaOn \cap (IF members[a, u].everything THEN bound[a] ELSE members[a, u].areas)

-----------------------------------------------------------------------------
AccessInit ==
  /\ staff = [s \in Staff |-> IF s \in FirstAdmins
                              THEN NewPanelUser(CHOOSE r \in Roles : RoleHasGlobalAccess(r))
                              ELSE Nobody]
  /\ profiles = [a \in Profiles |-> Nobody]
  /\ agentGrants = [g \in Staff \X Profiles |-> Nobody]
  /\ bound = [a \in Profiles |-> {}]
  /\ areaOn = Areas
  /\ members = [m \in Profiles \X People |-> Nobody]
  /\ requests = [s \in Staff |-> Nobody]
  /\ requestsMade = 0

AccessNext ==
  \E s \in Staff :
    \/ \E u \in Staff, r \in Roles : CreatePanelUser(s, u, r)
    \/ \E u \in Staff, r \in Roles, on \in BOOLEAN :
         BeginUpdatePanelUser(s, u, [role |-> r, active |-> on])
    \/ UpdatePanelUser(s)
    \/ AssignAuthorizedUser(s)
    \/ \E r \in Areas : SwitchArea(s, r)
    \/ \E a \in Profiles :
         \/ CreateProfile(s, a)
         \/ ActivateProfile(s, a)
         \/ \E u \in Staff :
              \/ \E ps \in SUBSET ({All} \cup Scoped) : SetPanelUserAgentGrant(s, u, a, ps)
              \/ RevokePanelUserAgentGrant(s, u, a)
         \/ \E r \in Sources \cup Tools \cup Blocks \cup Areas :
              \/ AssignAgentSource(s, a, r)
              \/ UnassignAgentSource(s, a, r)
              \/ AssignAgentTool(s, a, r)
              \/ UnassignAgentTool(s, a, r)
              \/ AssignAgentKnowledgeBlock(s, a, r)
              \/ UnassignAgentKnowledgeBlock(s, a, r)
              \/ AssignAgentDocumentArea(s, a, r)
              \/ UnassignAgentDocumentArea(s, a, r)
         \/ \E u \in People :
              \/ \E on, everything \in BOOLEAN, areas \in SUBSET Areas :
                   BeginAssignAuthorizedUser(s, a, u, on, everything, areas)
              \/ UnassignAuthorizedUser(s, a, u)

AccessSpec == AccessInit /\ [][AccessNext]_accessVars

-----------------------------------------------------------------------------
\* Rows have their shape, and a wildcard grant stands alone (set_grant).
AccessTypeOK ==
  /\ staff \in [Staff -> PanelUser \cup {Nobody}]
  /\ profiles \in [Profiles -> [active : BOOLEAN] \cup {Nobody}]
  /\ agentGrants \in [Staff \X Profiles -> AgentGrant \cup {Nobody}]
  /\ bound \in [Profiles -> SUBSET (Sources \cup Tools \cup Blocks \cup Areas)]
  /\ areaOn \subseteq Areas
  /\ members \in [Profiles \X People -> Member \cup {Nobody}]
  /\ requests \in [Staff -> UserChange \cup MemberChange \cup {Nobody}]
  /\ requestsMade \in 0..MaxRequests
  /\ \A s \in Staff, a \in Profiles :
       (agentGrants[s, a] # Nobody /\ All \in agentGrants[s, a].permissions) =>
         agentGrants[s, a].permissions = {All}

\* What people and operators are shown is what they may have, after roles, grants
\* and areas changed in any order.  An agent quotes a person only documents of its
\* own areas, whichever way assignments, unassignments and switches of areas
\* overlap (_sync_authorized_user_areas checks before it writes, and _unassign may
\* commit in between).  What the operator inbox offers on an agent is what its
\* endpoints will accept (list_operation_agents against require_agent_permission).
ShownIsAllowed ==
  /\ \A a \in Profiles, u \in People : GetUserAreaIds(a, u) \subseteq bound[a]
  /\ \A s \in Staff : RequireAdmin(s) => \A p \in Scoped :
       /\ {o.agent : o \in ListOperationAgents(s, p)}
            = {a \in Profiles : HasAgentPermission(s, a, p)}
       /\ \A o \in ListOperationAgents(s, p) : \A c \in o.capabilities :
            HasAgentPermission(s, o.agent, c)

\* Someone can always administer the panel (update_panel_user: "Debe quedar
\* al menos un administrador activo").
AGlobalAdminRemains == GlobalAdmins # {}
==============================================================================
