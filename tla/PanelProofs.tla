----------------------------- MODULE PanelProofs -----------------------------
(***************************************************************************)
(* Proofs about the four machines of the panel: the access of operators    *)
(* and people, the identity link claims, the channel catalog and the       *)
(* commercial records.  Each has an inductive invariant of its own; the    *)
(* last part carries the results over to their composition in MCPanel.     *)
(***************************************************************************)
EXTENDS MCPanel, SequenceTheorems, FiniteSetTheorems, WellFoundedInduction, TLAPS

-----------------------------------------------------------------------------
(* Logs of receipts.                                                        *)

\* A function on 1..n is a sequence of length n.
LEMMA LogLength ==
  ASSUME NEW n \in Nat, NEW log, log = [i \in 1..n |-> log[i]]
  PROVE  Len(log) = n /\ DOMAIN log = 1..n
<1>1. PICK S : S = {log[i] : i \in 1..n}
  OBVIOUS
<1>2. \A i \in 1..n : log[i] \in S
  BY <1>1
<1>3. DOMAIN log = 1..n
  OBVIOUS
<1>4. log \in Seq(S)
  BY <1>2, SeqDef
<1>5. QED
  BY <1>3, <1>4

-----------------------------------------------------------------------------
(* Access (AdminAccess).                                                    *)

\* The area rows of a person name areas bound to the agent.
AreasBound ==
  \A a \in Profiles, u \in People :
    members[<<a, u>>] # Nobody => members[<<a, u>>].areas \subseteq bound[a]

\* The row a change of a panel user was decided on: rows are never deleted.
ChangesExist ==
  \A s \in Staff : (requests[s] # Nobody /\ requests[s].kind = "staff") =>
    staff[requests[s].user] # Nobody

AccessInv == AccessTypeOK /\ AreasBound /\ ChangesExist

\* What a step leaves alone of the access tables.
LEMMA AccessFrame ==
  ASSUME AccessInv, UNCHANGED <<staff, agentGrants, bound, areaOn, members, requests>>,
         profiles' \in [Profiles -> [active : BOOLEAN] \cup {Nobody}],
         requestsMade' \in 0..MaxRequests
  PROVE  AccessInv'
BY DEF AccessInv, AccessTypeOK, AreasBound, ChangesExist

\* A request is one more, up to the bound.
LEMMA RequestCounted ==
  ASSUME AccessInv, Request
  PROVE  requestsMade' \in 0..MaxRequests
<1>1. requestsMade \in 0..MaxRequests /\ MaxRequests \in Nat
  BY AccessAssumption DEF AccessInv, AccessTypeOK
<1>2. QED
  BY <1>1 DEF Request

\* A change of the agent grants keeps the invariant.
LEMMA GrantKeeps ==
  ASSUME AccessInv, NEW s \in Staff, NEW a \in Profiles, NEW g \in AgentGrant,
         All \in g.permissions => g.permissions = {All},
         agentGrants' = [agentGrants EXCEPT ![<<s, a>>] = g],
         requestsMade' \in 0..MaxRequests,
         profiles' \in [Profiles -> [active : BOOLEAN] \cup {Nobody}],
         UNCHANGED <<staff, bound, areaOn, members, requests>>
  PROVE  AccessInv'
<1>1. agentGrants \in [Staff \X Profiles -> AgentGrant \cup {Nobody}]
  BY DEF AccessInv, AccessTypeOK
<1>2. <<s, a>> \in Staff \X Profiles
  OBVIOUS
<1>3. agentGrants' \in [Staff \X Profiles -> AgentGrant \cup {Nobody}]
  BY <1>1, <1>2
<1>4. ASSUME NEW t \in Staff, NEW b \in Profiles, agentGrants'[t, b] # Nobody,
             All \in agentGrants'[t, b].permissions
      PROVE  agentGrants'[t, b].permissions = {All}
  <2>1. CASE <<t, b>> = <<s, a>>
    BY <1>1, <1>2, <1>4, <2>1
  <2>2. CASE <<t, b>> # <<s, a>>
    <3>1. agentGrants'[t, b] = agentGrants[t, b]
      BY <1>1, <1>2, <2>2
    <3>2. QED
      BY <1>4, <3>1 DEF AccessInv, AccessTypeOK
  <2>3. QED
    BY <2>1, <2>2
<1>5. AccessTypeOK'
  BY <1>3, <1>4 DEF AccessInv, AccessTypeOK
<1>6. QED
  BY <1>5 DEF AccessInv, AreasBound, ChangesExist

\* SetGrant keeps the invariant.
LEMMA SetGrantKeeps ==
  ASSUME AccessInv, NEW s \in Staff, NEW u \in Staff, NEW a \in Profiles,
         NEW permissions \in SUBSET ({All} \cup Scoped),
         SetPanelUserAgentGrant(s, u, a, permissions)
  PROVE  AccessInv'
<1>1. NewGrant(permissions) \in AgentGrant /\ NewGrant(permissions).permissions = permissions
  BY DEF NewGrant, AgentGrant
<1>2. IsFiniteSet(permissions)
  <2>1. IsFiniteSet({All} \cup Scoped)
    BY AccessAssumption, FS_Singleton, FS_Union
  <2>2. QED
    BY <2>1, FS_Subset
<1>3. All \in permissions => permissions = {All}
  <2>1. All \in permissions => Cardinality(permissions) = 1
    BY DEF SetPanelUserAgentGrant, GrantAllowed
  <2>2. Cardinality(permissions) = 1 => \E x : permissions = {x}
    BY <1>2, FS_Singleton
  <2>3. QED
    BY <2>1, <2>2
<1>4. /\ agentGrants' = [agentGrants EXCEPT ![<<u, a>>] = NewGrant(permissions)]
      /\ requestsMade' \in 0..MaxRequests
      /\ UNCHANGED <<staff, profiles, bound, areaOn, members, requests>>
  BY RequestCounted DEF SetPanelUserAgentGrant
<1>5. profiles' \in [Profiles -> [active : BOOLEAN] \cup {Nobody}]
  BY <1>4 DEF AccessInv, AccessTypeOK
<1>6. QED
  BY <1>1, <1>3, <1>4, <1>5, GrantKeeps

\* RevokeGrant keeps the invariant.
LEMMA RevokeGrantKeeps ==
  ASSUME AccessInv, NEW s \in Staff, NEW u \in Staff, NEW a \in Profiles,
         RevokePanelUserAgentGrant(s, u, a)
  PROVE  AccessInv'
<1>1. /\ agentGrants[u, a] # Nobody
      /\ agentGrants' = [agentGrants EXCEPT ![<<u, a>>].active = FALSE]
      /\ requestsMade' \in 0..MaxRequests
      /\ UNCHANGED <<staff, profiles, bound, areaOn, members, requests>>
  BY RequestCounted DEF RevokePanelUserAgentGrant
<1>2. PICK old \in AgentGrant : old = agentGrants[u, a]
  BY <1>1 DEF AccessInv, AccessTypeOK
<1>3. PICK new : new = [old EXCEPT !.active = FALSE]
  OBVIOUS
<1>4. new \in AgentGrant /\ new.permissions = old.permissions
  BY <1>3 DEF AgentGrant
<1>5. All \in new.permissions => new.permissions = {All}
  BY <1>1, <1>2, <1>4 DEF AccessInv, AccessTypeOK
<1>6. agentGrants' = [agentGrants EXCEPT ![<<u, a>>] = new]
  BY <1>1, <1>2, <1>3
<1>7. /\ profiles' \in [Profiles -> [active : BOOLEAN] \cup {Nobody}]
      /\ requestsMade' \in 0..MaxRequests
      /\ UNCHANGED <<staff, bound, areaOn, members, requests>>
  BY <1>1 DEF AccessInv, AccessTypeOK
<1>8. QED
  BY <1>4, <1>5, <1>6, <1>7, GrantKeeps

\* CreateProfile keeps the invariant.
LEMMA CreateProfileKeeps ==
  ASSUME AccessInv, NEW s \in Staff, NEW a \in Profiles, CreateProfile(s, a)
  PROVE  AccessInv'
<1>1. /\ profiles' = [profiles EXCEPT ![a] = [active |-> FALSE]]
      /\ EnsureGrant(s, a)
      /\ requestsMade' \in 0..MaxRequests
      /\ UNCHANGED <<staff, bound, areaOn, members, requests>>
  BY RequestCounted DEF CreateProfile
<1>2. profiles' \in [Profiles -> [active : BOOLEAN] \cup {Nobody}]
  BY <1>1 DEF AccessInv, AccessTypeOK
<1>3. NewGrant({All}) \in AgentGrant /\ NewGrant({All}).permissions = {All}
  BY DEF NewGrant, AgentGrant
<1>4. CASE agentGrants[s, a] # Nobody
  BY <1>1, <1>2, <1>4, AccessFrame DEF EnsureGrant
<1>5. CASE agentGrants[s, a] = Nobody
  <2>1. agentGrants' = [agentGrants EXCEPT ![<<s, a>>] = NewGrant({All})]
    BY <1>1, <1>5 DEF EnsureGrant
  <2>2. QED
    BY <1>1, <1>2, <1>3, <2>1, GrantKeeps
<1>6. QED
  BY <1>4, <1>5

\* A change of the panel users that keeps their rows keeps the invariant.
LEMMA StaffKeeps ==
  ASSUME AccessInv, staff' \in [Staff -> PanelUser \cup {Nobody}],
         requests' \in [Staff -> UserChange \cup MemberChange \cup {Nobody}],
         requestsMade' \in 0..MaxRequests, areaOn' \subseteq Areas, ChangesExist',
         UNCHANGED <<profiles, agentGrants, bound, members>>
  PROVE  AccessInv'
BY DEF AccessInv, AccessTypeOK, AreasBound

\* Reading a panel user for a change keeps the invariant.
LEMMA BeginUpdateKeeps ==
  ASSUME AccessInv, NEW s \in Staff, NEW u \in Staff, NEW new \in PanelUser,
         BeginUpdatePanelUser(s, u, new)
  PROVE  AccessInv'
<1>1. /\ staff[u] # Nobody
      /\ requests' = [requests EXCEPT ![s] = [kind |-> "staff", user |-> u, new |-> new,
                                              copy |-> staff[u]]]
      /\ requestsMade' \in 0..MaxRequests
      /\ UNCHANGED <<staff, profiles, agentGrants, bound, areaOn, members>>
  BY RequestCounted DEF BeginUpdatePanelUser, UpdateAllowed
<1>2. staff[u] \in PanelUser
  BY <1>1 DEF AccessInv, AccessTypeOK
<1>3. [kind |-> "staff", user |-> u, new |-> new, copy |-> staff[u]] \in UserChange
  BY <1>2 DEF UserChange
<1>4. requests' \in [Staff -> UserChange \cup MemberChange \cup {Nobody}]
  BY <1>1, <1>3 DEF AccessInv, AccessTypeOK
<1>5. staff' \in [Staff -> PanelUser \cup {Nobody}] /\ areaOn' \subseteq Areas
  BY <1>1 DEF AccessInv, AccessTypeOK
<1>6. ChangesExist'
  BY <1>1 DEF AccessInv, AccessTypeOK, ChangesExist
<1>7. QED
  BY <1>1, <1>4, <1>5, <1>6, StaffKeeps

\* The write of a change of a panel user keeps the invariant.
LEMMA UpdateKeeps ==
  ASSUME AccessInv, NEW s \in Staff, UpdatePanelUser(s)
  PROVE  AccessInv'
<1>1. /\ requests[s] # Nobody /\ requests[s].kind = "staff"
      /\ staff' = [staff EXCEPT ![requests[s].user] = FlushedUser(requests[s])]
      /\ requests' = [requests EXCEPT ![s] = Nobody]
      /\ UNCHANGED <<profiles, agentGrants, bound, areaOn, members, requestsMade>>
  BY DEF UpdatePanelUser
<1>2. PICK r \in UserChange : r = requests[s]
  BY <1>1 DEF AccessInv, AccessTypeOK, MemberChange
<1>3. /\ r.user \in Staff
      /\ r.new.role \in Roles /\ r.new.active \in BOOLEAN
      /\ r.copy.role \in Roles /\ r.copy.active \in BOOLEAN
  BY <1>2 DEF UserChange, PanelUser
<1>4. staff[r.user] \in PanelUser
  BY <1>1, <1>2, <1>3 DEF AccessInv, AccessTypeOK, ChangesExist
<1>5. FlushedUser(r) \in PanelUser
  BY <1>3, <1>4 DEF FlushedUser, PanelUser
<1>6. staff' \in [Staff -> PanelUser \cup {Nobody}]
  BY <1>1, <1>2, <1>3, <1>5 DEF AccessInv, AccessTypeOK
<1>7. /\ requests' \in [Staff -> UserChange \cup MemberChange \cup {Nobody}]
      /\ requestsMade' \in 0..MaxRequests /\ areaOn' \subseteq Areas
  BY <1>1 DEF AccessInv, AccessTypeOK
<1>8. \A t \in Staff : staff[t] # Nobody => staff'[t] # Nobody
  BY <1>1, <1>2, <1>5, AccessAssumption DEF AccessInv, AccessTypeOK
<1>9. ChangesExist'
  <2>1. \A t \in Staff : (requests[t] # Nobody /\ requests[t].kind = "staff") =>
          requests[t].user \in Staff
    BY DEF AccessInv, AccessTypeOK, UserChange, MemberChange
  <2>2. \A t \in Staff : requests'[t] # Nobody => requests'[t] = requests[t]
    BY <1>1 DEF AccessInv, AccessTypeOK
  <2>3. QED
    BY <1>8, <2>1, <2>2 DEF AccessInv, ChangesExist
<1>10. QED
  BY <1>1, <1>6, <1>7, <1>9, StaffKeeps

\* CreateUser keeps the invariant.
LEMMA CreateUserKeeps ==
  ASSUME AccessInv, NEW s \in Staff, NEW u \in Staff, NEW role \in Roles,
         CreatePanelUser(s, u, role)
  PROVE  AccessInv'
<1>1. /\ staff' = [staff EXCEPT ![u] = NewPanelUser(role)]
      /\ requestsMade' \in 0..MaxRequests
      /\ UNCHANGED <<profiles, agentGrants, bound, areaOn, members, requests>>
  BY RequestCounted DEF CreatePanelUser
<1>2. NewPanelUser(role) \in PanelUser
  BY DEF NewPanelUser, PanelUser
<1>3. staff' \in [Staff -> PanelUser \cup {Nobody}]
  BY <1>1, <1>2 DEF AccessInv, AccessTypeOK
<1>4. \A t \in Staff : staff[t] # Nobody => staff'[t] # Nobody
  BY <1>1, <1>2, AccessAssumption DEF AccessInv, AccessTypeOK
<1>5. \A t \in Staff : (requests[t] # Nobody /\ requests[t].kind = "staff") =>
        requests[t].user \in Staff
  BY DEF AccessInv, AccessTypeOK, UserChange, MemberChange
<1>6. ChangesExist'
  BY <1>1, <1>4, <1>5 DEF AccessInv, ChangesExist
<1>7. /\ requests' \in [Staff -> UserChange \cup MemberChange \cup {Nobody}]
      /\ areaOn' \subseteq Areas
  BY <1>1 DEF AccessInv, AccessTypeOK
<1>8. QED
  BY <1>1, <1>3, <1>6, <1>7, StaffKeeps

\* SwitchArea keeps the invariant.
LEMMA SwitchAreaKeeps ==
  ASSUME AccessInv, NEW s \in Staff, NEW r \in Areas, SwitchArea(s, r)
  PROVE  AccessInv'
<1>1. /\ areaOn' \subseteq Areas /\ requestsMade' \in 0..MaxRequests
      /\ UNCHANGED <<staff, profiles, agentGrants, bound, members, requests>>
  BY RequestCounted DEF SwitchArea, AccessInv, AccessTypeOK
<1>2. /\ staff' \in [Staff -> PanelUser \cup {Nobody}]
      /\ requests' \in [Staff -> UserChange \cup MemberChange \cup {Nobody}]
      /\ ChangesExist'
  BY <1>1 DEF AccessInv, AccessTypeOK, ChangesExist
<1>3. QED
  BY <1>1, <1>2, StaffKeeps

\* A change of bindings and people that keeps the foreign keys keeps the invariant.
LEMMA ResourceKeeps ==
  ASSUME AccessInv,
         bound' \in [Profiles -> SUBSET (Sources \cup Tools \cup Blocks \cup Areas)],
         members' \in [Profiles \X People -> Member \cup {Nobody}],
         requests' \in [Staff -> UserChange \cup MemberChange \cup {Nobody}],
         AreasBound', ChangesExist', requestsMade' \in 0..MaxRequests,
         UNCHANGED <<staff, profiles, agentGrants, areaOn>>
  PROVE  AccessInv'
BY DEF AccessInv, AccessTypeOK

\* AssignResource keeps the invariant.
LEMMA AssignKeeps ==
  ASSUME AccessInv, NEW s \in Staff, NEW a \in Profiles,
         NEW r \in Sources \cup Tools \cup Blocks \cup Areas, NEW p,
         AssignResource(s, a, r, p)
  PROVE  AccessInv'
<1>1. /\ bound' = [bound EXCEPT ![a] = @ \cup {r}]
      /\ requestsMade' \in 0..MaxRequests
      /\ UNCHANGED <<staff, profiles, agentGrants, areaOn, members, requests>>
  BY RequestCounted DEF AssignResource, Assign
<1>2. bound \in [Profiles -> SUBSET (Sources \cup Tools \cup Blocks \cup Areas)]
  BY DEF AccessInv, AccessTypeOK
<1>3. /\ bound' \in [Profiles -> SUBSET (Sources \cup Tools \cup Blocks \cup Areas)]
      /\ \A b \in Profiles : bound[b] \subseteq bound'[b]
  BY <1>1, <1>2
<1>4. AreasBound'
  BY <1>1, <1>3 DEF AccessInv, AreasBound
<1>5. /\ members' \in [Profiles \X People -> Member \cup {Nobody}]
      /\ requests' \in [Staff -> UserChange \cup MemberChange \cup {Nobody}]
      /\ ChangesExist'
  BY <1>1 DEF AccessInv, AccessTypeOK, ChangesExist
<1>6. QED
  BY <1>1, <1>3, <1>4, <1>5, ResourceKeeps

\* Unassigning an area takes its rows from every person of the agent.
LEMMA UnassignKeeps ==
  ASSUME AccessInv, NEW s \in Staff, NEW a \in Profiles, NEW r, NEW p,
         UnassignResource(s, a, r, p)
  PROVE  AccessInv'
<1>1. /\ bound' = [bound EXCEPT ![a] = @ \ {r}]
      /\ members' = [m \in Profiles \X People |->
                       IF m[1] = a /\ members[m] # Nobody
                       THEN [members[m] EXCEPT !.areas = @ \ {r}] ELSE members[m]]
      /\ requestsMade' \in 0..MaxRequests
      /\ UNCHANGED <<staff, profiles, agentGrants, areaOn, requests>>
  BY RequestCounted DEF UnassignResource, Unassign
<1>2. /\ bound \in [Profiles -> SUBSET (Sources \cup Tools \cup Blocks \cup Areas)]
      /\ members \in [Profiles \X People -> Member \cup {Nobody}]
  BY DEF AccessInv, AccessTypeOK
<1>3. bound' \in [Profiles -> SUBSET (Sources \cup Tools \cup Blocks \cup Areas)]
  BY <1>1, <1>2
<1>4. ASSUME NEW m \in Profiles \X People, m[1] = a, members[m] # Nobody
      PROVE  /\ members'[m] = [members[m] EXCEPT !.areas = @ \ {r}]
             /\ members'[m] \in Member /\ members'[m].areas = members[m].areas \ {r}
  BY <1>1, <1>2, <1>4 DEF Member
<1>5. ASSUME NEW m \in Profiles \X People, ~(m[1] = a /\ members[m] # Nobody)
      PROVE  members'[m] = members[m]
  BY <1>1, <1>5
<1>6. members' \in [Profiles \X People -> Member \cup {Nobody}]
  <2>1. \A m \in Profiles \X People : members'[m] \in Member \cup {Nobody}
    BY <1>2, <1>4, <1>5
  <2>2. QED
    BY <1>1, <2>1
<1>7. ASSUME NEW b \in Profiles, NEW u \in People, members'[<<b, u>>] # Nobody
      PROVE  members'[<<b, u>>].areas \subseteq bound'[b]
  <2>1. <<b, u>> \in Profiles \X People /\ <<b, u>>[1] = b
    OBVIOUS
  <2>2. CASE b = a /\ members[<<b, u>>] # Nobody
    <3>1. members'[<<b, u>>].areas = members[<<b, u>>].areas \ {r}
      BY <1>4, <2>1, <2>2
    <3>2. members[<<b, u>>].areas \subseteq bound[b] /\ bound'[b] = bound[b] \ {r}
      BY <1>1, <1>2, <2>2 DEF AccessInv, AreasBound
    <3>3. QED
      BY <3>1, <3>2
  <2>3. CASE ~(b = a /\ members[<<b, u>>] # Nobody)
    <3>1. members'[<<b, u>>] = members[<<b, u>>]
      BY <1>5, <2>1, <2>3
    <3>2. bound'[b] = bound[b]
      BY <1>1, <1>2, <1>7, <2>3, <3>1
    <3>3. QED
      BY <1>7, <3>1, <3>2 DEF AccessInv, AreasBound
  <2>4. QED
    BY <2>2, <2>3
<1>8. /\ requests' \in [Staff -> UserChange \cup MemberChange \cup {Nobody}]
      /\ ChangesExist'
  BY <1>1 DEF AccessInv, AccessTypeOK, ChangesExist
<1>9. QED
  BY <1>1, <1>3, <1>6, <1>7, <1>8, ResourceKeeps DEF AreasBound

\* BeginAssignUser keeps the invariant.
LEMMA BeginAssignUserKeeps ==
  ASSUME AccessInv, NEW s \in Staff, NEW a \in Profiles, NEW u \in People,
         NEW active \in BOOLEAN, NEW everything \in BOOLEAN, NEW areas \in SUBSET Areas,
         BeginAssignAuthorizedUser(s, a, u, active, everything, areas)
  PROVE  AccessInv'
<1>1. PICK new : new = [kind |-> "member", agent |-> a, user |-> u, active |-> active,
                        everything |-> everything, areas |-> AreasWithGeneral(a, areas)]
  OBVIOUS
<1>2. /\ requests' = [requests EXCEPT ![s] = new]
      /\ requestsMade' \in 0..MaxRequests
      /\ UNCHANGED <<staff, profiles, agentGrants, bound, areaOn, members>>
  BY <1>1, RequestCounted DEF BeginAssignAuthorizedUser
<1>3. AreasWithGeneral(a, areas) \subseteq Areas
  BY AccessAssumption DEF AreasWithGeneral
<1>4. new \in MemberChange /\ new.kind # "staff"
  BY <1>1, <1>3 DEF MemberChange
<1>5. requests \in [Staff -> UserChange \cup MemberChange \cup {Nobody}]
  BY DEF AccessInv, AccessTypeOK
<1>6. requests' \in [Staff -> UserChange \cup MemberChange \cup {Nobody}]
  BY <1>2, <1>4, <1>5
<1>7. ChangesExist'
  BY <1>2, <1>4, <1>5 DEF AccessInv, ChangesExist
<1>8. /\ staff' \in [Staff -> PanelUser \cup {Nobody}] /\ areaOn' \subseteq Areas
  BY <1>2 DEF AccessInv, AccessTypeOK
<1>9. QED
  BY <1>2, <1>6, <1>7, <1>8, StaffKeeps

\* The foreign keys refuse the rows of areas unassigned in the meantime.
LEMMA AssignUserKeeps ==
  ASSUME AccessInv, NEW s \in Staff, AssignAuthorizedUser(s)
  PROVE  AccessInv'
<1>1. /\ requests[s] # Nobody /\ requests[s].kind = "member"
      /\ requests' = [requests EXCEPT ![s] = Nobody]
      /\ UNCHANGED <<staff, profiles, agentGrants, bound, areaOn, requestsMade>>
  BY DEF AssignAuthorizedUser
<1>2. PICK r \in MemberChange : r = requests[s]
  BY <1>1 DEF AccessInv, AccessTypeOK, UserChange
<1>3. \/ /\ r.areas \subseteq bound[r.agent]
         /\ members' = [members EXCEPT ![<<r.agent, r.user>>] = NewMember(r)]
      \/ UNCHANGED members
  BY <1>2 DEF AssignAuthorizedUser, AreaRowsFit
<1>4. /\ <<r.agent, r.user>> \in Profiles \X People
      /\ NewMember(r) \in Member /\ NewMember(r).areas = r.areas
  BY <1>2 DEF MemberChange, NewMember, Member
<1>5. members \in [Profiles \X People -> Member \cup {Nobody}]
  BY DEF AccessInv, AccessTypeOK
<1>6. members' \in [Profiles \X People -> Member \cup {Nobody}]
  BY <1>3, <1>4, <1>5
<1>7. ASSUME NEW b \in Profiles, NEW u \in People, members'[<<b, u>>] # Nobody
      PROVE  members'[<<b, u>>].areas \subseteq bound'[b]
  <2>1. CASE members'[<<b, u>>] = members[<<b, u>>]
    BY <1>1, <1>7, <2>1 DEF AccessInv, AreasBound
  <2>2. CASE members'[<<b, u>>] # members[<<b, u>>]
    <3>1. /\ r.areas \subseteq bound[r.agent]
          /\ members' = [members EXCEPT ![<<r.agent, r.user>>] = NewMember(r)]
      BY <1>3, <2>2
    <3>2. <<b, u>> \in Profiles \X People /\ <<b, u>> = <<r.agent, r.user>>
      BY <1>4, <1>5, <2>2, <3>1
    <3>3. b = r.agent /\ members'[<<b, u>>] = NewMember(r)
      BY <1>4, <1>5, <3>1, <3>2
    <3>4. QED
      BY <1>1, <1>4, <3>1, <3>3
  <2>3. QED
    BY <2>1, <2>2
<1>8. /\ requests' \in [Staff -> UserChange \cup MemberChange \cup {Nobody}]
      /\ ChangesExist'
  BY <1>1 DEF AccessInv, AccessTypeOK, ChangesExist
<1>9. requestsMade' \in 0..MaxRequests
      /\ bound' \in [Profiles -> SUBSET (Sources \cup Tools \cup Blocks \cup Areas)]
  BY <1>1 DEF AccessInv, AccessTypeOK
<1>10. AreasBound'
  BY <1>7 DEF AreasBound
<1>11. QED
  BY <1>1, <1>6, <1>8, <1>9, <1>10, ResourceKeeps

\* UnassignUser keeps the invariant.
LEMMA UnassignUserKeeps ==
  ASSUME AccessInv, NEW s \in Staff, NEW a \in Profiles, NEW u \in People,
         UnassignAuthorizedUser(s, a, u)
  PROVE  AccessInv'
<1>1. /\ members' = [members EXCEPT ![<<a, u>>] = Nobody]
      /\ requestsMade' \in 0..MaxRequests
      /\ UNCHANGED <<staff, profiles, agentGrants, bound, areaOn, requests>>
  BY RequestCounted DEF UnassignAuthorizedUser
<1>2. members \in [Profiles \X People -> Member \cup {Nobody}]
  BY DEF AccessInv, AccessTypeOK
<1>3. /\ members' \in [Profiles \X People -> Member \cup {Nobody}]
      /\ \A m \in Profiles \X People : members'[m] # Nobody => members'[m] = members[m]
  BY <1>1, <1>2
<1>4. AreasBound'
  BY <1>1, <1>3 DEF AccessInv, AreasBound
<1>5. /\ requests' \in [Staff -> UserChange \cup MemberChange \cup {Nobody}]
      /\ bound' \in [Profiles -> SUBSET (Sources \cup Tools \cup Blocks \cup Areas)]
      /\ ChangesExist'
  BY <1>1 DEF AccessInv, AccessTypeOK, ChangesExist
<1>6. QED
  BY <1>1, <1>3, <1>4, <1>5, ResourceKeeps

\* The invariant of access holds at the start.
LEMMA AccessInitHolds == AccessInit => AccessInv
<1> SUFFICES ASSUME AccessInit PROVE AccessInv
  OBVIOUS
<1>1. \E r \in Roles : RoleHasGlobalAccess(r)
  BY AccessAssumption DEF RoleHasGlobalAccess
<1>2. NewPanelUser(CHOOSE r \in Roles : RoleHasGlobalAccess(r)) \in PanelUser
  BY <1>1 DEF NewPanelUser, PanelUser
<1>3. staff \in [Staff -> PanelUser \cup {Nobody}]
  BY <1>2 DEF AccessInit
<1>4. requestsMade \in 0..MaxRequests
  BY AccessAssumption DEF AccessInit
<1>5. AccessTypeOK
  BY <1>3, <1>4 DEF AccessInit, AccessTypeOK
<1>6. QED
  BY <1>5 DEF AccessInit, AccessInv, AreasBound, ChangesExist

\* Every step of access keeps its invariant.
LEMMA AccessNextKeeps == AccessInv /\ [AccessNext]_accessVars => AccessInv'
<1> SUFFICES ASSUME AccessInv, [AccessNext]_accessVars PROVE AccessInv'
  OBVIOUS
<1>1. CASE UNCHANGED accessVars
  BY <1>1 DEF accessVars, AccessInv, AccessTypeOK, AreasBound, ChangesExist
<1>2. ASSUME NEW s \in Staff, NEW u \in Staff, NEW r \in Roles, CreatePanelUser(s, u, r)
      PROVE  AccessInv'
  BY <1>2, CreateUserKeeps
<1>3. ASSUME NEW s \in Staff, NEW u \in Staff, NEW r \in Roles, NEW on \in BOOLEAN,
             BeginUpdatePanelUser(s, u, [role |-> r, active |-> on])
      PROVE  AccessInv'
  <2>1. [role |-> r, active |-> on] \in PanelUser
    BY DEF PanelUser
  <2>2. QED
    BY <1>3, <2>1, BeginUpdateKeeps
<1>4. ASSUME NEW s \in Staff, UpdatePanelUser(s) \/ AssignAuthorizedUser(s)
      PROVE  AccessInv'
  BY <1>4, UpdateKeeps, AssignUserKeeps
<1>5. ASSUME NEW s \in Staff, NEW r \in Areas, SwitchArea(s, r)
      PROVE  AccessInv'
  BY <1>5, SwitchAreaKeeps
<1>6. ASSUME NEW s \in Staff, NEW a \in Profiles, CreateProfile(s, a) \/ ActivateProfile(s, a)
      PROVE  AccessInv'
  <2>1. ASSUME ActivateProfile(s, a) PROVE AccessInv'
    <3>1. /\ profiles[a] # Nobody
          /\ profiles' = [profiles EXCEPT ![a].active = TRUE]
          /\ requestsMade' \in 0..MaxRequests
          /\ UNCHANGED <<staff, agentGrants, bound, areaOn, members, requests>>
      BY <2>1, RequestCounted DEF ActivateProfile, RequireAgentPermission
    <3>2. profiles' \in [Profiles -> [active : BOOLEAN] \cup {Nobody}]
      BY <3>1 DEF AccessInv, AccessTypeOK
    <3>3. QED
      BY <3>1, <3>2, AccessFrame
  <2>2. QED
    BY <1>6, <2>1, CreateProfileKeeps
<1>7. ASSUME NEW s \in Staff, NEW a \in Profiles, NEW u \in Staff,
             \/ \E ps \in SUBSET ({All} \cup Scoped) : SetPanelUserAgentGrant(s, u, a, ps)
             \/ RevokePanelUserAgentGrant(s, u, a)
      PROVE  AccessInv'
  BY <1>7, SetGrantKeeps, RevokeGrantKeeps
<1>8. ASSUME NEW s \in Staff, NEW a \in Profiles,
             NEW r \in Sources \cup Tools \cup Blocks \cup Areas,
             \/ AssignAgentSource(s, a, r) \/ UnassignAgentSource(s, a, r)
             \/ AssignAgentTool(s, a, r) \/ UnassignAgentTool(s, a, r)
             \/ AssignAgentKnowledgeBlock(s, a, r) \/ UnassignAgentKnowledgeBlock(s, a, r)
             \/ AssignAgentDocumentArea(s, a, r) \/ UnassignAgentDocumentArea(s, a, r)
      PROVE  AccessInv'
  <2>1. \E p : AssignResource(s, a, r, p) \/ UnassignResource(s, a, r, p)
    BY <1>8 DEF AssignAgentSource, UnassignAgentSource, AssignAgentTool, UnassignAgentTool,
       AssignAgentKnowledgeBlock, UnassignAgentKnowledgeBlock, AssignAgentDocumentArea,
       UnassignAgentDocumentArea
  <2>2. QED
    BY <2>1, AssignKeeps, UnassignKeeps
<1>9. ASSUME NEW s \in Staff, NEW a \in Profiles, NEW u \in People,
             \/ \E on, everything \in BOOLEAN, areas \in SUBSET Areas :
                  BeginAssignAuthorizedUser(s, a, u, on, everything, areas)
             \/ UnassignAuthorizedUser(s, a, u)
      PROVE  AccessInv'
  BY <1>9, BeginAssignUserKeeps, UnassignUserKeeps
<1>10. QED
  BY <1>1, <1>2, <1>3, <1>4, <1>5, <1>6, <1>7, <1>8, <1>9 DEF AccessNext

\* The inductive invariant of access: rows have their shapes, a person's areas are
\* bound to the agent, and a change in flight names a row that exists
\* (services/admin_agent_access.py, agent_resources.py, governance.py).
THEOREM AccessInvariance == AccessSpec => []AccessInv
BY AccessInitHolds, AccessNextKeeps, PTL DEF AccessSpec

\* What people and operators are shown is what they may have (ShownIsAllowed):
\* an agent quotes a person only documents of its own areas, however the writes
\* of several requests overlap, and the panel offers what its endpoints accept.
THEOREM AccessIsShown == AccessSpec => []ShownIsAllowed
<1>1. ASSUME AccessInv PROVE ShownIsAllowed
  <2>1. ASSUME NEW a \in Profiles, NEW u \in People
        PROVE  GetUserAreaIds(a, u) \subseteq bound[a]
    BY <1>1 DEF AccessInv, AreasBound, GetUserAreaIds, CheckAccess
  <2>2. ASSUME NEW s \in Staff, NEW p \in Scoped
        PROVE  /\ {o.agent : o \in ListOperationAgents(s, p)}
                    = {a \in Profiles : HasAgentPermission(s, a, p)}
               /\ \A o \in ListOperationAgents(s, p) : \A c \in o.capabilities :
                    HasAgentPermission(s, o.agent, c)
    <3> DEFINE offer(a) == [agent |-> a,
                  capabilities |-> {c \in Scoped :
                    /\ Allows(PermissionsForRole(staff[s].role), c)
                    /\ Allows(PermissionsForAgent(s, a), c)}]
    <3>1. CASE ~Allows(PermissionsForRole(staff[s].role), p)
      BY <3>1 DEF ListOperationAgents, HasAgentPermission
    <3>2. CASE Allows(PermissionsForRole(staff[s].role), p)
      <4>1. ListOperationAgents(s, p) = {offer(a) : a \in {b \in Profiles : HasAgentPermission(s, b, p)}}
        BY <3>2 DEF ListOperationAgents, HasAgentPermission
      <4>2. \A a : /\ offer(a).agent = a
                   /\ \A c \in offer(a).capabilities : HasAgentPermission(s, a, c)
        BY DEF HasAgentPermission
      <4> HIDE DEF offer
      <4>3. QED
        BY <4>1, <4>2
    <3>3. QED
      BY <3>1, <3>2
  <2>3. QED
    BY <2>1, <2>2 DEF ShownIsAllowed
<1>2. QED
  BY <1>1, AccessInvariance, PTL

-----------------------------------------------------------------------------
(* Identity link claims (IdentityLinks).                                    *)

\* The decisions an operator can take, and the status each starts from.
Moves == {<<"pending", "verified">>, <<"pending", "rejected">>,
          <<"pending", "expired">>, <<"verified", "revoked">>}

\* What a status says of the decisions taken.
StatusFits(k) ==
  \/ claims[k].status = "pending" /\ claims[k].version = 0
  \/ claims[k].status \in {"verified", "rejected", "expired"} /\ claims[k].version = 1
  \/ /\ claims[k].status = "revoked" /\ claims[k].version = 2
     /\ receipts[k][2].to = "verified"

\* A claim and its receipts: one per version, the last of which it stands at.
ClaimHistory(k) ==
  IF claims[k] = NoClaim THEN receipts[k] = << >>
  ELSE /\ Len(receipts[k]) = claims[k].version + 1
       /\ receipts[k][claims[k].version + 1].to = claims[k].status
       /\ receipts[k][claims[k].version + 1].version = claims[k].version
       /\ StatusFits(k)

\* One idempotency key, one receipt of the agent.
KeysUnique ==
  \A k, l \in LinkKeys : \A i \in DOMAIN receipts[k], j \in DOMAIN receipts[l] :
    receipts[k][i].key = receipts[l][j].key => k = l /\ i = j

LinkInv ==
  /\ LinkTypeOK
  /\ \A k \in LinkKeys : ClaimHistory(k)
  /\ KeysUnique

\* A receipt under a key never used is appended to the receipts of one claim.
LEMMA ReceiptAppended ==
  ASSUME LinkInv, NEW k \in LinkKeys, NEW e \in ClaimEvent, EventWith(e.key) = {},
         receipts' = [receipts EXCEPT ![k] = Append(@, e)]
  PROVE  /\ receipts' \in [LinkKeys -> Seq(ClaimEvent)]
         /\ \A l \in LinkKeys : l # k => receipts'[l] = receipts[l]
         /\ receipts'[k] = Append(receipts[k], e)
         /\ KeysUnique'
<1>1. receipts \in [LinkKeys -> Seq(ClaimEvent)]
  BY DEF LinkInv, LinkTypeOK
<1>2. receipts[k] \in Seq(ClaimEvent)
  BY <1>1
<1>3. /\ receipts'[k] = Append(receipts[k], e)
      /\ \A l \in LinkKeys : l # k => receipts'[l] = receipts[l]
  BY <1>1
<1>4. receipts' \in [LinkKeys -> Seq(ClaimEvent)]
  BY <1>1, <1>2
<1>5. PICK n \in Nat : n = Len(receipts[k]) + 1
  BY <1>2
<1>6. /\ DOMAIN receipts'[k] = DOMAIN receipts[k] \cup {n} /\ n \notin DOMAIN receipts[k]
      /\ receipts'[k][n] = e
      /\ \A i \in DOMAIN receipts[k] : receipts'[k][i] = receipts[k][i]
  BY <1>2, <1>3, <1>5
<1>7. ASSUME NEW l \in LinkKeys, NEW i \in DOMAIN receipts'[l]
      PROVE  \/ l = k /\ i = n /\ receipts'[l][i].key = e.key
             \/ /\ i \in DOMAIN receipts[l] /\ receipts'[l][i] = receipts[l][i]
                /\ receipts'[l][i].key # e.key
  <2>1. \A j \in DOMAIN receipts[l] : receipts[l][j].key # e.key
    BY DEF EventWith
  <2>2. CASE l = k
    BY <1>6, <1>7, <2>1, <2>2
  <2>3. CASE l # k
    BY <1>3, <1>7, <2>1, <2>3
  <2>4. QED
    BY <2>2, <2>3
<1>8. KeysUnique'
  <2>1. SUFFICES ASSUME NEW a \in LinkKeys, NEW b \in LinkKeys, NEW i \in DOMAIN receipts'[a],
                        NEW j \in DOMAIN receipts'[b],
                        receipts'[a][i].key = receipts'[b][j].key
                 PROVE  a = b /\ i = j
    BY DEF KeysUnique
  <2>2. QED
    BY <1>7, <2>1 DEF LinkInv, KeysUnique
<1>9. QED
  BY <1>3, <1>4, <1>8

\* Issuing a claim keeps the invariant.
LEMMA IssueKeeps ==
  ASSUME LinkInv, NEW k \in LinkKeys, NEW pair \in Identities \X Identities, Issue(k, pair)
  PROVE  LinkInv'
<1>1. PICK e : e = IssueEvent(k)
  OBVIOUS
<1>2. PICK new : new = NewClaim(pair)
  OBVIOUS
<1>3. /\ claims[k] = NoClaim /\ EventWith(e.key) = {} /\ ClaimFits(new)
      /\ claims' = [claims EXCEPT ![k] = new]
      /\ receipts' = [receipts EXCEPT ![k] = Append(@, e)]
  BY <1>1, <1>2 DEF Issue, EventFits
<1>4. e \in ClaimEvent /\ e.to = "pending" /\ e.version = 0
  BY <1>1 DEF IssueEvent, ClaimEvent, LinkStatuses
<1>5. new \in Claim /\ new.status = "pending" /\ new.version = 0 /\ new # NoClaim
  <2>1. pair[1] \in Identities /\ pair[2] \in Identities /\ "pending" \in LinkStatuses
    BY DEF LinkStatuses
  <2>2. new \in Claim
    BY <1>2, <2>1 DEF NewClaim, Claim
  <2>3. new.status = "pending" /\ new.version = 0
    BY <1>2 DEF NewClaim
  <2>4. QED
    BY <2>2, <2>3, LinkAssumption
<1>6. /\ receipts' \in [LinkKeys -> Seq(ClaimEvent)]
      /\ \A l \in LinkKeys : l # k => receipts'[l] = receipts[l]
      /\ receipts'[k] = Append(receipts[k], e)
      /\ KeysUnique'
  BY <1>3, <1>4, ReceiptAppended
<1>7. claims \in [LinkKeys -> Claim \cup {NoClaim}]
  BY DEF LinkInv, LinkTypeOK
<1>8. claims'[k] = new /\ \A l \in LinkKeys : l # k => claims'[l] = claims[l]
  BY <1>3, <1>7
<1>9. LinkTypeOK'
  <2>1. claims' \in [LinkKeys -> Claim \cup {NoClaim}]
    BY <1>3, <1>5, <1>7
  <2>2. \A l \in LinkKeys : claims'[l] # NoClaim => ClaimFits(claims'[l])
    BY <1>3, <1>8 DEF LinkInv, LinkTypeOK
  <2>3. QED
    BY <1>6, <2>1, <2>2 DEF LinkTypeOK, ClaimFits
<1>10. ClaimHistory(k)'
  <2>1. receipts[k] = << >>
    BY <1>3 DEF LinkInv, ClaimHistory
  <2>2. receipts'[k] = <<e>>
    BY <1>6, <2>1
  <2>3. Len(<<e>>) = 1 /\ <<e>>[1] = e
    OBVIOUS
  <2>4. QED
    BY <1>4, <1>5, <1>8, <2>2, <2>3 DEF ClaimHistory, StatusFits
<1>11. ASSUME NEW l \in LinkKeys PROVE ClaimHistory(l)'
  <2>1. CASE l # k
    BY <1>6, <1>8, <2>1 DEF LinkInv, ClaimHistory, StatusFits
  <2>2. QED
    BY <1>10, <2>1
<1>12. QED
  BY <1>6, <1>9, <1>11 DEF LinkInv

\* A decision of a claim keeps the invariant.
LEMMA TransitionRecords ==
  ASSUME LinkInv, NEW k \in LinkKeys, NEW key \in LinkKeys, NEW to,
         Prepared(k, key), <<claims[k].status, to>> \in Moves, RecordTransition(k, key, to)
  PROVE  LinkInv'
<1>1. PICK old \in Claim : old = claims[k] /\ old # NoClaim
  BY DEF LinkInv, LinkTypeOK, Prepared
<1>2. PICK e : e = TransitionEvent(k, key, to)
  OBVIOUS
<1>3. PICK new : new = Transitioned(k, to)
  OBVIOUS
<1>4. /\ EventWith(e.key) = {} /\ ClaimFits(new)
      /\ claims' = [claims EXCEPT ![k] = new]
      /\ receipts' = [receipts EXCEPT ![k] = Append(@, e)]
  BY <1>2, <1>3 DEF RecordTransition, EventFits
<1>5. old.version \in Nat /\ old.status \in LinkStatuses /\ to \in LinkStatuses
  BY <1>1 DEF Claim, Moves, LinkStatuses
<1>6. e \in ClaimEvent /\ e.to = to /\ e.version = old.version + 1
  BY <1>1, <1>2, <1>5 DEF TransitionEvent, ClaimEvent
<1>7. new \in Claim /\ new.status = to /\ new.version = old.version + 1 /\ new # NoClaim
  <2>1. PICK v \in Nat : v = old.version + 1
    BY <1>5
  <2>2. /\ new \in Claim /\ new.status = to /\ new.version = old.version + 1
    <3>1. PICK c1 : c1 = [old EXCEPT !.status = to]
      OBVIOUS
    <3>2. c1 \in Claim /\ c1.status = to
      BY <1>1, <1>5, <3>1 DEF Claim
    <3>3. PICK c2 : c2 = [c1 EXCEPT !.version = v]
      OBVIOUS
    <3>4. c2 \in Claim /\ c2.status = to /\ c2.version = v
      BY <3>2, <3>3 DEF Claim
    <3>5. new = [c2 EXCEPT !.proof = FALSE]
      BY <1>1, <1>3, <2>1, <3>1, <3>3 DEF Transitioned
    <3>6. QED
      BY <2>1, <3>4, <3>5 DEF Claim
  <2>3. QED
    BY <2>2, LinkAssumption
<1>8. /\ receipts' \in [LinkKeys -> Seq(ClaimEvent)]
      /\ \A l \in LinkKeys : l # k => receipts'[l] = receipts[l]
      /\ receipts'[k] = Append(receipts[k], e)
      /\ KeysUnique'
  BY <1>4, <1>6, ReceiptAppended
<1>9. claims \in [LinkKeys -> Claim \cup {NoClaim}] /\ receipts[k] \in Seq(ClaimEvent)
  BY DEF LinkInv, LinkTypeOK
<1>10. claims'[k] = new /\ \A l \in LinkKeys : l # k => claims'[l] = claims[l]
  BY <1>4, <1>9
<1>11. LinkTypeOK'
  <2>1. claims' \in [LinkKeys -> Claim \cup {NoClaim}]
    BY <1>4, <1>7, <1>9
  <2>2. \A l \in LinkKeys : claims'[l] # NoClaim => ClaimFits(claims'[l])
    BY <1>4, <1>10 DEF LinkInv, LinkTypeOK
  <2>3. QED
    BY <1>8, <2>1, <2>2 DEF LinkTypeOK, ClaimFits
<1>12. ClaimHistory(k)'
  <2>1. /\ Len(receipts[k]) = old.version + 1
        /\ receipts[k][old.version + 1].to = old.status
        /\ \/ old.status = "pending" /\ old.version = 0
           \/ old.status \in {"verified", "rejected", "expired"} /\ old.version = 1
           \/ old.status = "revoked" /\ old.version = 2
    BY <1>1 DEF LinkInv, ClaimHistory, StatusFits
  <2>2. \/ old.status = "pending" /\ to \in {"verified", "rejected", "expired"}
        \/ old.status = "verified" /\ to = "revoked"
    BY <1>1 DEF Moves
  <2>3. PICK n \in Nat : n = old.version + 1
    BY <1>5
  <2>4. /\ Len(receipts'[k]) = n + 1 /\ receipts'[k][n + 1] = e
        /\ receipts'[k][n] = receipts[k][n]
    BY <1>5, <1>6, <1>8, <1>9, <2>1, <2>3
  <2>5. /\ Len(receipts'[k]) = new.version + 1
        /\ receipts'[k][new.version + 1].to = new.status
        /\ receipts'[k][new.version + 1].version = new.version
    BY <1>6, <1>7, <2>3, <2>4
  <2>6. \/ new.status \in {"verified", "rejected", "expired"} /\ new.version = 1
        \/ new.status = "revoked" /\ new.version = 2 /\ receipts'[k][2].to = "verified"
    <3>1. CASE old.status = "pending" /\ to \in {"verified", "rejected", "expired"}
      BY <1>7, <2>1, <3>1
    <3>2. CASE old.status = "verified" /\ to = "revoked"
      <4>1. old.version = 1 /\ n = 2 /\ receipts[k][2].to = "verified"
        BY <2>1, <2>3, <3>2
      <4>2. QED
        BY <1>7, <2>4, <3>2, <4>1
    <3>3. QED
      BY <2>2, <3>1, <3>2
  <2>7. QED
    BY <1>7, <1>10, <2>5, <2>6 DEF ClaimHistory, StatusFits
<1>13. ASSUME NEW l \in LinkKeys PROVE ClaimHistory(l)'
  <2>1. CASE l # k
    BY <1>8, <1>10, <2>1 DEF LinkInv, ClaimHistory, StatusFits
  <2>2. QED
    BY <1>12, <2>1
<1>14. QED
  BY <1>8, <1>11, <1>13 DEF LinkInv

\* Every step that writes a claim is an issue or one of the four decisions.
LinkStep ==
  \/ \E k \in LinkKeys, pair \in Identities \X Identities : Issue(k, pair)
  \/ \E k, key \in LinkKeys, to \in LinkStatuses :
       /\ Prepared(k, key) /\ <<claims[k].status, to>> \in Moves
       /\ RecordTransition(k, key, to)
  \/ \E k \in LinkKeys : ProofExpires(k)
  \/ UNCHANGED linkVars

\* What a step does to the claims and their receipts.
LEMMA LinkSteps == [LinkNext]_linkVars => LinkStep
<1> SUFFICES ASSUME [LinkNext]_linkVars PROVE LinkStep
  OBVIOUS
<1>1. \/ UNCHANGED linkVars
      \/ \E k \in LinkKeys, pair \in Identities \X Identities : Issue(k, pair)
      \/ \E k \in LinkKeys : ProofExpires(k)
      \/ \E k, key \in LinkKeys, expected \in 0..2 :
           \/ \E token \in LinkKeys : Verify(k, token, expected, key)
           \/ Reject(k, expected, key)
           \/ Revoke(k, expected, key)
           \/ Expire(k, expected, key)
  BY DEF LinkNext, IssueIdentityLinkClaim, VerifyIdentityLinkClaim, RejectIdentityLinkClaim,
     RevokeIdentityLinkClaim, ExpireIdentityLinkClaim
<1>2. ASSUME NEW k \in LinkKeys, NEW key \in LinkKeys, NEW expected \in 0..2,
             \/ \E token \in LinkKeys : Verify(k, token, expected, key)
             \/ Reject(k, expected, key)
             \/ Revoke(k, expected, key)
             \/ Expire(k, expected, key)
      PROVE  \E to \in LinkStatuses :
               /\ Prepared(k, key) /\ <<claims[k].status, to>> \in Moves
               /\ RecordTransition(k, key, to)
  <2>1. ASSUME NEW token \in LinkKeys, Verify(k, token, expected, key)
        PROVE  /\ Prepared(k, key) /\ claims[k].status = "pending"
               /\ RecordTransition(k, key, "verified")
    BY <2>1 DEF Verify
  <2>2. ASSUME Reject(k, expected, key)
        PROVE  /\ Prepared(k, key) /\ claims[k].status = "pending"
               /\ RecordTransition(k, key, "rejected")
    BY <2>2 DEF Reject, TerminalTransition
  <2>3. ASSUME Revoke(k, expected, key)
        PROVE  /\ Prepared(k, key) /\ claims[k].status = "verified"
               /\ RecordTransition(k, key, "revoked")
    BY <2>3 DEF Revoke, TerminalTransition
  <2>4. ASSUME Expire(k, expected, key)
        PROVE  /\ Prepared(k, key) /\ claims[k].status = "pending"
               /\ RecordTransition(k, key, "expired")
    BY <2>4 DEF Expire, TerminalTransition
  <2>5. {"verified", "rejected", "revoked", "expired"} \subseteq LinkStatuses
    BY DEF LinkStatuses
  <2>6. QED
    BY <1>2, <2>1, <2>2, <2>3, <2>4, <2>5 DEF Moves
<1>3. QED
  BY <1>1, <1>2 DEF LinkStep

\* The end of a proof's time keeps the invariant.
LEMMA ProofExpiresKeeps ==
  ASSUME LinkInv, NEW k \in LinkKeys, ProofExpires(k)
  PROVE  /\ LinkInv'
         /\ receipts' = receipts /\ claims'[k] # NoClaim
         /\ claims'[k].status = claims[k].status /\ claims'[k].version = claims[k].version
         /\ \A l \in LinkKeys : l # k => claims'[l] = claims[l]
<1>1. /\ claims[k] # NoClaim /\ receipts' = receipts
      /\ claims' = [claims EXCEPT ![k].due = TRUE]
  BY DEF ProofExpires
<1>2. PICK old \in Claim : old = claims[k]
  BY <1>1 DEF LinkInv, LinkTypeOK
<1>3. PICK new : new = [old EXCEPT !.due = TRUE]
  OBVIOUS
<1>4. new \in Claim /\ new # NoClaim
  <2>1. new \in Claim
    BY <1>2, <1>3 DEF Claim
  <2>2. QED
    BY <2>1, LinkAssumption
<1>5. /\ new.source = old.source /\ new.target = old.target /\ new.status = old.status
      /\ new.version = old.version /\ new.proof = old.proof
  BY <1>2, <1>3 DEF Claim
<1>6. claims \in [LinkKeys -> Claim \cup {NoClaim}]
  BY DEF LinkInv, LinkTypeOK
<1>7. claims'[k] = new /\ \A l \in LinkKeys : l # k => claims'[l] = claims[l]
  BY <1>1, <1>2, <1>3, <1>6
<1>8. claims' \in [LinkKeys -> Claim \cup {NoClaim}]
  BY <1>1, <1>2, <1>3, <1>4, <1>6
<1>9. ClaimFits(new)
  BY <1>1, <1>2, <1>5 DEF LinkInv, LinkTypeOK, ClaimFits
<1>10. \A l \in LinkKeys : claims'[l] # NoClaim => ClaimFits(claims'[l])
  BY <1>7, <1>9 DEF LinkInv, LinkTypeOK
<1>11. LinkTypeOK'
  BY <1>1, <1>8, <1>10 DEF LinkInv, LinkTypeOK, ClaimFits
<1>12. ASSUME NEW l \in LinkKeys PROVE ClaimHistory(l)'
  <2>1. CASE l # k
    BY <1>1, <1>7, <2>1 DEF LinkInv, ClaimHistory, StatusFits
  <2>2. CASE l = k
    <3>1. ClaimHistory(k)
      BY DEF LinkInv
    <3>2. ClaimHistory(k)'
      BY <1>1, <1>2, <1>4, <1>5, <1>7, <3>1 DEF ClaimHistory, StatusFits
    <3>3. QED
      BY <2>2, <3>2
  <2>3. QED
    BY <2>1, <2>2
<1>13. LinkInv'
  BY <1>1, <1>11, <1>12 DEF LinkInv, KeysUnique
<1>14. QED
  BY <1>1, <1>2, <1>4, <1>5, <1>7, <1>13

\* Every step of the claims keeps their invariant.
LEMMA LinkNextKeeps == LinkInv /\ [LinkNext]_linkVars => LinkInv'
<1> SUFFICES ASSUME LinkInv, [LinkNext]_linkVars PROVE LinkInv'
  OBVIOUS
<1>1. LinkStep
  BY LinkSteps
<1>2. CASE UNCHANGED linkVars
  BY <1>2 DEF linkVars, LinkInv, LinkTypeOK, ClaimHistory, StatusFits, KeysUnique
<1>3. QED
  BY <1>1, <1>2, IssueKeeps, TransitionRecords, ProofExpiresKeeps DEF LinkStep

\* The inductive invariant of identity links: a claim is what its receipts add up
\* to, and no key was used twice (services/identity_link_claims.py).
THEOREM LinkInvariance == LinkSpec => []LinkInv
<1>1. LinkInit => LinkInv
  <2>1. << >> \in Seq(ClaimEvent)
    OBVIOUS
  <2>2. QED
    BY <2>1 DEF LinkInit, LinkInv, LinkTypeOK, ClaimHistory, KeysUnique
<1>2. QED
  BY <1>1, LinkNextKeeps, PTL DEF LinkSpec

\* However operators race and retry, a claim is decided once, only a verified
\* claim is revoked, and a key stands for one command (DecidedOnce).
THEOREM ClaimsDecidedOnce == LinkSpec => []DecidedOnce
<1>1. ASSUME LinkInv PROVE DecidedOnce
  <2>1. ASSUME NEW k \in LinkKeys
        PROVE  LET h == receipts[k]
               IN  /\ Len(h) >= 2 => h[2].to \in {"verified", "rejected", "expired"}
                   /\ Len(h) >= 3 => h[2].to = "verified" /\ h[3].to = "revoked"
                   /\ Len(h) <= 3
    <3>1. ClaimHistory(k)
      BY <1>1 DEF LinkInv
    <3>2. CASE claims[k] = NoClaim
      BY <3>1, <3>2 DEF ClaimHistory
    <3>3. CASE claims[k] # NoClaim
      <4>1. PICK n \in Nat : n = claims[k].version
        BY <1>1, <3>3 DEF LinkInv, LinkTypeOK, Claim
      <4>2. Len(receipts[k]) = n + 1 /\ receipts[k][n + 1].to = claims[k].status
        BY <3>1, <3>3, <4>1 DEF ClaimHistory
      <4>3. \/ n = 0
            \/ n = 1 /\ claims[k].status \in {"verified", "rejected", "expired"}
            \/ n = 2 /\ claims[k].status = "revoked" /\ receipts[k][2].to = "verified"
        BY <3>1, <3>3, <4>1 DEF ClaimHistory, StatusFits
      <4>4. QED
        BY <4>2, <4>3
    <3>4. QED
      BY <3>2, <3>3
  <2>2. QED
    BY <1>1, <2>1 DEF DecidedOnce, LinkInv, KeysUnique
<1>2. QED
  BY <1>1, LinkInvariance, PTL

\* The receipts of a claim, as CommandLog sees them.
LEMMA LogOf ==
  ASSUME NEW k \in LinkKeys, receipts[k] \in Seq(ClaimEvent)
  PROVE  /\ Len(Log(k)) = Len(receipts[k]) /\ DOMAIN Log(k) = DOMAIN receipts[k]
         /\ \A i \in DOMAIN receipts[k] :
              /\ Log(k)[i].key = receipts[k][i].key
              /\ Log(k)[i].value = [status |-> receipts[k][i].to,
                                    version |-> receipts[k][i].version]
<1>1. PICK n \in Nat : n = Len(receipts[k]) /\ DOMAIN receipts[k] = 1..n
  OBVIOUS
<1>2. Log(k) = [i \in 1..n |-> Log(k)[i]]
  BY <1>1 DEF Log
<1>3. Len(Log(k)) = n /\ DOMAIN Log(k) = 1..n
  BY <1>2, LogLength
<1>4. \A i \in DOMAIN receipts[k] :
        /\ Log(k)[i].key = receipts[k][i].key
        /\ Log(k)[i].value = [status |-> receipts[k][i].to,
                              version |-> receipts[k][i].version]
  BY DEF Log
<1>5. QED
  BY <1>1, <1>3, <1>4

\* One more receipt, under a key of its own, that says what the claim is now.
LEMMA ClaimRecorded ==
  ASSUME LinkInv, LinkInv', NEW k \in LinkKeys, NEW e \in ClaimEvent,
         receipts'[k] = Append(receipts[k], e), EventWith(e.key) = {},
         claims'[k] # NoClaim
  PROVE  ClaimLog!Recorded(k)
<1>1. receipts[k] \in Seq(ClaimEvent) /\ receipts'[k] \in Seq(ClaimEvent)
  BY DEF LinkInv, LinkTypeOK
<1>2. PICK n \in Nat : n = Len(receipts[k]) + 1
  BY <1>1
<1>3. /\ Len(receipts'[k]) = n /\ n \in DOMAIN receipts'[k] /\ receipts'[k][n] = e
      /\ \A i \in DOMAIN receipts[k] : i \in DOMAIN receipts'[k] /\ receipts'[k][i] = receipts[k][i]
  BY <1>1, <1>2
<1>4. /\ Len(Log(k)) = Len(receipts[k]) /\ DOMAIN Log(k) = DOMAIN receipts[k]
      /\ \A i \in DOMAIN receipts[k] : Log(k)[i].key = receipts[k][i].key
  BY <1>1, LogOf
<1>5. /\ Len(Log(k)') = Len(receipts'[k])
      /\ \A i \in DOMAIN receipts'[k] :
           /\ Log(k)'[i].key = receipts'[k][i].key
           /\ Log(k)'[i].value = [status |-> receipts'[k][i].to,
                                  version |-> receipts'[k][i].version]
  <2>1. Log(k)' = [i \in 1..n |-> Log(k)'[i]]
    BY <1>1, <1>2, <1>3 DEF Log
  <2>2. Len(Log(k)') = n
    BY <2>1, LogLength
  <2>3. \A i \in DOMAIN receipts'[k] :
           /\ Log(k)'[i].key = receipts'[k][i].key
           /\ Log(k)'[i].value = [status |-> receipts'[k][i].to,
                                  version |-> receipts'[k][i].version]
    BY DEF Log
  <2>4. QED
    BY <1>3, <2>2, <2>3
<1>6. \A i \in DOMAIN receipts[k] : Log(k)'[i] = Log(k)[i]
  BY <1>3 DEF Log
<1>7. \A i \in DOMAIN receipts[k] : receipts[k][i].key # e.key
  BY DEF EventWith
<1>8. /\ n = claims'[k].version + 1 /\ e.to = claims'[k].status
      /\ e.version = claims'[k].version
  <2>1. ClaimHistory(k)'
    BY DEF LinkInv
  <2>2. Len(receipts'[k]) = claims'[k].version + 1
    BY <2>1 DEF ClaimHistory
  <2>3. QED
    BY <1>3, <2>1, <2>2 DEF ClaimHistory
<1>9. /\ Len(Log(k)') = Len(Log(k)) + 1
      /\ \A i \in DOMAIN Log(k) : Log(k)'[i] = Log(k)[i] /\ Log(k)[i].key # Log(k)'[n].key
      /\ Log(k)'[n].value = [status |-> claims'[k].status, version |-> claims'[k].version]
      /\ Len(Log(k)') = n
  BY <1>1, <1>2, <1>3, <1>4, <1>5, <1>6, <1>7, <1>8
<1>10. QED
  BY <1>9 DEF ClaimLog!Recorded

\* Claims implement CommandLog: no status without its receipt, no receipt twice.
THEOREM ClaimsKeepReceipts == LinkSpec => EveryClaimHasItsReceipts
<1>1. LinkInit => ClaimLog!Init
  <2>1. ASSUME LinkInit, NEW k \in LinkKeys PROVE claims[k] = NoClaim /\ Log(k) = << >>
    BY <2>1 DEF LinkInit, Log
  <2>2. QED
    BY <2>1 DEF ClaimLog!Init
<1>2. ASSUME LinkInv, LinkInv', [LinkNext]_linkVars, NEW l \in LinkKeys
      PROVE  ClaimLog!Kept(l) \/ ClaimLog!Recorded(l)
  <2>1. LinkStep
    BY <1>2, LinkSteps
  <2>2. ASSUME receipts'[l] = receipts[l],
               IF claims[l] = NoClaim THEN claims'[l] = NoClaim
               ELSE /\ claims'[l] # NoClaim /\ claims'[l].status = claims[l].status
                    /\ claims'[l].version = claims[l].version
        PROVE  ClaimLog!Kept(l)
    BY <2>2 DEF ClaimLog!Kept, Log
  <2>3. ASSUME NEW k \in LinkKeys, NEW e \in ClaimEvent, NEW new \in Claim,
               EventWith(e.key) = {}, claims' = [claims EXCEPT ![k] = new],
               receipts' = [receipts EXCEPT ![k] = Append(@, e)]
        PROVE  ClaimLog!Kept(l) \/ ClaimLog!Recorded(l)
    <3>1. claims \in [LinkKeys -> Claim \cup {NoClaim}]
          /\ receipts \in [LinkKeys -> Seq(ClaimEvent)]
      BY <1>2 DEF LinkInv, LinkTypeOK
    <3>2. CASE l = k
      <4>1. receipts'[k] = Append(receipts[k], e) /\ claims'[k] # NoClaim
        BY <2>3, <3>1, LinkAssumption
      <4>2. QED
        BY <1>2, <2>3, <3>2, <4>1, ClaimRecorded
    <3>3. CASE l # k
      BY <2>2, <2>3, <3>1, <3>3
    <3>4. QED
      BY <3>2, <3>3
  <2>4. ASSUME NEW k \in LinkKeys, NEW pair \in Identities \X Identities, Issue(k, pair)
        PROVE  ClaimLog!Kept(l) \/ ClaimLog!Recorded(l)
    <3>1. IssueEvent(k) \in ClaimEvent /\ NewClaim(pair) \in Claim
      <4>1. pair[1] \in Identities /\ pair[2] \in Identities /\ "pending" \in LinkStatuses
        BY DEF LinkStatuses
      <4>2. QED
        BY <4>1 DEF IssueEvent, ClaimEvent, NewClaim, Claim
    <3>2. /\ EventWith(IssueEvent(k).key) = {}
          /\ claims' = [claims EXCEPT ![k] = NewClaim(pair)]
          /\ receipts' = [receipts EXCEPT ![k] = Append(@, IssueEvent(k))]
      BY <2>4 DEF Issue, EventFits
    <3>3. QED
      BY <2>3, <3>1, <3>2
  <2>5. ASSUME NEW k \in LinkKeys, NEW key \in LinkKeys, NEW to \in LinkStatuses,
               Prepared(k, key), RecordTransition(k, key, to)
        PROVE  ClaimLog!Kept(l) \/ ClaimLog!Recorded(l)
    <3>1. PICK old \in Claim : old = claims[k]
      BY <1>2, <2>5 DEF LinkInv, LinkTypeOK, Prepared
    <3>2. old.version \in Nat /\ old.status \in LinkStatuses
      BY <3>1 DEF Claim
    <3>3. TransitionEvent(k, key, to) \in ClaimEvent
      BY <3>1, <3>2 DEF TransitionEvent, ClaimEvent
    <3>4. /\ EventWith(TransitionEvent(k, key, to).key) = {}
          /\ claims' = [claims EXCEPT ![k] = Transitioned(k, to)]
          /\ receipts' = [receipts EXCEPT ![k] = Append(@, TransitionEvent(k, key, to))]
      BY <2>5 DEF RecordTransition, EventFits
    <3>5. Transitioned(k, to) \in Claim
      <4>1. PICK v \in Nat : v = old.version + 1
        BY <3>2
      <4>2. PICK c1 : c1 = [old EXCEPT !.status = to]
        OBVIOUS
      <4>3. c1 \in Claim
        BY <3>1, <4>2 DEF Claim
      <4>4. Transitioned(k, to) = [[c1 EXCEPT !.version = v] EXCEPT !.proof = FALSE]
        BY <3>1, <4>1, <4>2 DEF Transitioned
      <4>5. QED
        BY <4>1, <4>3, <4>4 DEF Claim
    <3>6. QED
      BY <2>3, <3>3, <3>4, <3>5
  <2>6. ASSUME NEW k \in LinkKeys, ProofExpires(k)
        PROVE  ClaimLog!Kept(l)
    <3>1. /\ receipts' = receipts /\ claims'[k] # NoClaim /\ claims[k] # NoClaim
          /\ claims'[k].status = claims[k].status /\ claims'[k].version = claims[k].version
          /\ \A j \in LinkKeys : j # k => claims'[j] = claims[j]
      BY <1>2, <2>6, ProofExpiresKeeps DEF ProofExpires
    <3>2. QED
      BY <2>2, <3>1
  <2>7. CASE UNCHANGED linkVars
    BY <2>2, <2>7 DEF linkVars
  <2>8. QED
    BY <2>1, <2>4, <2>5, <2>6, <2>7 DEF LinkStep
<1>3. LinkInv /\ LinkInv' /\ [LinkNext]_linkVars =>
        [ClaimLog!Next]_<<[k \in LinkKeys |->
            IF claims[k] = NoClaim THEN NoClaim
            ELSE [status |-> claims[k].status, version |-> claims[k].version]],
          [k \in LinkKeys |-> Log(k)]>>
  BY <1>2 DEF ClaimLog!Next
<1>4. QED
  BY <1>1, <1>3, LinkInvariance, PTL DEF LinkSpec, EveryClaimHasItsReceipts, ClaimLog!Spec

-----------------------------------------------------------------------------
(* The channel catalog (ChannelCatalog).                                    *)

\* What a form holds of a row: an older version of it, or the row itself.
Held(row, now) ==
  /\ now # NoRow
  /\ row.version <= now.version
  /\ row.version = now.version => row = now

FormsHold ==
  \A e \in Editors : forms[e] # NoRow =>
    /\ forms[e].id \in Connections => Held(forms[e].row, connections[forms[e].id])
    /\ forms[e].id \in RouteKeys => Held(forms[e].row, routes[forms[e].id])

CatalogInv == CatalogTypeOK /\ FormsHold

\* A row is replaced by a later version of it.
Later(old, new) == old # NoRow => new # NoRow /\ new.version = old.version + 1

\* An edit is one more, up to the bound.
LEMMA EditCounted ==
  ASSUME CatalogInv, Edit
  PROVE  edits' \in 0..MaxEdits
<1>1. edits \in 0..MaxEdits /\ MaxEdits \in Nat
  BY CatalogAssumption DEF CatalogInv, CatalogTypeOK
<1>2. QED
  BY <1>1 DEF Edit

\* Rows of the tables in a form are records of two fields.
LEMMA FormShape ==
  ASSUME CatalogInv, NEW e \in Editors, forms[e] # NoRow
  PROVE  /\ forms[e] = [id |-> forms[e].id, row |-> forms[e].row]
         /\ forms[e].id \in Connections => forms[e].row \in Connection
         /\ forms[e].id \in RouteKeys => forms[e].row \in ChannelRoute
<1>1. forms[e] \in Form
  BY DEF CatalogInv, CatalogTypeOK
<1>2. QED
  BY <1>1, CatalogAssumption DEF Form

\* An edit of unversioned rows keeps the invariant.
LEMMA PlainEditKeeps ==
  ASSUME CatalogInv, UNCHANGED <<connections, routes, forms>>,
         providers' \in [Providers -> Provider \cup {NoRow}],
         runtimes' \in [Bots -> Runtime \cup {NoRow}],
         liveBots' \subseteq Bots, traffic' \subseteq Connections \cup RouteKeys,
         edits' \in 0..MaxEdits
  PROVE  CatalogInv'
BY DEF CatalogInv, CatalogTypeOK, FormsHold, Held, RouteConnection

\* A write of one connection under a new version keeps the invariant.
LEMMA ConnectionKeeps ==
  ASSUME CatalogInv, NEW c \in Connections, NEW new \in Connection,
         new.version \in 0..MaxVersion, Later(connections[c], new),
         connections' = [connections EXCEPT ![c] = new], edits' \in 0..MaxEdits,
         UNCHANGED <<providers, runtimes, liveBots, routes, forms, traffic>>
  PROVE  CatalogInv'
<1>1. connections \in [Connections -> Connection \cup {NoRow}] /\ new # NoRow
  BY CatalogAssumption DEF CatalogInv, CatalogTypeOK
<1>2. /\ connections' \in [Connections -> Connection \cup {NoRow}]
      /\ connections'[c] = new
      /\ \A d \in Connections : d # c => connections'[d] = connections[d]
  BY <1>1
<1>3. \A d \in Connections : connections'[d] # NoRow => connections'[d].version \in 0..MaxVersion
  BY <1>2 DEF CatalogInv, CatalogTypeOK
<1>4. ASSUME NEW k \in RouteKeys, routes[k] # NoRow
      PROVE  RouteConnection(k, routes[k].connection)'
  <2>1. RouteConnection(k, routes[k].connection) /\ routes[k].connection \in Connections
    BY <1>4 DEF CatalogInv, CatalogTypeOK, ChannelRoute
  <2>2. QED
    BY <1>1, <1>2, <2>1 DEF RouteConnection
<1>5. CatalogTypeOK'
  <2>1. \A k \in RouteKeys : routes'[k] # NoRow =>
          /\ routes'[k].version \in 0..MaxVersion
          /\ RouteConnection(k, routes[k].connection)'
    BY <1>4 DEF CatalogInv, CatalogTypeOK
  <2>2. QED
    BY <1>2, <1>3, <2>1 DEF CatalogInv, CatalogTypeOK
<1>6. ASSUME NEW e \in Editors, forms[e] # NoRow, forms[e].id \in Connections
      PROVE  Held(forms[e].row, connections'[forms[e].id])
  <2>1. Held(forms[e].row, connections[forms[e].id]) /\ forms[e].row \in Connection
    BY <1>6, FormShape DEF CatalogInv, FormsHold
  <2>2. CASE forms[e].id # c
    BY <1>2, <1>6, <2>1, <2>2
  <2>3. CASE forms[e].id = c
    <3>1. connections[c] # NoRow /\ connections[c] \in Connection
      BY <1>1, <2>1, <2>3 DEF Held
    <3>2. PICK v \in Nat, w \in Nat : v = forms[e].row.version /\ w = connections[c].version
      BY <2>1, <3>1 DEF Connection
    <3>3. v <= w /\ new.version = w + 1
      BY <2>1, <2>3, <3>1, <3>2 DEF Held, Later
    <3>4. QED
      BY <1>1, <1>2, <2>3, <3>2, <3>3 DEF Held
  <2>4. QED
    BY <2>2, <2>3
<1>7. FormsHold'
  BY <1>6 DEF CatalogInv, FormsHold
<1>8. QED
  BY <1>5, <1>7 DEF CatalogInv

\* A write of one route under a new version keeps the invariant.
LEMMA RouteRowKeeps ==
  ASSUME CatalogInv, NEW k \in RouteKeys, NEW new \in ChannelRoute,
         new.version \in 0..MaxVersion, Later(routes[k], new),
         RouteConnection(k, new.connection),
         routes' = [routes EXCEPT ![k] = new], edits' \in 0..MaxEdits,
         UNCHANGED <<providers, runtimes, liveBots, connections, forms, traffic>>
  PROVE  CatalogInv'
<1>1. routes \in [RouteKeys -> ChannelRoute \cup {NoRow}] /\ new # NoRow
  BY CatalogAssumption DEF CatalogInv, CatalogTypeOK
<1>2. /\ routes' \in [RouteKeys -> ChannelRoute \cup {NoRow}]
      /\ routes'[k] = new
      /\ \A d \in RouteKeys : d # k => routes'[d] = routes[d]
  BY <1>1
<1>3. CatalogTypeOK'
  <2>1. \A d \in RouteKeys : routes'[d] # NoRow =>
          /\ routes'[d].version \in 0..MaxVersion
          /\ RouteConnection(d, routes[d].connection)'
    BY <1>2 DEF CatalogInv, CatalogTypeOK, RouteConnection
  <2>2. QED
    BY <1>2, <2>1 DEF CatalogInv, CatalogTypeOK
<1>4. ASSUME NEW e \in Editors, forms[e] # NoRow, forms[e].id \in RouteKeys
      PROVE  Held(forms[e].row, routes'[forms[e].id])
  <2>1. Held(forms[e].row, routes[forms[e].id]) /\ forms[e].row \in ChannelRoute
    BY <1>4, FormShape DEF CatalogInv, FormsHold
  <2>2. CASE forms[e].id # k
    BY <1>2, <1>4, <2>1, <2>2
  <2>3. CASE forms[e].id = k
    <3>1. routes[k] # NoRow /\ routes[k] \in ChannelRoute
      BY <1>1, <2>1, <2>3 DEF Held
    <3>2. PICK v \in Nat, w \in Nat : v = forms[e].row.version /\ w = routes[k].version
      BY <2>1, <3>1 DEF ChannelRoute
    <3>3. v <= w /\ new.version = w + 1
      BY <2>1, <2>3, <3>1, <3>2 DEF Held, Later
    <3>4. QED
      BY <1>1, <1>2, <2>3, <3>2, <3>3 DEF Held
  <2>4. QED
    BY <2>2, <2>3
<1>5. FormsHold'
  BY <1>4 DEF CatalogInv, FormsHold
<1>6. QED
  BY <1>3, <1>5 DEF CatalogInv

\* What an update writes: the row asked for, one version on.
LEMMA ConnectionWritten ==
  ASSUME CatalogInv, NEW c \in Connections, connections[c] # NoRow,
         NEW new \in Connection, NEW v, ConnectionUpdated(c, new, v)
  PROVE  \E row \in Connection :
           /\ row = [new EXCEPT !.version = connections[c].version + 1]
           /\ row.version \in 0..MaxVersion /\ Later(connections[c], row)
           /\ connections' = [connections EXCEPT ![c] = row]
<1>1. connections[c] \in Connection /\ MaxVersion \in Nat
  BY CatalogAssumption DEF CatalogInv, CatalogTypeOK
<1>2. PICK n \in Nat : n = connections[c].version + 1 /\ n \in 0..MaxVersion
  BY <1>1 DEF ConnectionUpdated, Connection
<1>3. PICK row : row = [new EXCEPT !.version = n]
  OBVIOUS
<1>4. row \in Connection /\ row.version = n
  BY <1>2, <1>3 DEF Connection
<1>5. row # NoRow
  BY <1>4, CatalogAssumption
<1>6. connections' = [connections EXCEPT ![c] = row]
  BY <1>2, <1>3 DEF ConnectionUpdated
<1>7. QED
  BY <1>2, <1>3, <1>4, <1>5, <1>6 DEF Later

\* The rows a form of a connection may hold are rows of the table.
LEMMA ShownRows ==
  ASSUME CatalogInv, NEW c \in Connections, connections[c] # NoRow
  PROVE  /\ ConnectionRows(c) \subseteq Connection
         /\ [connections[c] EXCEPT !.active = FALSE] \in Connection
<1>1. connections[c] \in Connection
  BY DEF CatalogInv, CatalogTypeOK
<1>2. connections[c].version \in Nat
  BY <1>1 DEF Connection
<1>3. \A on \in BOOLEAN, a \in Accounts, has \in BOOLEAN :
        [active |-> on, account |-> a, credentials |-> has,
         version |-> connections[c].version] \in Connection
  BY <1>2 DEF Connection
<1>4. ConnectionRows(c) \subseteq Connection
  BY <1>3 DEF ConnectionRows
<1>5. [connections[c] EXCEPT !.active = FALSE] \in Connection
  BY <1>1 DEF Connection
<1>6. QED
  BY <1>4, <1>5

\* The row an edit of a route leaves follows the version it names.
LEMMA RouteWritten ==
  ASSUME CatalogInv, NEW b \in Bots, NEW k \in RouteKeys, NEW c \in Connections,
         NEW on \in BOOLEAN, NEW v, routes[k] # NoRow, RouteUpdated(b, k, c, on, v)
  PROVE  \E row \in ChannelRoute :
           /\ row = [bot |-> b, connection |-> c, active |-> on, version |-> v + 1]
           /\ v = routes[k].version
           /\ row.version \in 0..MaxVersion /\ Later(routes[k], row)
           /\ RouteConnection(k, row.connection)
           /\ routes' = [routes EXCEPT ![k] = row]
<1>1. routes[k] \in ChannelRoute /\ MaxVersion \in Nat
  BY CatalogAssumption DEF CatalogInv, CatalogTypeOK
<1>2. v \in Nat /\ v = routes[k].version /\ v + 1 \in 0..MaxVersion
  BY <1>1 DEF RouteUpdated, RequireVersion, ChannelRoute
<1>3. PICK row : row = [bot |-> b, connection |-> c, active |-> on, version |-> v + 1]
  OBVIOUS
<1>4. row \in ChannelRoute /\ row.version = v + 1 /\ row.connection = c
  BY <1>2, <1>3 DEF ChannelRoute
<1>5. row # NoRow
  BY <1>4, CatalogAssumption
<1>6. RouteConnection(k, c) /\ routes' = [routes EXCEPT ![k] = row]
  BY <1>3 DEF RouteUpdated
<1>7. QED
  BY <1>2, <1>3, <1>4, <1>5, <1>6 DEF Later

\* Opening a form keeps the invariant.
LEMMA OpenFormKeeps ==
  ASSUME CatalogInv, NEW e \in Editors, OpenForm(e)
  PROVE  CatalogInv'
<1>1. UNCHANGED <<providers, runtimes, liveBots, connections, routes, traffic, edits>>
  BY DEF OpenForm
<1>0. PICK id \in Connections \cup RouteKeys :
        \E row, new :
          /\ row = IF id \in Connections THEN connections[id] ELSE routes[id]
          /\ row # NoRow /\ new = [id |-> id, row |-> row]
          /\ forms' = [forms EXCEPT ![e] = new]
  BY DEF OpenForm
<1>2. PICK row, new :
        /\ row = IF id \in Connections THEN connections[id] ELSE routes[id]
        /\ row # NoRow /\ new = [id |-> id, row |-> row]
        /\ forms' = [forms EXCEPT ![e] = new]
  BY <1>0
<1>3. /\ id \in Connections => row = connections[id] /\ row \in Connection
      /\ id \in RouteKeys => row = routes[id] /\ row \in ChannelRoute
  BY <1>2, CatalogAssumption DEF CatalogInv, CatalogTypeOK
<1>4. new \in Form /\ new.id = id /\ new.row = row
  BY <1>2, <1>3 DEF Form
<1>5. /\ id \in Connections => Held(row, connections[id])
      /\ id \in RouteKeys => Held(row, routes[id])
  <2>1. \A n \in Nat : n <= n
    OBVIOUS
  <2>2. row.version \in Nat
    BY <1>3 DEF Connection, ChannelRoute
  <2>3. QED
    BY <1>2, <1>3, <2>1, <2>2 DEF Held
<1>6. forms \in [Editors -> Form \cup {NoRow}]
  BY DEF CatalogInv, CatalogTypeOK
<1>7. /\ forms' \in [Editors -> Form \cup {NoRow}] /\ forms'[e] = new
      /\ \A d \in Editors : d # e => forms'[d] = forms[d]
  BY <1>2, <1>4, <1>6
<1>8. CatalogTypeOK'
  BY <1>1, <1>7 DEF CatalogInv, CatalogTypeOK, RouteConnection
<1>9. FormsHold'
  BY <1>1, <1>4, <1>5, <1>7 DEF CatalogInv, FormsHold
<1>10. QED
  BY <1>8, <1>9 DEF CatalogInv

\* Every step of the catalog keeps its invariant.
LEMMA CatalogNextKeeps == CatalogInv /\ [CatalogNext]_catalogVars => CatalogInv'
<1> SUFFICES ASSUME CatalogInv, [CatalogNext]_catalogVars PROVE CatalogInv'
  OBVIOUS
<1>t. /\ providers \in [Providers -> Provider \cup {NoRow}]
      /\ runtimes \in [Bots -> Runtime \cup {NoRow}]
      /\ liveBots \subseteq Bots /\ traffic \subseteq Connections \cup RouteKeys
      /\ edits \in 0..MaxEdits
  BY DEF CatalogInv, CatalogTypeOK
<1>1. CASE UNCHANGED catalogVars
  BY <1>t, <1>1, PlainEditKeeps DEF catalogVars
<1>2. ASSUME NEW p \in Providers,
             \/ \E on, has \in BOOLEAN : CreateProvider(p, on, has) \/ UpdateProvider(p, on, has)
             \/ DeactivateProvider(p)
      PROVE  CatalogInv'
  <2>1. /\ UNCHANGED <<runtimes, liveBots, connections, routes, forms, traffic>>
        /\ edits' \in 0..MaxEdits
    BY <1>2, EditCounted DEF CreateProvider, UpdateProvider, DeactivateProvider
  <2>2. providers' \in [Providers -> Provider \cup {NoRow}]
    <3>1. \A on, has \in BOOLEAN : NewProvider(on, has) \in Provider
      BY DEF NewProvider, Provider
    <3>2. CASE DeactivateProvider(p)
      <4>1. providers[p] \in Provider /\ providers' = [providers EXCEPT ![p].active = FALSE]
        BY <1>t, <3>2 DEF DeactivateProvider
      <4>2. [providers[p] EXCEPT !.active = FALSE] \in Provider
        BY <4>1 DEF Provider
      <4>3. QED
        BY <1>t, <4>1, <4>2
    <3>3. ASSUME NEW on \in BOOLEAN, NEW has \in BOOLEAN,
                 CreateProvider(p, on, has) \/ UpdateProvider(p, on, has)
          PROVE  providers' \in [Providers -> Provider \cup {NoRow}]
      <4>1. providers' = [providers EXCEPT ![p] = NewProvider(on, has)]
        BY <3>3 DEF CreateProvider, UpdateProvider
      <4>2. QED
        BY <1>t, <3>1, <4>1
    <3>4. QED
      BY <1>2, <3>2, <3>3
  <2>3. QED
    BY <1>t, <2>1, <2>2, PlainEditKeeps
<1>3. ASSUME NEW b \in Bots, \/ \E p \in Providers \cup {NoRow} : PatchRuntime(b, p)
                             \/ ActivateBot(b)
      PROVE  CatalogInv'
  <2>1. /\ UNCHANGED <<providers, connections, routes, forms, traffic>>
        /\ edits' \in 0..MaxEdits
    BY <1>3, EditCounted DEF PatchRuntime, ActivateBot
  <2>2. runtimes' \in [Bots -> Runtime \cup {NoRow}] /\ liveBots' \subseteq Bots
    BY <1>t, <1>3 DEF PatchRuntime, ActivateBot, NewRuntime, Runtime
  <2>3. QED
    BY <1>t, <2>1, <2>2, PlainEditKeeps
<1>4. ASSUME NEW b \in Bots, NEW k \in RouteKeys, NEW c \in Connections, NEW on \in BOOLEAN,
             CreateRoute(b, k, c, on)
      PROVE  CatalogInv'
  <2>1. PICK row : row = NewRoute(b, c, on)
    OBVIOUS
  <2>2. row \in ChannelRoute /\ row.version = 0 /\ row.connection = c
    BY <2>1 DEF NewRoute, ChannelRoute
  <2>3. /\ routes[k] = NoRow /\ RouteConnection(k, c)
        /\ routes' = [routes EXCEPT ![k] = row] /\ edits' \in 0..MaxEdits
        /\ UNCHANGED <<providers, runtimes, liveBots, connections, forms, traffic>>
    BY <1>4, <2>1, EditCounted DEF CreateRoute
  <2>4. row.version \in 0..MaxVersion /\ Later(routes[k], row)
    BY <2>2, <2>3, CatalogAssumption DEF Later
  <2>5. QED
    BY <2>2, <2>3, <2>4, RouteRowKeeps
<1>5. ASSUME NEW e \in Editors, NEW b \in Bots, NEW k \in RouteKeys, NEW c \in Connections,
             NEW on \in BOOLEAN, UpdateRoute(e, b, k, c, on)
      PROVE  CatalogInv'
  <2>1. /\ routes[k] # NoRow /\ RouteUpdated(b, k, c, on, forms[e].row.version)
        /\ edits' \in 0..MaxEdits
        /\ UNCHANGED <<providers, runtimes, liveBots, connections, forms, traffic>>
    BY <1>5, EditCounted DEF UpdateRoute
  <2>2. QED
    BY <2>1, RouteWritten, RouteRowKeeps
<1>6. ASSUME NEW b \in Bots, NEW k \in RouteKeys, DeactivateRoute(b, k)
      PROVE  CatalogInv'
  <2>1. /\ routes[k] # NoRow
        /\ RouteUpdated(b, k, routes[k].connection, FALSE, routes[k].version)
        /\ edits' \in 0..MaxEdits
        /\ UNCHANGED <<providers, runtimes, liveBots, connections, forms, traffic>>
    BY <1>6, EditCounted DEF DeactivateRoute
  <2>2. routes[k].connection \in Connections
    BY <2>1 DEF CatalogInv, CatalogTypeOK, ChannelRoute
  <2>3. QED
    BY <2>1, <2>2, RouteWritten, RouteRowKeeps
<1>7. ASSUME NEW c \in Connections, NEW a \in Accounts, NEW on \in BOOLEAN, NEW has \in BOOLEAN,
             CreateChannel(c, on, a, has)
      PROVE  CatalogInv'
  <2>1. PICK row : row = NewConnection(on, a, has)
    OBVIOUS
  <2>2. row \in Connection /\ row.version = 0
    BY <2>1 DEF NewConnection, Connection
  <2>3. /\ connections[c] = NoRow
        /\ connections' = [connections EXCEPT ![c] = row] /\ edits' \in 0..MaxEdits
        /\ UNCHANGED <<providers, runtimes, liveBots, routes, forms, traffic>>
    BY <1>7, <2>1, EditCounted DEF CreateChannel
  <2>4. row.version \in 0..MaxVersion /\ Later(connections[c], row)
    BY <2>2, <2>3, CatalogAssumption DEF Later
  <2>5. QED
    BY <2>2, <2>3, <2>4, ConnectionKeeps
<1>8. ASSUME NEW c \in Connections, NEW new \in Connection, NEW v, connections[c] # NoRow,
             ConnectionUpdated(c, new, v), edits' \in 0..MaxEdits,
             UNCHANGED <<providers, runtimes, liveBots, routes, forms, traffic>>
      PROVE  CatalogInv'
  BY <1>8, ConnectionWritten, ConnectionKeeps
<1>9. ASSUME NEW c \in Connections,
             \/ /\ connections[c] # NoRow
                /\ \E e \in Editors, new \in ConnectionRows(c) : UpdateChannel(e, c, new)
             \/ DeactivateChannel(c)
      PROVE  CatalogInv'
  <2>1. /\ connections[c] # NoRow /\ edits' \in 0..MaxEdits
        /\ UNCHANGED <<providers, runtimes, liveBots, routes, forms, traffic>>
    BY <1>9, EditCounted DEF UpdateChannel, DeactivateChannel
  <2>2. \E new \in Connection : \E v : ConnectionUpdated(c, new, v)
    BY <1>9, <2>1, ShownRows DEF UpdateChannel, DeactivateChannel
  <2>3. QED
    BY <1>8, <2>1, <2>2
<1>10. ASSUME NEW k \in RouteKeys, Inbound(k) \/ Outbound(k)
       PROVE  CatalogInv'
  <2>1. UNCHANGED <<providers, runtimes, liveBots, connections, routes, forms, edits>>
    BY <1>10 DEF Inbound, Outbound
  <2>2. routes[k] # NoRow
    BY <1>10 DEF Inbound, Outbound, ResolveRoute, ResolveChannelRoute
  <2>3. routes[k].connection \in Connections
    BY <2>2 DEF CatalogInv, CatalogTypeOK, ChannelRoute
  <2>4. traffic' \subseteq Connections \cup RouteKeys
    BY <1>t, <1>10, <2>3 DEF Inbound, Outbound
  <2>5. QED
    BY <1>t, <2>1, <2>4, PlainEditKeeps
<1>11. QED
  BY <1>1, <1>2, <1>3, <1>4, <1>5, <1>6, <1>7, <1>9, <1>10, OpenFormKeeps DEF CatalogNext

\* The inductive invariant of the catalog: an open form holds an older version of
\* its row, or the row itself (services/agent_runtime.py, channel_catalog.py).
THEOREM CatalogInvariance == CatalogSpec => []CatalogInv
<1>1. CatalogInit => CatalogInv
  <2>1. ASSUME CatalogInit PROVE edits \in 0..MaxEdits
    BY <2>1, CatalogAssumption DEF CatalogInit
  <2>2. QED
    BY <2>1 DEF CatalogInit, CatalogInv, CatalogTypeOK, FormsHold
<1>2. QED
  BY <1>1, CatalogNextKeeps, PTL DEF CatalogSpec

\* Two steps can write a connection that is there, and two a route.
LEMMA CatalogWriters ==
  ASSUME [CatalogNext]_catalogVars
  PROVE  /\ \A d \in Connections : connections[d] # NoRow =>
              \/ connections'[d] = connections[d]
              \/ \E c \in Connections :
                   \/ \E a \in Accounts, on, has \in BOOLEAN : CreateChannel(c, on, a, has)
                   \/ /\ connections[c] # NoRow
                      /\ \E e \in Editors, new \in ConnectionRows(c) : UpdateChannel(e, c, new)
                   \/ DeactivateChannel(c)
         /\ \/ routes' = routes
            \/ \E b \in Bots, k \in RouteKeys :
                 \/ \E c \in Connections, on \in BOOLEAN :
                      CreateRoute(b, k, c, on) \/ \E e \in Editors : UpdateRoute(e, b, k, c, on)
                 \/ DeactivateRoute(b, k)
<1>1. ASSUME NEW c \in Connections,
             \/ \E a \in Accounts, on, has \in BOOLEAN : CreateChannel(c, on, a, has)
             \/ /\ connections[c] # NoRow
                /\ \E e \in Editors, new \in ConnectionRows(c) : UpdateChannel(e, c, new)
             \/ DeactivateChannel(c)
      PROVE  routes' = routes
  BY <1>1 DEF CreateChannel, UpdateChannel, DeactivateChannel
<1>2. ASSUME NEW b \in Bots, NEW k \in RouteKeys,
             \/ \E c \in Connections, on \in BOOLEAN :
                  CreateRoute(b, k, c, on) \/ \E e \in Editors : UpdateRoute(e, b, k, c, on)
             \/ DeactivateRoute(b, k)
      PROVE  connections' = connections
  BY <1>2 DEF CreateRoute, UpdateRoute, DeactivateRoute
<1>3. ASSUME \/ UNCHANGED catalogVars
             \/ \E p \in Providers :
                  \/ \E on, has \in BOOLEAN : CreateProvider(p, on, has) \/ UpdateProvider(p, on, has)
                  \/ DeactivateProvider(p)
             \/ \E b \in Bots : \/ \E p \in Providers \cup {NoRow} : PatchRuntime(b, p)
                                \/ ActivateBot(b)
             \/ \E e \in Editors : OpenForm(e)
             \/ \E k \in RouteKeys : Inbound(k) \/ Outbound(k)
      PROVE  connections' = connections /\ routes' = routes
  BY <1>3 DEF catalogVars, CreateProvider, UpdateProvider, DeactivateProvider, PatchRuntime,
     ActivateBot, OpenForm, Inbound, Outbound
<1>4. QED
  BY <1>1, <1>2, <1>3 DEF CatalogNext

\* An edit of a connection was decided on the row it replaces.
LEMMA ConnectionEditsSeen ==
  ASSUME CatalogInv, [CatalogNext]_catalogVars, NEW d \in Connections,
         connections[d] # NoRow, connections'[d] # connections[d]
  PROVE  \/ \E e \in Editors : forms[e] = [id |-> d, row |-> connections[d]]
         \/ connections'[d] = [connections[d] EXCEPT !.active = FALSE, !.version = @ + 1]
<1>1. PICK c \in Connections :
        \/ \E a \in Accounts, on, has \in BOOLEAN : CreateChannel(c, on, a, has)
        \/ /\ connections[c] # NoRow
           /\ \E e \in Editors, new \in ConnectionRows(c) : UpdateChannel(e, c, new)
        \/ DeactivateChannel(c)
  BY CatalogWriters
<1>2. connections \in [Connections -> Connection \cup {NoRow}]
  BY DEF CatalogInv, CatalogTypeOK
<1>3. c = d /\ connections[c] # NoRow
  BY <1>1, <1>2 DEF CreateChannel, UpdateChannel, DeactivateChannel, ConnectionUpdated
<1>4. CASE DeactivateChannel(c)
  <2>1. connections' = [connections EXCEPT ![c] =
          [[connections[c] EXCEPT !.active = FALSE] EXCEPT !.version = connections[c].version + 1]]
    BY <1>4 DEF DeactivateChannel, ConnectionUpdated
  <2>2. connections[c] \in Connection
    BY <1>2, <1>3
  <2>3. [[connections[c] EXCEPT !.active = FALSE] EXCEPT !.version = connections[c].version + 1]
          = [connections[c] EXCEPT !.active = FALSE, !.version = @ + 1]
    BY <2>2 DEF Connection
  <2>4. QED
    BY <1>2, <1>3, <2>1, <2>3
<1>5. CASE \E e \in Editors, new \in ConnectionRows(c) : UpdateChannel(e, c, new)
  <2>1. PICK e \in Editors : /\ forms[e] # NoRow /\ forms[e].id = c
                             /\ connections[c].version = forms[e].row.version
    BY <1>5 DEF UpdateChannel, ConnectionUpdated, RequireVersion
  <2>2. Held(forms[e].row, connections[c])
    BY <2>1 DEF CatalogInv, FormsHold
  <2>3. forms[e] = [id |-> c, row |-> connections[c]]
    BY <2>1, <2>2, FormShape DEF Held
  <2>4. QED
    BY <1>3, <2>3
<1>6. QED
  BY <1>1, <1>3, <1>4, <1>5 DEF CreateChannel

\* An edit of a route was decided on the row it replaces.
LEMMA RouteEditsSeen ==
  ASSUME CatalogInv, [CatalogNext]_catalogVars, NEW d \in RouteKeys,
         routes[d] # NoRow, routes'[d] # routes[d]
  PROVE  \/ \E e \in Editors : forms[e] = [id |-> d, row |-> routes[d]]
         \/ routes'[d] = [routes[d] EXCEPT !.active = FALSE, !.version = @ + 1]
<1>1. PICK b \in Bots, k \in RouteKeys :
        \/ \E c \in Connections, on \in BOOLEAN :
             CreateRoute(b, k, c, on) \/ \E e \in Editors : UpdateRoute(e, b, k, c, on)
        \/ DeactivateRoute(b, k)
  BY CatalogWriters
<1>2. routes \in [RouteKeys -> ChannelRoute \cup {NoRow}]
  BY DEF CatalogInv, CatalogTypeOK
<1>3. k = d /\ routes[k] # NoRow
  BY <1>1, <1>2 DEF CreateRoute, UpdateRoute, DeactivateRoute, RouteUpdated
<1>4. CASE DeactivateRoute(b, k)
  <2>1. /\ routes[k].bot = b
        /\ routes' = [routes EXCEPT ![k] =
             [bot |-> b, connection |-> routes[k].connection, active |-> FALSE,
              version |-> routes[k].version + 1]]
    BY <1>4 DEF DeactivateRoute, RouteUpdated
  <2>2. routes[k] \in ChannelRoute
    BY <1>2, <1>3
  <2>3. [bot |-> b, connection |-> routes[k].connection, active |-> FALSE,
         version |-> routes[k].version + 1]
          = [routes[k] EXCEPT !.active = FALSE, !.version = @ + 1]
    <3>1. PICK row \in ChannelRoute, n \in Nat : row = routes[k] /\ n = row.version + 1
      BY <2>2 DEF ChannelRoute
    <3>2. PICK a : a = [row EXCEPT !.active = FALSE]
      OBVIOUS
    <3>3. /\ a \in ChannelRoute /\ a.bot = row.bot /\ a.connection = row.connection
          /\ a.active = FALSE
      BY <3>1, <3>2 DEF ChannelRoute
    <3>4. PICK w : w = [a EXCEPT !.version = n]
      OBVIOUS
    <3>5. /\ w \in ChannelRoute /\ w.bot = row.bot /\ w.connection = row.connection
          /\ w.active = FALSE /\ w.version = n
      BY <3>1, <3>3, <3>4 DEF ChannelRoute
    <3>6. w = [bot |-> row.bot, connection |-> row.connection, active |-> FALSE, version |-> n]
      BY <3>5 DEF ChannelRoute
    <3>7. QED
      BY <2>1, <3>1, <3>2, <3>4, <3>6
  <2>4. QED
    BY <1>2, <1>3, <2>1, <2>3
<1>5. CASE \E c \in Connections, on \in BOOLEAN, e \in Editors : UpdateRoute(e, b, k, c, on)
  <2>1. PICK e \in Editors : /\ forms[e] # NoRow /\ forms[e].id = k
                             /\ routes[k].version = forms[e].row.version
    BY <1>5 DEF UpdateRoute, RouteUpdated, RequireVersion
  <2>2. Held(forms[e].row, routes[k])
    BY <2>1 DEF CatalogInv, FormsHold
  <2>3. forms[e] = [id |-> k, row |-> routes[k]]
    BY <2>1, <2>2, FormShape DEF Held
  <2>4. QED
    BY <1>3, <2>3
<1>6. QED
  BY <1>1, <1>3, <1>4, <1>5 DEF CreateRoute

\* Editors decide on what is there (EditsAreSeen): a form that shows an older row
\* writes nothing, and a connection shown as configured can be reached.
THEOREM CatalogEditsSeen == CatalogSpec => EditsAreSeen
<1>1. CatalogInv /\ [CatalogNext]_catalogVars =>
        /\ [\A c \in Connections :
             (connections[c] # NoRow /\ connections'[c] # connections[c]) =>
               \/ \E e \in Editors : forms[e] = [id |-> c, row |-> connections[c]]
               \/ connections'[c] = [connections[c] EXCEPT !.active = FALSE,
                                                           !.version = @ + 1]]_catalogVars
        /\ [\A k \in RouteKeys :
             (routes[k] # NoRow /\ routes'[k] # routes[k]) =>
               \/ \E e \in Editors : forms[e] = [id |-> k, row |-> routes[k]]
               \/ routes'[k] = [routes[k] EXCEPT !.active = FALSE,
                                                 !.version = @ + 1]]_catalogVars
  BY ConnectionEditsSeen, RouteEditsSeen
<1>2. ASSUME CatalogInv, NEW c \in Connections, connections[c] # NoRow,
             ConnectionReadiness(c) \in {"traffic_observed", "configured_unverified"}
      PROVE  \E k \in RoutesOf(c) : ResolveChannelRoute(k)
  <2>1. Implemented(ChannelOf[c]) /\ connections[c].active /\ ~ConfigurationBlocked(c)
    BY <1>2 DEF ConnectionReadiness
  <2>2. RoutingState(c) = "active"
    BY <2>1 DEF ConfigurationBlocked
  <2>3. PICK k \in RoutesOf(c) : routes[k].active /\ k[1] = ChannelOf[c]
    BY <2>2 DEF RoutingState
  <2>4. k \in RouteKeys /\ routes[k] # NoRow /\ routes[k].connection = c
    BY DEF RoutesOf
  <2>5. RequireImplementedAdapter(ChannelOf[c])
    BY <2>1, CatalogAssumption DEF RequireImplementedAdapter, ResolveChannelAdapter
  <2>6. QED
    BY <2>1, <2>3, <2>4, <2>5 DEF ResolveChannelRoute
<1>3. CatalogInv => \A c \in Connections :
        (/\ connections[c] # NoRow
         /\ ConnectionReadiness(c) \in {"traffic_observed", "configured_unverified"})
          => \E k \in RoutesOf(c) : ResolveChannelRoute(k)
  BY <1>2
<1>4. QED
  BY <1>1, <1>3, CatalogInvariance, PTL DEF CatalogSpec, EditsAreSeen

-----------------------------------------------------------------------------
(* Commercial records (Commercial): events by version.                      *)

\* A log of a record at version v: it begins at 0 and never passes v.
LogFits(log, v) ==
  /\ Len(log) > 0 /\ log[1].version = 0
  /\ \A i \in DOMAIN log : log[i].version \in 0..v

\* An event of the version after n.
Follows(e, n) == e.version = n + 1

\* A later event leaves what the log says of version v.
VersionKept(log, e, v) ==
  /\ Newest(Append(log, e), v) = Newest(log, v)
  /\ Append(log, e)[Newest(log, v)] = log[Newest(log, v)]
  /\ {i \in DOMAIN Append(log, e) : Append(log, e)[i].version = v}
       = {i \in DOMAIN log : log[i].version = v}

\* All that an event of the next version does to a log.
LogExtends(T, s, n, e, new) ==
  /\ new \in Seq(T) /\ Len(s) \in Nat /\ Len(new) = Len(s) + 1
  /\ new[Len(new)] = e /\ DOMAIN new = DOMAIN s \cup {Len(new)}
  /\ \A i \in DOMAIN s : new[i] = s[i]
  /\ LogFits(new, n + 1)
  /\ \A v \in 0..n : new[Newest(new, v)] = s[Newest(s, v)]

\* A set of positions that is not empty has a last one.
LEMMA LastExists ==
  ASSUME NEW m \in Nat, NEW S \in SUBSET (1..m), S # {}
  PROVE  \E c \in S : \A d \in S : d <= c
<1> DEFINE T == {m - c : c \in S}
<1>1. T \subseteq Nat /\ T # {}
  <2>1. \A c \in S : m - c \in Nat
    OBVIOUS
  <2>2. PICK c \in S : TRUE
    OBVIOUS
  <2>3. QED
    BY <2>1, <2>2
<1> DEFINE R == OpToRel(<, Nat)
<1>2. \A x \in Nat, y \in Nat : y < x => <<y, x>> \in R
  BY DEF OpToRel
<1>3. IsWellFoundedOn(R, Nat)
  BY NatLessThanWellFounded
<1> HIDE DEF R, T
<1>4. PICK x \in T : \A y \in T : ~(<<y, x>> \in R)
  BY <1>1, <1>3, WFMin
<1>5. PICK c \in S : x = m - c
  BY DEF T
<1>6. ASSUME NEW d \in S PROVE d <= c
  <2>1. m - d \in T /\ m - d \in Nat /\ x \in Nat
    BY <1>1 DEF T
  <2>2. ~(m - d < x)
    BY <1>2, <1>4, <2>1
  <2>3. QED
    BY <1>5, <2>1, <2>2
<1>7. QED
  BY <1>6

\* A log of a record has a newest event at every version.
LEMMA NewestExists ==
  ASSUME NEW T, NEW log \in Seq(T), NEW n \in Nat, LogFits(log, n), NEW v \in Nat
  PROVE  Newest(log, v) \in Reach(log, v) /\ \A j \in Reach(log, v) : j <= Newest(log, v)
<1>1. PICK m \in Nat : m = Len(log) /\ DOMAIN log = 1..m
  OBVIOUS
<1>2. Reach(log, v) \in SUBSET (1..m)
  BY <1>1 DEF Reach
<1>3. 1 \in Reach(log, v)
  BY <1>1 DEF Reach, LogFits
<1>4. PICK S : S = Reach(log, v)
  OBVIOUS
<1>5. \E c \in S : \A d \in S : d <= c
  BY <1>2, <1>3, <1>4, LastExists
<1>6. QED
  BY <1>4, <1>5 DEF Newest

\* A later event leaves what the log says of the versions before it.
LEMMA NewestKept ==
  ASSUME NEW T, NEW log \in Seq(T), NEW n \in Nat, LogFits(log, n),
         NEW e \in T, Follows(e, n)
  PROVE  \A v \in 0..n : VersionKept(log, e, v)
<1> SUFFICES ASSUME NEW v \in 0..n PROVE VersionKept(log, e, v)
  OBVIOUS
<1>1. PICK m \in Nat : m = Len(log) /\ DOMAIN log = 1..m
  OBVIOUS
<1>2. PICK new : new = Append(log, e)
  OBVIOUS
<1>3. /\ DOMAIN new = DOMAIN log \cup {m + 1} /\ new[m + 1] = e
      /\ \A i \in DOMAIN log : new[i] = log[i]
  BY <1>1, <1>2
<1>4. ~(new[m + 1].version <= v) /\ new[m + 1].version # v
  BY <1>3 DEF Follows
<1>5. Reach(new, v) = Reach(log, v)
  BY <1>3, <1>4 DEF Reach, LogFits
<1>6. Newest(new, v) = Newest(log, v)
  BY <1>5 DEF Newest
<1>7. Newest(log, v) \in DOMAIN log
  BY NewestExists DEF Reach
<1>8. {i \in DOMAIN new : new[i].version = v} = {i \in DOMAIN log : log[i].version = v}
  BY <1>3, <1>4
<1>9. QED
  BY <1>2, <1>3, <1>6, <1>7, <1>8 DEF VersionKept

\* At the record's own version and after it the last event stands.
LEMMA NewestLast ==
  ASSUME NEW T, NEW log \in Seq(T), NEW n \in Nat, LogFits(log, n), NEW v \in Nat, n <= v
  PROVE  Newest(log, v) = Len(log) /\ Len(log) \in DOMAIN log
<1>1. PICK m \in Nat : m = Len(log) /\ DOMAIN log = 1..m /\ m > 0
  BY DEF LogFits
<1>2. Reach(log, v) = 1..m
  BY <1>1 DEF Reach, LogFits
<1>3. Newest(log, v) \in 1..m /\ \A j \in 1..m : j <= Newest(log, v)
  BY <1>2, NewestExists
<1>4. QED
  BY <1>1, <1>3

\* A log that fits a version fits the next, with or without an event of it.
LEMMA LogGrows ==
  ASSUME NEW T, NEW log \in Seq(T), NEW n \in Nat, LogFits(log, n)
  PROVE  /\ LogFits(log, n + 1)
         /\ \A e \in T : e.version = n + 1 => LogFits(Append(log, e), n + 1)
<1>1. PICK m \in Nat : m = Len(log) /\ DOMAIN log = 1..m /\ m > 0
  BY DEF LogFits
<1>2. \A i \in DOMAIN log : log[i].version \in 0..(n + 1)
  BY DEF LogFits
<1>3. ASSUME NEW e \in T, e.version = n + 1 PROVE LogFits(Append(log, e), n + 1)
  <2>1. PICK new : new = Append(log, e)
    OBVIOUS
  <2>2. /\ DOMAIN new = DOMAIN log \cup {m + 1} /\ new[m + 1] = e /\ Len(new) = m + 1
        /\ \A i \in DOMAIN log : new[i] = log[i]
    BY <1>1, <2>1
  <2>3. QED
    BY <1>1, <1>2, <1>3, <2>1, <2>2 DEF LogFits
<1>4. QED
  BY <1>2, <1>3 DEF LogFits

\* What an event of the next version does to a log.
LEMMA LogAppended ==
  ASSUME NEW T, NEW s \in Seq(T), NEW n \in Nat, LogFits(s, n),
         NEW e \in T, Follows(e, n), NEW new, new = Append(s, e)
  PROVE  LogExtends(T, s, n, e, new)
<1>1. /\ new \in Seq(T) /\ Len(s) \in Nat /\ Len(new) = Len(s) + 1
      /\ new[Len(new)] = e /\ DOMAIN new = DOMAIN s \cup {Len(new)}
      /\ \A i \in DOMAIN s : new[i] = s[i]
  OBVIOUS
<1>2. LogFits(new, n + 1)
  BY LogGrows DEF Follows
<1>3. \A v \in 0..n : VersionKept(s, e, v)
  BY NewestKept
<1>4. \A v \in 0..n : new[Newest(new, v)] = s[Newest(s, v)]
  BY <1>3 DEF VersionKept
<1>5. QED
  BY <1>1, <1>2, <1>4 DEF LogExtends

-----------------------------------------------------------------------------
(* Commercial records: opportunities.                                       *)

\* An opportunity and its two logs, which count one version together.
OpportunityHistory(o) ==
  IF opp[o] = None THEN stages[o] = << >> /\ owners[o] = << >>
  ELSE /\ LogFits(stages[o], opp[o].version) /\ LogFits(owners[o], opp[o].version)
       /\ Len(stages[o]) + Len(owners[o]) = opp[o].version + 2
       /\ stages[o][Len(stages[o])].to = opp[o].stage
       /\ owners[o][Len(owners[o])].agent = opp[o].agent
       /\ owners[o][Len(owners[o])].operator = opp[o].operator

\* Each stage event names the owner of its version.
StagesOwned(o) ==
  \A i \in DOMAIN stages[o] : OwnerAt(o, stages[o][i].version)[1] = stages[o][i].agent

\* What a step does to one opportunity.
OppTyped ==
  /\ opp \in [Opportunities -> Opportunity \cup {None}]
  /\ stages \in [Opportunities -> Seq(StageEvents)]
  /\ owners \in [Opportunities -> Seq(OwnershipEvents)]
  /\ \A o \in Opportunities : opp[o] # None => OpportunityFits(opp[o])

OppKept(o) == opp'[o] = opp[o] /\ stages'[o] = stages[o] /\ owners'[o] = owners[o]

OppCreated(o) ==
  \E row \in Opportunity, e \in StageEvents, w \in OwnershipEvents :
    /\ opp[o] = None /\ opp'[o] = row /\ row.version = 0
    /\ e.version = 0 /\ e.to = row.stage /\ e.agent = row.agent
    /\ w.version = 0 /\ w.agent = row.agent /\ w.operator = row.operator
    /\ stages'[o] = <<e>> /\ owners'[o] = <<w>>

OppStaged(o) ==
  \E row \in Opportunity, e \in StageEvents :
    /\ opp[o] # None /\ opp'[o] = row /\ row.version = opp[o].version + 1
    /\ row.agent = opp[o].agent /\ row.operator = opp[o].operator
    /\ e.version = row.version /\ e.to = row.stage /\ e.agent = row.agent
    /\ ~HasKey(stages[o], e.key)
    /\ stages'[o] = Append(stages[o], e) /\ owners'[o] = owners[o]

OppOwned(o) ==
  \E row \in Opportunity, w \in OwnershipEvents :
    /\ opp[o] # None /\ opp'[o] = row /\ row.version = opp[o].version + 1
    /\ row.stage = opp[o].stage
    /\ w.version = row.version /\ w.agent = row.agent /\ w.operator = row.operator
    /\ ~HasKey(owners[o], w.key) /\ OpportunityFree(o)
    /\ owners'[o] = Append(owners[o], w) /\ stages'[o] = stages[o]

OppStep(o) == OppKept(o) \/ OppCreated(o) \/ OppStaged(o) \/ OppOwned(o)

\* The rows of an opportunity, as SMT sees them.
LEMMA OppTypes ==
  ASSUME OppTyped, NEW o \in Opportunities
  PROVE  /\ stages[o] \in Seq(StageEvents) /\ owners[o] \in Seq(OwnershipEvents)
         /\ opp[o] # None => opp[o] \in Opportunity /\ opp[o].version \in Nat
<1>1. stages[o] \in Seq(StageEvents) /\ owners[o] \in Seq(OwnershipEvents)
      /\ opp[o] \in Opportunity \cup {None}
  BY DEF OppTyped
<1>2. QED
  BY <1>1 DEF Opportunity

\* A step keeps the history and what it says of the versions so far.
OppHolds(o) == OpportunityHistory(o) /\ StagesOwned(o)
Forward(o) ==
  opp[o] # None =>
    /\ opp'[o] # None /\ opp'[o].version \in Nat /\ opp[o].version <= opp'[o].version
    /\ \A v \in 0..opp[o].version : OwnerAt(o, v)' = OwnerAt(o, v)
       /\ StageAt(o, v)' = StageAt(o, v)

\* The owner now is the one the ownership log ends with.
LEMMA OwnerNow ==
  ASSUME OppTyped, NEW o \in Opportunities, opp[o] # None, OpportunityHistory(o)
  PROVE  /\ OwnerAt(o, opp[o].version) = <<opp[o].agent, opp[o].operator>>
         /\ OwnerAt(o, opp[o].version + 1) = <<opp[o].agent, opp[o].operator>>
         /\ StageAt(o, opp[o].version) = opp[o].stage
         /\ StageAt(o, opp[o].version + 1) = opp[o].stage
<1>1. PICK n \in Nat : n = opp[o].version
  BY OppTypes
<1>2. stages[o] \in Seq(StageEvents) /\ owners[o] \in Seq(OwnershipEvents)
  BY OppTypes
<1>3. /\ LogFits(stages[o], n) /\ LogFits(owners[o], n)
      /\ stages[o][Len(stages[o])].to = opp[o].stage
      /\ owners[o][Len(owners[o])].agent = opp[o].agent
      /\ owners[o][Len(owners[o])].operator = opp[o].operator
  BY <1>1 DEF OpportunityHistory
<1>4. ASSUME NEW v \in Nat, n <= v
      PROVE  Newest(stages[o], v) = Len(stages[o]) /\ Newest(owners[o], v) = Len(owners[o])
  BY <1>2, <1>3, <1>4, NewestLast
<1>5. n + 1 \in Nat /\ n <= n + 1 /\ n <= n
  OBVIOUS
<1>6. QED
  BY <1>1, <1>3, <1>4, <1>5 DEF StageAt, OwnerAt

\* A new opportunity has its history.
LEMMA OppCreatedHolds ==
  ASSUME OppTyped', NEW o \in Opportunities, OppCreated(o)
  PROVE  OppHolds(o)' /\ Forward(o)
<1>1. PICK row \in Opportunity, e \in StageEvents, w \in OwnershipEvents :
        /\ opp[o] = None /\ opp'[o] = row /\ row.version = 0
        /\ e.version = 0 /\ e.to = row.stage /\ e.agent = row.agent
        /\ w.version = 0 /\ w.agent = row.agent /\ w.operator = row.operator
        /\ stages'[o] = <<e>> /\ owners'[o] = <<w>>
  BY DEF OppCreated
<1>2. row # None
  BY CommercialAssumption
<1>3. /\ Len(<<e>>) = 1 /\ DOMAIN <<e>> = {1} /\ <<e>>[1] = e
      /\ Len(<<w>>) = 1 /\ DOMAIN <<w>> = {1} /\ <<w>>[1] = w
  OBVIOUS
<1>4. OpportunityHistory(o)'
  BY <1>1, <1>2, <1>3 DEF OpportunityHistory, LogFits
<1>5. Newest(<<w>>, 0) = 1
  <2>1. LogFits(<<w>>, 0) /\ <<w>> \in Seq(OwnershipEvents)
    BY <1>1, <1>3 DEF LogFits
  <2>2. PICK s \in Seq(OwnershipEvents) : s = <<w>> /\ LogFits(s, 0) /\ Len(s) = 1
    BY <1>3, <2>1
  <2>3. 0 \in Nat /\ 0 <= 0
    OBVIOUS
  <2>4. Newest(s, 0) = Len(s)
    BY <2>2, <2>3, NewestLast
  <2>5. QED
    BY <2>2, <2>4
<1>6. OwnerAt(o, 0)' = <<row.agent, row.operator>>
  BY <1>1, <1>3, <1>5 DEF OwnerAt
<1>7. StagesOwned(o)'
  BY <1>1, <1>3, <1>6 DEF StagesOwned, OwnerAt
<1>8. QED
  BY <1>1, <1>4, <1>7 DEF OppHolds, Forward

\* A change of stage keeps the history of an opportunity.
LEMMA OppStagedHolds ==
  ASSUME OppTyped, OppTyped', NEW o \in Opportunities, OppHolds(o), OppStaged(o)
  PROVE  OppHolds(o)' /\ Forward(o)
<1>1. PICK row \in Opportunity, e \in StageEvents :
        /\ opp[o] # None /\ opp'[o] = row /\ row.version = opp[o].version + 1
        /\ row.agent = opp[o].agent /\ row.operator = opp[o].operator
        /\ e.version = row.version /\ e.to = row.stage /\ e.agent = row.agent
        /\ stages'[o] = Append(stages[o], e) /\ owners'[o] = owners[o]
  BY DEF OppStaged
<1>2. PICK n \in Nat : n = opp[o].version
  BY <1>1, OppTypes
<1>3. PICK s \in Seq(StageEvents), t \in Seq(OwnershipEvents), new \in Seq(StageEvents) :
        /\ s = stages[o] /\ t = owners[o] /\ new = Append(s, e)
  <2>1. stages[o] \in Seq(StageEvents) /\ owners[o] \in Seq(OwnershipEvents)
    BY OppTypes
  <2>2. Append(stages[o], e) \in Seq(StageEvents)
    BY <2>1
  <2>3. QED
    BY <2>1, <2>2
<1>4. /\ stages[o] = s /\ stages'[o] = new /\ owners'[o] = t /\ owners[o] = t
  BY <1>1, <1>3
<1>5. /\ LogFits(s, n) /\ LogFits(t, n) /\ Len(s) + Len(t) = n + 2
      /\ t[Len(t)].agent = row.agent /\ t[Len(t)].operator = row.operator
  BY <1>1, <1>2, <1>4 DEF OppHolds, OpportunityHistory
<1>6. row # None /\ row.version = n + 1 /\ e.version = n + 1
  BY <1>1, <1>2, CommercialAssumption
<1>7. LogFits(t, n + 1) /\ Len(t) \in Nat
  BY <1>3, <1>5, LogGrows
<1>8. /\ Len(s) \in Nat /\ Len(new) = Len(s) + 1
      /\ new[Len(new)] = e /\ DOMAIN new = DOMAIN s \cup {Len(new)}
      /\ \A i \in DOMAIN s : new[i] = s[i]
      /\ LogFits(new, n + 1)
      /\ \A v \in 0..n : new[Newest(new, v)] = s[Newest(s, v)]
  <2>1. LogFits(s, n) /\ Follows(e, n) /\ new = Append(s, e)
    BY <1>3, <1>5, <1>6 DEF Follows
  <2>2. LogExtends(StageEvents, s, n, e, new)
    BY <2>1, LogAppended
  <2>3. QED
    BY <2>2 DEF LogExtends
<1>9. OpportunityHistory(o)'
  <2>1. Len(new) + Len(t) = n + 1 + 2
    BY <1>5, <1>7, <1>8
  <2>2. QED
    BY <1>1, <1>4, <1>5, <1>6, <1>7, <1>8, <2>1 DEF OpportunityHistory
<1>10. \A v : OwnerAt(o, v)' = OwnerAt(o, v)
  BY <1>1 DEF OwnerAt
<1>11. \A v \in 0..n : StageAt(o, v)' = StageAt(o, v)
  BY <1>4, <1>8 DEF StageAt
<1>12. StagesOwned(o)'
  <2>1. ASSUME NEW i \in DOMAIN new
        PROVE  OwnerAt(o, new[i].version)[1] = new[i].agent
    <3>1. CASE i \in DOMAIN s
      BY <1>4, <1>8, <3>1 DEF OppHolds, StagesOwned
    <3>2. CASE i = Len(new)
      <4>1. OwnerAt(o, n + 1) = <<opp[o].agent, opp[o].operator>>
        BY <1>1, <1>2, OwnerNow DEF OppHolds
      <4>2. QED
        BY <1>1, <1>6, <1>8, <3>2, <4>1
    <3>3. QED
      BY <1>8, <3>1, <3>2
  <2>2. QED
    BY <1>4, <1>10, <2>1 DEF StagesOwned
<1>13. Forward(o)
  BY <1>1, <1>2, <1>6, <1>10, <1>11 DEF Forward
<1>14. QED
  BY <1>9, <1>12, <1>13 DEF OppHolds

\* A change of owner keeps the history of an opportunity.
LEMMA OppOwnedHolds ==
  ASSUME OppTyped, OppTyped', NEW o \in Opportunities, OppHolds(o), OppOwned(o)
  PROVE  OppHolds(o)' /\ Forward(o)
<1>1. PICK row \in Opportunity, e \in OwnershipEvents :
        /\ opp[o] # None /\ opp'[o] = row /\ row.version = opp[o].version + 1
        /\ row.stage = opp[o].stage
        /\ e.version = row.version /\ e.agent = row.agent /\ e.operator = row.operator
        /\ owners'[o] = Append(owners[o], e) /\ stages'[o] = stages[o]
  BY DEF OppOwned
<1>2. PICK n \in Nat : n = opp[o].version
  BY <1>1, OppTypes
<1>3. PICK s \in Seq(OwnershipEvents), t \in Seq(StageEvents), new \in Seq(OwnershipEvents) :
        /\ s = owners[o] /\ t = stages[o] /\ new = Append(s, e)
  <2>1. owners[o] \in Seq(OwnershipEvents) /\ stages[o] \in Seq(StageEvents)
    BY OppTypes
  <2>2. Append(owners[o], e) \in Seq(OwnershipEvents)
    BY <2>1
  <2>3. QED
    BY <2>1, <2>2
<1>4. owners[o] = s /\ owners'[o] = new /\ stages'[o] = t /\ stages[o] = t
  BY <1>1, <1>3
<1>5. /\ LogFits(s, n) /\ LogFits(t, n) /\ Len(t) + Len(s) = n + 2
      /\ t[Len(t)].to = row.stage
  BY <1>1, <1>2, <1>4 DEF OppHolds, OpportunityHistory
<1>6. row # None /\ row.version = n + 1 /\ e.version = n + 1
  BY <1>1, <1>2, CommercialAssumption
<1>7. LogFits(t, n + 1) /\ Len(t) \in Nat
  BY <1>3, <1>5, LogGrows
<1>8. /\ Len(s) \in Nat /\ Len(new) = Len(s) + 1 /\ new[Len(new)] = e
      /\ LogFits(new, n + 1)
      /\ \A v \in 0..n : new[Newest(new, v)] = s[Newest(s, v)]
  <2>1. LogFits(s, n) /\ Follows(e, n) /\ new = Append(s, e)
    BY <1>3, <1>5, <1>6 DEF Follows
  <2>2. LogExtends(OwnershipEvents, s, n, e, new)
    BY <2>1, LogAppended
  <2>3. QED
    BY <2>2 DEF LogExtends
<1>9. OpportunityHistory(o)'
  <2>1. Len(t) + Len(new) = n + 1 + 2
    BY <1>5, <1>7, <1>8
  <2>2. QED
    BY <1>1, <1>4, <1>5, <1>6, <1>7, <1>8, <2>1 DEF OpportunityHistory
<1>10. \A v : StageAt(o, v)' = StageAt(o, v)
  BY <1>1 DEF StageAt
<1>11. \A v \in 0..n : OwnerAt(o, v)' = OwnerAt(o, v)
  BY <1>4, <1>8 DEF OwnerAt
<1>12. StagesOwned(o)'
  <2>1. \A i \in DOMAIN t : t[i].version \in 0..n
    BY <1>5 DEF LogFits
  <2>2. QED
    BY <1>4, <1>11, <2>1 DEF OppHolds, StagesOwned
<1>13. Forward(o)
  BY <1>1, <1>2, <1>6, <1>10, <1>11 DEF Forward
<1>14. QED
  BY <1>9, <1>12, <1>13 DEF OppHolds

\* Whatever a step does to an opportunity keeps its history.
LEMMA OppStepHolds ==
  ASSUME OppTyped, OppTyped', NEW o \in Opportunities, OppHolds(o), OppStep(o)
  PROVE  OppHolds(o)' /\ Forward(o)
<1>1. CASE OppKept(o)
  <2>1. OppHolds(o)' /\ \A v : OwnerAt(o, v)' = OwnerAt(o, v) /\ StageAt(o, v)' = StageAt(o, v)
    BY <1>1 DEF OppKept, OppHolds, OpportunityHistory, StagesOwned, OwnerAt, StageAt
  <2>2. opp[o] # None => opp[o].version \in Nat /\ opp[o].version <= opp[o].version
    <3>1. opp[o] # None => opp[o].version \in Nat
      BY OppTypes
    <3>2. \A n \in Nat : n <= n
      OBVIOUS
    <3>3. QED
      BY <3>1, <3>2
  <2>3. QED
    BY <1>1, <2>1, <2>2 DEF OppKept, Forward
<1>2. QED
  BY <1>1, OppCreatedHolds, OppStagedHolds, OppOwnedHolds DEF OppStep

-----------------------------------------------------------------------------
(* Commercial records: the steps of Next on one record at a time.           *)

LinksTyped == links \in [Opportunities -> SUBSET Link]

\* What a step does to the opportunities, all of them.
OppSide == OppTyped' /\ LinksTyped' /\ \A o \in Opportunities : OppStep(o)

\* A step that leaves the opportunities alone.
LEMMA OppFrame ==
  ASSUME OppTyped, LinksTyped, UNCHANGED oppVars
  PROVE  OppSide
<1>1. opp' = opp /\ stages' = stages /\ owners' = owners /\ links' = links
  BY DEF oppVars
<1>2. OppTyped' /\ LinksTyped'
  BY <1>1 DEF OppTyped, LinksTyped, OpportunityFits
<1>3. QED
  BY <1>1, <1>2 DEF OppSide, OppStep, OppKept

\* One row and its logs change, the others stay.
LEMMA OppAlone ==
  ASSUME OppTyped, NEW o \in Opportunities, NEW row \in Opportunity, OpportunityFits(row),
         NEW s \in Seq(StageEvents), NEW t \in Seq(OwnershipEvents),
         opp' = [opp EXCEPT ![o] = row], stages' = [stages EXCEPT ![o] = s],
         owners' = [owners EXCEPT ![o] = t]
  PROVE  /\ OppTyped' /\ opp'[o] = row /\ stages'[o] = s /\ owners'[o] = t
         /\ \A p \in Opportunities : p # o => OppStep(p)
<1>1. /\ opp \in [Opportunities -> Opportunity \cup {None}]
      /\ stages \in [Opportunities -> Seq(StageEvents)]
      /\ owners \in [Opportunities -> Seq(OwnershipEvents)]
  BY DEF OppTyped
<1>2. opp'[o] = row /\ stages'[o] = s /\ owners'[o] = t
  BY <1>1
<1>3. \A p \in Opportunities : p # o => OppKept(p)
  BY <1>1 DEF OppKept
<1>4. /\ opp' \in [Opportunities -> Opportunity \cup {None}]
      /\ stages' \in [Opportunities -> Seq(StageEvents)]
      /\ owners' \in [Opportunities -> Seq(OwnershipEvents)]
  BY <1>1
<1>5. \A p \in Opportunities : opp'[p] # None => OpportunityFits(opp'[p])
  BY <1>2, <1>3 DEF OppTyped, OppKept
<1>6. QED
  BY <1>2, <1>3, <1>4, <1>5 DEF OppTyped, OppStep

\* The rows that opportunity commands write.
StagedRow(r, target) ==
  [r EXCEPT !.stage = target, !.version = @ + 1, !.closed = target \in Terminal]
OwnedRow(r, to, operator) ==
  [r EXCEPT !.agent = to, !.operator = operator, !.version = @ + 1]

\* The fields a change of stage leaves.
LEMMA StagedFields ==
  ASSUME NEW r \in Opportunity, NEW target \in Stages
  PROVE  /\ StagedRow(r, target) \in Opportunity /\ StagedRow(r, target).stage = target
         /\ StagedRow(r, target).version = r.version + 1
         /\ StagedRow(r, target).agent = r.agent /\ StagedRow(r, target).operator = r.operator
<1>1. PICK p : p = [r EXCEPT !.stage = target]
  OBVIOUS
<1>2. p \in Opportunity
  BY <1>1 DEF Opportunity
<1>3. p.stage = target /\ p.version = r.version /\ p.agent = r.agent /\ p.operator = r.operator
  BY <1>1 DEF Opportunity
<1>4. PICK n \in Nat : n = r.version + 1
  BY DEF Opportunity
<1>5. PICK q : q = [p EXCEPT !.version = n]
  OBVIOUS
<1>6. q \in Opportunity
  BY <1>2, <1>5 DEF Opportunity
<1>7. q.stage = target /\ q.version = n /\ q.agent = r.agent /\ q.operator = r.operator
  BY <1>2, <1>3, <1>5 DEF Opportunity
<1>8. StagedRow(r, target) = [q EXCEPT !.closed = target \in Terminal]
  BY <1>1, <1>4, <1>5 DEF StagedRow
<1>9. StagedRow(r, target) \in Opportunity
  <2>1. (target \in Terminal) = TRUE \/ (target \in Terminal) = FALSE
    OBVIOUS
  <2>2. \/ StagedRow(r, target) = [q EXCEPT !.closed = TRUE]
        \/ StagedRow(r, target) = [q EXCEPT !.closed = FALSE]
    BY <1>8, <2>1
  <2>3. QED
    BY <1>6, <2>2 DEF Opportunity
<1>10. /\ StagedRow(r, target).stage = q.stage /\ StagedRow(r, target).version = q.version
       /\ StagedRow(r, target).agent = q.agent /\ StagedRow(r, target).operator = q.operator
  BY <1>6, <1>8 DEF Opportunity
<1>11. QED
  BY <1>4, <1>7, <1>9, <1>10

\* The fields a change of owner leaves.
LEMMA OwnedFields ==
  ASSUME NEW r \in Opportunity, NEW to \in Agents, NEW operator \in Admins \cup {None}
  PROVE  /\ OwnedRow(r, to, operator) \in Opportunity
         /\ OwnedRow(r, to, operator).stage = r.stage
         /\ OwnedRow(r, to, operator).version = r.version + 1
         /\ OwnedRow(r, to, operator).agent = to /\ OwnedRow(r, to, operator).operator = operator
         /\ OwnedRow(r, to, operator).closed = r.closed
<1>1. PICK q : q = [r EXCEPT !.agent = to, !.operator = operator]
  OBVIOUS
<1>2. q \in Opportunity
  BY <1>1 DEF Opportunity
<1>3. q.stage = r.stage /\ q.version = r.version /\ q.agent = to /\ q.operator = operator
      /\ q.closed = r.closed
  BY <1>1 DEF Opportunity
<1>4. PICK n \in Nat : n = r.version + 1
  BY DEF Opportunity
<1>5. PICK row : row = [q EXCEPT !.version = n] /\ row = OwnedRow(r, to, operator)
  BY <1>1, <1>4 DEF OwnedRow
<1>6. row \in Opportunity
  BY <1>2, <1>5 DEF Opportunity
<1>7. row.stage = q.stage /\ row.version = n /\ row.agent = q.agent
      /\ row.operator = q.operator /\ row.closed = q.closed
  BY <1>2, <1>5 DEF Opportunity
<1>8. QED
  BY <1>3, <1>4, <1>5, <1>6, <1>7

\* create adds one opportunity with its first events.
LEMMA CreateSteps ==
  ASSUME OppTyped, LinksTyped, NEW o \in Opportunities, NEW c \in Conversations,
         NEW operator \in Admins \cup {None}, Create(o, c, operator)
  PROVE  OppSide
<1>1. PICK row : row = NewOpportunity(o, operator)
  OBVIOUS
<1>2. Creator[o] \in Agents
  BY CommercialAssumption
<1>3. row \in Opportunity /\ OpportunityFits(row) /\ row.version = 0 /\ row.agent = Creator[o]
  <2>1. "new" \in Stages /\ "new" \notin Terminal
    BY DEF Stages, Terminal
  <2>2. row \in Opportunity
    BY <1>1, <1>2, <2>1 DEF NewOpportunity, Opportunity
  <2>3. row.stage = "new" /\ row.version = 0 /\ row.agent = Creator[o] /\ row.closed = FALSE
    BY <1>1 DEF NewOpportunity
  <2>4. (row.stage \in Terminal) = row.closed
    <3>1. ("new" \in Terminal) = FALSE
      BY <2>1
    <3>2. row.stage = "new" /\ row.closed = FALSE
      BY <2>3
    <3>3. QED
      BY <3>1, <3>2, Zenon
  <2>5. QED
    BY <2>1, <2>2, <2>3, <2>4 DEF OpportunityFits
<1>4. opp'[o] = row /\ opp[o] = None
  BY <1>1 DEF Create, OppTyped
<1>5. PICK e, w : e = StageEvent(row, o, None) /\ w = OwnershipEvent(row, o, None, None)
  OBVIOUS
<1>6. e \in StageEvents /\ e.version = 0 /\ e.to = row.stage /\ e.agent = row.agent
  BY <1>3, <1>5 DEF StageEvent, StageEvents, Opportunity
<1>7. w \in OwnershipEvents /\ w.version = 0 /\ w.agent = row.agent /\ w.operator = row.operator
  BY <1>3, <1>5 DEF OwnershipEvent, OwnershipEvents, Opportunity
<1>8. <<e>> \in Seq(StageEvents) /\ <<w>> \in Seq(OwnershipEvents)
  BY <1>6, <1>7
<1>9. /\ opp' = [opp EXCEPT ![o] = row] /\ stages' = [stages EXCEPT ![o] = <<e>>]
      /\ owners' = [owners EXCEPT ![o] = <<w>>]
  BY <1>1, <1>4, <1>5 DEF Create
<1>10. /\ OppTyped' /\ opp'[o] = row /\ stages'[o] = <<e>> /\ owners'[o] = <<w>>
       /\ \A p \in Opportunities : p # o => OppStep(p)
  BY <1>3, <1>8, <1>9, OppAlone
<1>11. OppCreated(o)
  BY <1>3, <1>4, <1>6, <1>7, <1>10 DEF OppCreated
<1>12. LinksTyped'
  BY <1>2 DEF Create, LinksTyped, NewLink, Link
<1>13. QED
  BY <1>10, <1>11, <1>12 DEF OppSide, OppStep

\* transition_stage moves one opportunity and records it.
LEMMA StageSteps ==
  ASSUME OppTyped, NEW o \in Opportunities, NEW agent, NEW admin, NEW target \in Stages,
         NEW expected, NEW key \in (Meetings \cup {None}) \X Nat,
         TransitionStage(o, agent, admin, target, expected, key), owners' = owners
  PROVE  /\ OppTyped' /\ \A p \in Opportunities : OppStep(p)
         /\ opp'[o] \in Opportunity /\ opp'[o].stage = target
         /\ opp'[o].agent = opp[o].agent /\ opp'[o].operator = opp[o].operator
<1>1. opp[o] # None /\ opp[o] \in Opportunity /\ opp[o].version \in Nat
  BY OppTypes DEF TransitionStage, Owns
<1>2. PICK row : row = StagedRow(opp[o], target)
  OBVIOUS
<1>3. /\ row \in Opportunity /\ row.stage = target /\ row.version = opp[o].version + 1
      /\ row.agent = opp[o].agent /\ row.operator = opp[o].operator
  BY <1>1, <1>2, StagedFields
<1>4. opp' = [opp EXCEPT ![o] = row]
  BY <1>2 DEF TransitionStage, OppTyped, StagedRow
<1>5. opp'[o] = row
  BY <1>4 DEF OppTyped
<1>6. PICK e : e = StageEvent(row, key, opp[o].stage)
  OBVIOUS
<1>7. e \in StageEvents /\ e.version = row.version /\ e.to = row.stage /\ e.agent = row.agent
  BY <1>1, <1>3, <1>6 DEF StageEvent, StageEvents, Opportunity
<1>8. /\ OpportunityFits(row) /\ StageEventFits(stages[o], e)
      /\ stages' = [stages EXCEPT ![o] = Append(stages[o], e)]
  BY <1>5, <1>6 DEF TransitionStage
<1>9. stages[o] \in Seq(StageEvents) /\ owners[o] \in Seq(OwnershipEvents)
  BY OppTypes
<1>10. Append(stages[o], e) \in Seq(StageEvents) /\ owners' = [owners EXCEPT ![o] = owners[o]]
  BY <1>7, <1>9 DEF OppTyped
<1>11. /\ OppTyped' /\ opp'[o] = row /\ stages'[o] = Append(stages[o], e) /\ owners'[o] = owners[o]
       /\ \A p \in Opportunities : p # o => OppStep(p)
  BY <1>3, <1>4, <1>8, <1>9, <1>10, OppAlone
<1>12. OppStaged(o)
  BY <1>1, <1>3, <1>7, <1>8, <1>11 DEF OppStaged, StageEventFits
<1>13. QED
  BY <1>3, <1>11, <1>12 DEF OppStep

\* reassign moves one opportunity and records it.
LEMMA OwnerSteps ==
  ASSUME OppTyped, NEW o \in Opportunities, NEW agent, NEW admin, NEW to \in Agents,
         NEW operator \in Admins \cup {None}, NEW expected, NEW key \in Nat,
         Reassign(o, agent, admin, to, operator, expected, key), stages' = stages,
         OpportunityFree(o)
  PROVE  OppTyped' /\ \A p \in Opportunities : OppStep(p)
<1>1. opp[o] # None /\ opp[o] \in Opportunity /\ opp[o].version \in Nat
  BY OppTypes DEF Reassign, Owns
<1>2. PICK row : row = OwnedRow(opp[o], to, operator)
  OBVIOUS
<1>3. /\ row \in Opportunity /\ row.stage = opp[o].stage /\ row.version = opp[o].version + 1
      /\ row.agent = to /\ row.operator = operator /\ row.closed = opp[o].closed
  BY <1>1, <1>2, OwnedFields
<1>4. opp' = [opp EXCEPT ![o] = row]
  BY <1>2 DEF Reassign, OppTyped, OwnedRow
<1>5. opp'[o] = row
  BY <1>4 DEF OppTyped
<1>6. PICK w : w = OwnershipEvent(row, key, opp[o].agent, opp[o].operator)
  OBVIOUS
<1>7. w \in OwnershipEvents /\ w.version = row.version /\ w.agent = row.agent
      /\ w.operator = row.operator
  BY <1>1, <1>3, <1>6 DEF OwnershipEvent, OwnershipEvents, Opportunity
<1>8. /\ OwnershipEventFits(owners[o], w)
      /\ owners' = [owners EXCEPT ![o] = Append(owners[o], w)]
  BY <1>5, <1>6 DEF Reassign
<1>9. stages[o] \in Seq(StageEvents) /\ owners[o] \in Seq(OwnershipEvents)
  BY OppTypes
<1>10. Append(owners[o], w) \in Seq(OwnershipEvents) /\ stages' = [stages EXCEPT ![o] = stages[o]]
  BY <1>7, <1>9 DEF OppTyped
<1>11. OpportunityFits(row)
  BY <1>1, <1>3 DEF OppTyped, OpportunityFits
<1>12. /\ OppTyped' /\ opp'[o] = row /\ owners'[o] = Append(owners[o], w) /\ stages'[o] = stages[o]
       /\ \A p \in Opportunities : p # o => OppStep(p)
  <2>1. row \in Opportunity /\ owners' = [owners EXCEPT ![o] = Append(owners[o], w)]
    BY <1>3, <1>8
  <2>2. QED
    BY <1>4, <1>9, <1>10, <1>11, <2>1, OppAlone
<1>13. OppOwned(o)
  BY <1>1, <1>3, <1>7, <1>8, <1>12 DEF OppOwned, OwnershipEventFits
<1>14. QED
  BY <1>12, <1>13 DEF OppStep

\* What a step does to a quote request.
QuoteTyped ==
  /\ request \in [Requests -> QuoteRequest \cup {None}]
  /\ quotes \in [Requests -> Seq(QuoteVersion)]
  /\ \A q \in Requests : request[q] # None => QuoteRequestFits(request[q])

QuoteKept(q) == request'[q] = request[q] /\ quotes'[q] = quotes[q]

QuoteAsked(q) ==
  \E row \in QuoteRequest :
    /\ request[q] = None /\ request'[q] = row /\ quotes'[q] = quotes[q]
    /\ row.version = 0 /\ row.status # "issued"

QuoteIssued(q) ==
  \E row \in QuoteRequest, e \in QuoteVersion :
    /\ request[q] # None /\ request'[q] = row
    /\ row.version = request[q].version + 1 /\ row.status = "issued"
    /\ e.version = Len(quotes[q]) + 1 /\ ~HasKey(quotes[q], e.key)
    /\ quotes'[q] = Append(quotes[q], e)

QuoteStep(q) == QuoteKept(q) \/ QuoteAsked(q) \/ QuoteIssued(q)
QuoteSide == QuoteTyped' /\ \A q \in Requests : QuoteStep(q)

\* A step that leaves the quotes alone.
LEMMA QuoteFrame ==
  ASSUME QuoteTyped, UNCHANGED quoteVars
  PROVE  QuoteSide
<1>1. request' = request /\ quotes' = quotes
  BY DEF quoteVars
<1>2. QuoteTyped'
  BY <1>1 DEF QuoteTyped, QuoteRequestFits
<1>3. QED
  BY <1>1, <1>2 DEF QuoteSide, QuoteStep, QuoteKept

\* One request and its versions change, the others stay.
LEMMA QuoteAlone ==
  ASSUME QuoteTyped, NEW q \in Requests, NEW row \in QuoteRequest, QuoteRequestFits(row),
         NEW s \in Seq(QuoteVersion),
         request' = [request EXCEPT ![q] = row], quotes' = [quotes EXCEPT ![q] = s]
  PROVE  /\ QuoteTyped' /\ request'[q] = row /\ quotes'[q] = s
         /\ \A p \in Requests : p # q => QuoteStep(p)
<1>1. /\ request \in [Requests -> QuoteRequest \cup {None}]
      /\ quotes \in [Requests -> Seq(QuoteVersion)]
  BY DEF QuoteTyped
<1>2. request'[q] = row /\ quotes'[q] = s
  BY <1>1
<1>3. \A p \in Requests : p # q => QuoteKept(p)
  BY <1>1 DEF QuoteKept
<1>4. /\ request' \in [Requests -> QuoteRequest \cup {None}]
      /\ quotes' \in [Requests -> Seq(QuoteVersion)]
  BY <1>1
<1>5. \A p \in Requests : request'[p] # None => QuoteRequestFits(request'[p])
  BY <1>2, <1>3 DEF QuoteTyped, QuoteKept
<1>6. QED
  BY <1>2, <1>3, <1>4, <1>5 DEF QuoteTyped, QuoteStep

\* request adds one request without a price.
LEMMA RequestSteps ==
  ASSUME QuoteTyped, NEW q \in Requests, NEW o \in Opportunities, NEW agent, NEW admin,
         NEW status \in {"unavailable", "review_required"},
         RequestQuote(q, o, agent, admin, status), quotes' = quotes
  PROVE  QuoteSide
<1>1. PICK row : row = NewRequest(o, status)
  OBVIOUS
<1>2. status \in QuoteStatuses /\ status # "issued"
  BY DEF QuoteStatuses
<1>3. row \in QuoteRequest
  BY <1>1, <1>2 DEF NewRequest, QuoteRequest
<1>4. row.version = 0 /\ row.status # "issued"
  BY <1>1, <1>2 DEF NewRequest
<1>5. /\ QuoteRequestFits(row) /\ request[q] = None /\ request' = [request EXCEPT ![q] = row]
  BY <1>1 DEF RequestQuote
<1>6. quotes[q] \in Seq(QuoteVersion) /\ quotes' = [quotes EXCEPT ![q] = quotes[q]]
  BY DEF QuoteTyped
<1>7. /\ QuoteTyped' /\ request'[q] = row /\ quotes'[q] = quotes[q]
      /\ \A p \in Requests : p # q => QuoteStep(p)
  BY <1>3, <1>5, <1>6, QuoteAlone
<1>8. QuoteAsked(q)
  BY <1>3, <1>4, <1>5, <1>7 DEF QuoteAsked
<1>9. QED
  BY <1>7, <1>8 DEF QuoteSide, QuoteStep

\* issue_authoritative_version adds one version to its request.
LEMMA IssueSteps ==
  ASSUME QuoteTyped, NEW q \in Requests, NEW agent, NEW admin, NEW expected,
         NEW reference \in References, NEW key \in Nat,
         IssueVersion(q, agent, admin, expected, reference, key)
  PROVE  QuoteSide
<1>1. PICK r \in QuoteRequest : r = request[q]
  BY DEF QuoteTyped, IssueVersion
<1>2. PICK n \in Nat : n = r.version + 1
  BY DEF QuoteRequest
<1>3. PICK p : p = [r EXCEPT !.status = "issued", !.failure = FALSE]
  OBVIOUS
<1>4. p \in QuoteRequest /\ p.status = "issued" /\ p.failure = FALSE
  BY <1>3 DEF QuoteRequest, QuoteStatuses
<1>5. PICK row : row = [p EXCEPT !.version = n]
  OBVIOUS
<1>6. row \in QuoteRequest
  BY <1>4, <1>5 DEF QuoteRequest
<1>7. row.status = "issued" /\ row.version = n
  BY <1>4, <1>5 DEF QuoteRequest
<1>8. request' = [request EXCEPT ![q] = row]
  BY <1>1, <1>2, <1>3, <1>5 DEF IssueVersion, QuoteTyped
<1>9. QuoteRequestFits(row)
  BY <1>7 DEF QuoteRequestFits, QuoteStatuses
<1>10. PICK e : e = NextQuoteVersion(q, key, reference)
  OBVIOUS
<1>11. quotes[q] \in Seq(QuoteVersion)
  BY DEF QuoteTyped
<1>12. e \in QuoteVersion /\ e.version = Len(quotes[q]) + 1 /\ e.key = key
  BY <1>10, <1>11 DEF NextQuoteVersion, QuoteVersion
<1>13. /\ ~HasKey(quotes[q], e.key) /\ request[q] # None
       /\ quotes' = [quotes EXCEPT ![q] = Append(quotes[q], e)]
  BY <1>10 DEF IssueVersion, QuoteVersionFits
<1>14. Append(quotes[q], e) \in Seq(QuoteVersion)
  BY <1>11, <1>12
<1>15. /\ QuoteTyped' /\ request'[q] = row /\ quotes'[q] = Append(quotes[q], e)
       /\ \A d \in Requests : d # q => QuoteStep(d)
  BY <1>6, <1>8, <1>9, <1>13, <1>14, QuoteAlone
<1>16. QuoteIssued(q)
  BY <1>1, <1>2, <1>6, <1>7, <1>12, <1>13, <1>15 DEF QuoteIssued
<1>17. QED
  BY <1>15, <1>16 DEF QuoteSide, QuoteStep

-----------------------------------------------------------------------------
(* Commercial records: meetings.                                            *)

MeetingTyped ==
  /\ meeting \in [Meetings -> Meeting \cup {None}]
  /\ events \in [Meetings -> Seq(MeetingEvents)]
  /\ pending \in [Admins -> MeetingCommand \cup {None}]
  /\ \A m \in Meetings : meeting[m] # None => MeetingFits(meeting[m])

\* The slot of a meeting is one of the proposal in force.
SlotHolds(row) ==
  /\ row.slot \in {0, row.proposal}
  /\ row.status \in {"slot_selected", "scheduled"} => row.slot # 0

\* The events of a meeting, each from where the one before it ended.
Chained(log) ==
  \A i \in DOMAIN log : log[i].version = i - 1 /\ (i > 1 => log[i].from = log[i - 1].to)

\* The events of a log stand under the owner of their time.
OwnedThen(o, log) ==
  \A i \in DOMAIN log :
    /\ log[i].oppVersion <= opp[o].version
    /\ OwnerAt(o, log[i].oppVersion) = <<log[i].agent, log[i].operator>>

EndsAs(log, row) ==
  /\ Len(log) = row.version + 1
  /\ log[Len(log)].to = row.status /\ log[Len(log)].proposal = row.proposal

MeetingHolds(m) ==
  IF meeting[m] = None THEN events[m] = << >>
  ELSE /\ opp[meeting[m].opportunity] # None
       /\ Chained(events[m]) /\ OwnedThen(meeting[m].opportunity, events[m])
       /\ EndsAs(events[m], meeting[m]) /\ SlotHolds(meeting[m])

\* A command in flight holds an older copy of its meeting, or the meeting itself.
PendingFits(a) ==
  pending[a] # None =>
    /\ meeting[pending[a].meeting] # None
    /\ pending[a].seen.opportunity = meeting[pending[a].meeting].opportunity
    /\ pending[a].seen.version <= meeting[pending[a].meeting].version
    /\ pending[a].seen.version = meeting[pending[a].meeting].version =>
         pending[a].seen = meeting[pending[a].meeting]
    /\ CopyAllows(pending[a])

\* What a step does to a meeting.
ReceiptOf(e, row, owner) ==
  /\ e.version = row.version /\ e.to = row.status /\ e.proposal = row.proposal
  /\ e.agent = owner.agent /\ e.operator = owner.operator /\ e.oppVersion = owner.version

MeetingKept(m) == meeting'[m] = meeting[m] /\ events'[m] = events[m]

MeetingMade(m) ==
  \E row \in Meeting, e \in MeetingEvents :
    /\ meeting[m] = None /\ meeting'[m] = row /\ events'[m] = <<e>>
    /\ row.version = 0 /\ row.status = "requested" /\ SlotHolds(row)
    /\ opp'[row.opportunity] # None /\ ReceiptOf(e, row, opp'[row.opportunity])

ScheduledOpen(o) ==
  opp'[o].stage = "meeting_scheduled" /\ opp[o].stage \notin Terminal \cup {"paused"}

MeetingMoved(m) ==
  \E row \in Meeting, e \in MeetingEvents :
    /\ meeting[m] # None /\ meeting'[m] = row /\ events'[m] = Append(events[m], e)
    /\ row.opportunity = meeting[m].opportunity /\ row.version = meeting[m].version + 1
    /\ SlotHolds(row) /\ e.from = meeting[m].status /\ ~HasKey(events[m], e.key)
    /\ opp'[row.opportunity] # None /\ ReceiptOf(e, row, opp'[row.opportunity])
    /\ row.status = "scheduled" => ScheduledOpen(row.opportunity)

MeetingStep(m) == MeetingKept(m) \/ MeetingMade(m) \/ MeetingMoved(m)

\* The opportunity of a command is its agent's and open to its sender.
Entitled(a, c) == Owns(c.seen.opportunity, c.agent, a)

\* A command that holds the lock has the owner it was checked against.
LockFits(a) == pending[a] # None /\ pending[a].locked => Entitled(a, pending[a])

CommandLocked(c) == [c EXCEPT !.locked = TRUE]

Dropped(a) == pending'[a] = None /\ (events' = events \/ Entitled(a, pending[a]))

Begun(a) ==
  \E c \in MeetingCommand :
    /\ pending[a] = None /\ pending'[a] = c /\ meeting[c.meeting] # None
    /\ c.seen = meeting[c.meeting] /\ CopyAllows(c) /\ c.locked = FALSE

Checked(a) ==
  /\ pending[a] # None /\ pending'[a] = CommandLocked(pending[a])
  /\ Entitled(a, pending[a]) /\ opp' = opp /\ events' = events

PendingStep(a) == pending'[a] = pending[a] \/ Dropped(a) \/ Begun(a) \/ Checked(a)

MeetingSide ==
  /\ MeetingTyped' /\ \A m \in Meetings : MeetingStep(m)
  /\ \A a \in Admins : PendingStep(a)

\* A step that leaves the meetings alone.
LEMMA MeetingFrame ==
  ASSUME MeetingTyped, UNCHANGED meetingVars
  PROVE  MeetingSide
<1>1. meeting' = meeting /\ events' = events /\ pending' = pending
  BY DEF meetingVars
<1>2. MeetingTyped'
  BY <1>1 DEF MeetingTyped, MeetingFits, SlotFits
<1>3. QED
  BY <1>1, <1>2 DEF MeetingSide, MeetingStep, MeetingKept, PendingStep

\* One meeting and its events change, the others stay.
LEMMA MeetingAlone ==
  ASSUME MeetingTyped, NEW m \in Meetings, NEW row \in Meeting, MeetingFits(row),
         NEW s \in Seq(MeetingEvents), pending' \in [Admins -> MeetingCommand \cup {None}],
         meeting' = [meeting EXCEPT ![m] = row], events' = [events EXCEPT ![m] = s]
  PROVE  /\ MeetingTyped' /\ meeting'[m] = row /\ events'[m] = s
         /\ \A p \in Meetings : p # m => MeetingStep(p)
<1>1. /\ meeting \in [Meetings -> Meeting \cup {None}]
      /\ events \in [Meetings -> Seq(MeetingEvents)]
  BY DEF MeetingTyped
<1>2. meeting'[m] = row /\ events'[m] = s
  BY <1>1
<1>3. \A p \in Meetings : p # m => MeetingKept(p)
  BY <1>1 DEF MeetingKept
<1>4. /\ meeting' \in [Meetings -> Meeting \cup {None}]
      /\ events' \in [Meetings -> Seq(MeetingEvents)]
  BY <1>1
<1>5. \A p \in Meetings : meeting'[p] # None => MeetingFits(meeting'[p])
  BY <1>2, <1>3 DEF MeetingTyped, MeetingKept
<1>6. QED
  BY <1>2, <1>3, <1>4, <1>5 DEF MeetingTyped, MeetingStep

\* The rows of a meeting, as SMT sees them.
LEMMA MeetingTypes ==
  ASSUME MeetingTyped, NEW m \in Meetings
  PROVE  /\ events[m] \in Seq(MeetingEvents)
         /\ meeting[m] # None => /\ meeting[m] \in Meeting /\ meeting[m].version \in Nat
                                 /\ meeting[m].opportunity \in Opportunities
<1>1. events[m] \in Seq(MeetingEvents) /\ meeting[m] \in Meeting \cup {None}
  BY DEF MeetingTyped
<1>2. QED
  BY <1>1 DEF Meeting

\* The receipt of a meeting command.
LEMMA EventTyped ==
  ASSUME NEW row \in Meeting, NEW owner \in Opportunity, NEW from \in Statuses \cup {None},
         NEW key \in Meetings \cup Nat, NEW slot \in Nat
  PROVE  /\ MeetingEvent(row, owner, from, key, slot) \in MeetingEvents
         /\ MeetingEvent(row, owner, from, key, slot).from = from
         /\ MeetingEvent(row, owner, from, key, slot).key = key
         /\ ReceiptOf(MeetingEvent(row, owner, from, key, slot), row, owner)
<1>1. /\ row.version \in Nat /\ row.status \in Statuses /\ row.proposal \in Nat
      /\ owner.agent \in Agents /\ owner.operator \in Admins \cup {None} /\ owner.version \in Nat
  BY DEF Meeting, Opportunity
<1>2. MeetingEvent(row, owner, from, key, slot) \in MeetingEvents
  BY <1>1 DEF MeetingEvent, MeetingEvents
<1>3. /\ MeetingEvent(row, owner, from, key, slot).from = from
      /\ MeetingEvent(row, owner, from, key, slot).key = key
      /\ ReceiptOf(MeetingEvent(row, owner, from, key, slot), row, owner)
  BY DEF MeetingEvent, ReceiptOf
<1>4. QED
  BY <1>2, <1>3

\* create adds one meeting with its first event.
LEMMA MadeSteps ==
  ASSUME OppTyped, MeetingTyped, NEW m \in Meetings, NEW o \in Opportunities, NEW agent,
         NEW admin, NEW c, MeetingCreated(m, o, agent, admin, c), opp' = opp, pending' = pending
  PROVE  MeetingSide
<1>1. PICK row : row = NewMeeting(o)
  OBVIOUS
<1>2. row \in Meeting
  BY <1>1 DEF NewMeeting, Meeting, Statuses
<1>3. /\ row.version = 0 /\ row.status = "requested" /\ row.opportunity = o
      /\ row.slot = 0 /\ row.proposal = 0
  BY <1>1 DEF NewMeeting
<1>4. SlotHolds(row) /\ MeetingFits(row)
  BY <1>3 DEF SlotHolds, MeetingFits, SlotFits, Statuses
<1>5. PICK e : e = MeetingEvent(row, opp[o], None, m, 0)
  OBVIOUS
<1>6. opp[o] # None /\ opp[o] \in Opportunity
  BY OppTypes DEF MeetingCreated
<1>7. e \in MeetingEvents /\ ReceiptOf(e, row, opp[o])
  BY <1>2, <1>5, <1>6, EventTyped
<1>8. /\ meeting[m] = None /\ meeting' = [meeting EXCEPT ![m] = row]
      /\ events' = [events EXCEPT ![m] = <<e>>]
  BY <1>1, <1>5 DEF MeetingCreated
<1>9. <<e>> \in Seq(MeetingEvents) /\ pending' \in [Admins -> MeetingCommand \cup {None}]
  BY <1>7 DEF MeetingTyped
<1>10. /\ MeetingTyped' /\ meeting'[m] = row /\ events'[m] = <<e>>
       /\ \A p \in Meetings : p # m => MeetingStep(p)
  BY <1>2, <1>4, <1>8, <1>9, MeetingAlone
<1>11. MeetingMade(m)
  BY <1>2, <1>3, <1>4, <1>6, <1>7, <1>8, <1>10 DEF MeetingMade
<1>12. QED
  BY <1>10, <1>11 DEF MeetingSide, MeetingStep, PendingStep

\* A command that begins holds a copy of its meeting as it is.
LEMMA BeginSteps ==
  ASSUME MeetingTyped, NEW admin \in Admins, NEW agent \in Agents, NEW m \in Meetings,
         NEW op \in Operations, NEW expected \in Nat, NEW slot \in Nat, NEW oppVersion \in Nat,
         NEW key \in Nat,
         BeginMeetingCommand(admin, agent, m, op, expected, slot, oppVersion, key)
  PROVE  MeetingSide
<1>1. PICK c : c = [agent |-> agent, meeting |-> m, op |-> op,
                    expected |-> expected, slot |-> slot,
                    oppVersion |-> oppVersion, key |-> key, seen |-> meeting[m],
                    locked |-> FALSE]
  OBVIOUS
<1>2. meeting[m] # None /\ meeting[m] \in Meeting
  BY MeetingTypes DEF BeginMeetingCommand
<1>3. c \in MeetingCommand
  BY <1>1, <1>2 DEF MeetingCommand
<1>4. c.meeting = m /\ c.seen = meeting[m] /\ c.locked = FALSE
  BY <1>1
<1>5. /\ pending[admin] = None /\ CopyAllows(c) /\ pending' = [pending EXCEPT ![admin] = c]
      /\ meeting' = meeting /\ events' = events
  BY <1>1 DEF BeginMeetingCommand
<1>6. MeetingTyped'
  BY <1>3, <1>5 DEF MeetingTyped, MeetingFits, SlotFits
<1>7. \A a \in Admins : PendingStep(a)
  <2>1. pending'[admin] = c /\ \A a \in Admins : a # admin => pending'[a] = pending[a]
    BY <1>5 DEF MeetingTyped
  <2>2. PendingStep(admin)
    BY <1>2, <1>3, <1>4, <1>5, <2>1 DEF PendingStep, Begun
  <2>3. QED
    BY <2>1, <2>2 DEF PendingStep
<1>8. QED
  BY <1>5, <1>6, <1>7 DEF MeetingSide, MeetingStep, MeetingKept

\* Every endpoint of a meeting begins a command.
LEMMA RequestedSteps ==
  ASSUME OppTyped, MeetingTyped, NEW admin \in Admins, NEW agent \in Agents,
         NEW m \in Meetings, NEW key \in Nat, MeetingRequest(admin, agent, m, key),
         meeting[m] # None => opp[meeting[m].opportunity] # None
  PROVE  MeetingSide /\ UNCHANGED <<oppVars, quoteVars, grants>>
<1>1. meeting[m] # None /\ meeting[m].opportunity \in Opportunities
  BY MeetingTypes DEF MeetingRequest
<1>2. meeting[m].version \in Nat /\ meeting[m].proposal \in Nat
      /\ opp[meeting[m].opportunity].version \in Nat
  <2>1. meeting[m] \in Meeting
    BY <1>1, MeetingTypes
  <2>2. opp[meeting[m].opportunity].version \in Nat
    BY <1>1, OppTypes
  <2>3. QED
    BY <2>1, <2>2 DEF Meeting
<1>3. ASSUME NEW v \in Nat PROVE Shown(v) \subseteq Nat
  BY DEF Shown
<1>4. \E op \in Operations, expected \in Nat, slot \in Nat, v \in Nat :
        BeginMeetingCommand(admin, agent, m, op, expected, slot, v, key)
  <2>1. PICK expected \in Shown(meeting[m].version) :
       \/ ProposeSlots(admin, agent, m, expected, key)
       \/ MarkAwaitingResponse(admin, agent, m, expected, key)
       \/ RequestReschedule(admin, agent, m, expected, key)
       \/ CancelMeeting(admin, agent, m, expected, key)
       \/ RequireReview(admin, agent, m, expected, key)
       \/ \E slot \in Shown(meeting[m].proposal) \ {0} :
            \/ SelectSlot(admin, agent, m, expected, slot, key)
            \/ \E v \in Shown(opp[meeting[m].opportunity].version) :
                 ScheduleManually(admin, agent, m, expected, slot, v, key)
    BY DEF MeetingRequest
  <2>2. expected \in Nat /\ 0 \in Nat
    BY <1>2, <1>3
  <2>3. /\ Shown(meeting[m].proposal) \ {0} \subseteq Nat
        /\ Shown(opp[meeting[m].opportunity].version) \subseteq Nat
    BY <1>2, <1>3
  <2>4. Operations = {"propose", "await", "select", "reschedule", "cancel", "review", "schedule"}
    BY DEF Operations
  <2>5. CASE \/ ProposeSlots(admin, agent, m, expected, key)
             \/ MarkAwaitingResponse(admin, agent, m, expected, key)
             \/ RequestReschedule(admin, agent, m, expected, key)
             \/ CancelMeeting(admin, agent, m, expected, key)
             \/ RequireReview(admin, agent, m, expected, key)
    BY <2>2, <2>4, <2>5 DEF ProposeSlots, MarkAwaitingResponse, RequestReschedule,
       CancelMeeting, RequireReview
  <2>6. CASE \E slot \in Shown(meeting[m].proposal) \ {0} :
               SelectSlot(admin, agent, m, expected, slot, key)
    BY <2>2, <2>3, <2>4, <2>6 DEF SelectSlot
  <2>7. CASE \E slot \in Shown(meeting[m].proposal) \ {0},
                v \in Shown(opp[meeting[m].opportunity].version) :
               ScheduleManually(admin, agent, m, expected, slot, v, key)
    BY <2>2, <2>3, <2>4, <2>7 DEF ScheduleManually
  <2>8. QED
    BY <2>1, <2>5, <2>6, <2>7
<1>5. PICK op \in Operations, expected \in Nat, slot \in Nat, v \in Nat :
        BeginMeetingCommand(admin, agent, m, op, expected, slot, v, key)
  BY <1>4
<1>6. MeetingSide
  BY <1>5, BeginSteps
<1>7. QED
  BY <1>5, <1>6 DEF BeginMeetingCommand

\* The row a command leaves.
LEMMA AppliedFields ==
  ASSUME NEW c \in MeetingCommand, CopyAllows(c), SlotHolds(c.seen)
  PROVE  /\ Applied(c) \in Meeting /\ SlotHolds(Applied(c))
         /\ Applied(c).opportunity = c.seen.opportunity
         /\ Applied(c).version = c.seen.version + 1
         /\ Applied(c).status = "scheduled" => c.op = "schedule"
<1>1. /\ c.seen \in Meeting /\ c.op \in Operations /\ c.slot \in Nat
  BY DEF MeetingCommand
<1>2. PICK t : t = TargetStatus(c.op)
  OBVIOUS
<1>3. /\ t \in Statuses
      /\ t = "scheduled" => c.op = "schedule"
      /\ t = "slot_selected" => c.op = "select"
  BY <1>1, <1>2 DEF TargetStatus, Operations, Statuses
<1>4. PICK n \in Nat : n = c.seen.version + 1
  BY <1>1 DEF Meeting
<1>5. PICK row : row = [c.seen EXCEPT !.version = @ + 1, !.status = TargetStatus(c.op)]
  OBVIOUS
<1>6. row = [c.seen EXCEPT !.version = n, !.status = t]
  BY <1>2, <1>4, <1>5
<1>7. row \in Meeting
  BY <1>1, <1>3, <1>6 DEF Meeting
<1>8. /\ row.opportunity = c.seen.opportunity /\ row.version = n /\ row.status = t
      /\ row.proposal = c.seen.proposal /\ row.slot = c.seen.slot
  BY <1>1, <1>6 DEF Meeting
<1>9. CASE c.op = "propose"
  <2>1. PICK p \in Nat : p = row.proposal + 1
    BY <1>7 DEF Meeting
  <2>2. PICK r : r = [row EXCEPT !.proposal = p, !.slot = 0]
    OBVIOUS
  <2>3. Applied(c) = r
    BY <1>5, <1>9, <2>1, <2>2 DEF Applied
  <2>4. r \in Meeting
    BY <1>7, <2>2 DEF Meeting
  <2>5. /\ r.opportunity = row.opportunity /\ r.version = n /\ r.status = t
        /\ r.slot = 0
    BY <1>7, <1>8, <2>2 DEF Meeting
  <2>6. SlotHolds(r)
    BY <1>3, <1>9, <2>5 DEF SlotHolds
  <2>7. QED
    BY <1>3, <1>4, <1>8, <2>3, <2>4, <2>5, <2>6
<1>10. CASE c.op \in {"select", "schedule"}
  <2>1. c.slot = c.seen.proposal /\ c.slot # 0
    BY <1>1, <1>10 DEF CopyAllows, CurrentSlot
  <2>2. PICK r : r = [row EXCEPT !.slot = c.slot]
    OBVIOUS
  <2>3. Applied(c) = r
    BY <1>5, <1>10, <2>2 DEF Applied
  <2>4. r \in Meeting
    BY <1>1, <1>7, <2>2 DEF Meeting
  <2>5. /\ r.opportunity = row.opportunity /\ r.version = n /\ r.status = t
        /\ r.slot = c.slot /\ r.proposal = row.proposal
    BY <1>7, <1>8, <2>2 DEF Meeting
  <2>6. SlotHolds(r)
    BY <1>8, <2>1, <2>5 DEF SlotHolds
  <2>7. QED
    BY <1>3, <1>4, <1>8, <2>3, <2>4, <2>5, <2>6
<1>11. CASE c.op \notin {"propose", "select", "schedule"}
  <2>1. Applied(c) = row
    BY <1>5, <1>11 DEF Applied
  <2>2. SlotHolds(row)
    BY <1>3, <1>8, <1>11 DEF SlotHolds
  <2>3. QED
    BY <1>3, <1>4, <1>7, <1>8, <2>1, <2>2
<1>12. QED
  BY <1>9, <1>10, <1>11

\* The opportunity follows a meeting scheduled by hand.
LEMMA FollowSteps ==
  ASSUME OppTyped, LinksTyped, NEW c \in MeetingCommand, NEW admin,
         opp[c.seen.opportunity] # None, StageFollows(c, admin),
         c.op = "schedule" => ScheduleHolds(c),
         owners' = owners, links' = links
  PROVE  /\ OppSide /\ opp'[c.seen.opportunity] \in Opportunity
         /\ c.op = "schedule" => ScheduledOpen(c.seen.opportunity)
<1>1. c.seen \in Meeting /\ c.meeting \in Meetings /\ c.key \in Nat
  BY DEF MeetingCommand
<1>2. PICK o \in Opportunities : o = c.seen.opportunity
  BY <1>1 DEF Meeting
<1>3. opp[o] \in Opportunity
  BY <1>2, OppTypes
<1>4. CASE c.op = "schedule" /\ opp[o].stage # "meeting_scheduled"
  <2>1. TransitionStage(o, opp[o].agent, admin, "meeting_scheduled", c.oppVersion, StageKey(c))
    BY <1>2, <1>4 DEF StageFollows
  <2>2. "meeting_scheduled" \in Stages /\ StageKey(c) \in (Meetings \cup {None}) \X Nat
    BY <1>1 DEF Stages, StageKey
  <2>3. /\ OppTyped' /\ \A p \in Opportunities : OppStep(p)
        /\ opp'[o] \in Opportunity /\ opp'[o].stage = "meeting_scheduled"
    BY <2>1, <2>2, StageSteps
  <2>4. LinksTyped'
    BY DEF LinksTyped
  <2>5. QED
    BY <1>2, <2>3, <2>4 DEF OppSide, ScheduledOpen, ScheduleHolds
<1>5. CASE ~(c.op = "schedule" /\ opp[o].stage # "meeting_scheduled")
  <2>1. opp' = opp /\ stages' = stages
    BY <1>2, <1>5 DEF StageFollows
  <2>2. OppSide
    BY <2>1, OppFrame DEF oppVars
  <2>3. QED
    BY <1>2, <1>3, <1>5, <2>1, <2>2 DEF ScheduledOpen, ScheduleHolds
<1>6. QED
  BY <1>4, <1>5

\* A command that commits has seen its meeting as it is: the event it writes is the
\* next one of the log.
LEMMA SeenNow ==
  ASSUME MeetingTyped, NEW a \in Admins, PendingFits(a), pending[a] # None,
         NEW m \in Meetings, m = pending[a].meeting, MeetingHolds(m),
         ~HasVersion(events[m], pending[a].seen.version + 1)
  PROVE  pending[a].seen = meeting[m] /\ meeting[m] # None
<1>1. pending[a] \in MeetingCommand
  BY DEF MeetingTyped
<1>2. PICK n \in Nat : n = pending[a].seen.version
  BY <1>1 DEF MeetingCommand, Meeting
<1>3. meeting[m] # None /\ events[m] \in Seq(MeetingEvents)
  BY MeetingTypes DEF PendingFits
<1>4. PICK k \in Nat : k = meeting[m].version /\ n <= k
  BY <1>2, <1>3, MeetingTypes DEF PendingFits
<1>5. Len(events[m]) = k + 1 /\ \A i \in DOMAIN events[m] : events[m][i].version = i - 1
  BY <1>3, <1>4 DEF MeetingHolds, EndsAs, Chained
<1>6. ASSUME n < k PROVE FALSE
  <2>1. n + 2 \in DOMAIN events[m]
    BY <1>3, <1>5, <1>6
  <2>2. events[m][n + 2].version = n + 1
    BY <1>5, <2>1
  <2>3. QED
    BY <1>2, <2>1, <2>2 DEF HasVersion
<1>7. n = k
  BY <1>4, <1>6
<1>8. QED
  BY <1>2, <1>3, <1>4, <1>7 DEF PendingFits

\* The lock is all a checked command gains.
LEMMA LockedFields ==
  ASSUME NEW d \in MeetingCommand
  PROVE  /\ CommandLocked(d) \in MeetingCommand /\ CommandLocked(d).meeting = d.meeting
         /\ CommandLocked(d).seen = d.seen /\ CommandLocked(d).agent = d.agent
         /\ CopyAllows(d) => CopyAllows(CommandLocked(d))
<1>1. PICK c : c = CommandLocked(d)
  OBVIOUS
<1>2. /\ c \in MeetingCommand /\ c.meeting = d.meeting /\ c.seen = d.seen
      /\ c.agent = d.agent /\ c.op = d.op /\ c.expected = d.expected /\ c.slot = d.slot
  BY <1>1 DEF CommandLocked, MeetingCommand
<1>3. CopyAllows(d) => CopyAllows(c)
  BY <1>2 DEF CopyAllows
<1>4. QED
  BY <1>1, <1>2, <1>3

\* _command_context finds the owner as the command has it, and takes the lock.
LEMMA CheckSteps ==
  ASSUME MeetingTyped, NEW admin \in Admins, AuthorizeMeetingCommand(admin)
  PROVE  MeetingSide
<1>1. PICK d \in MeetingCommand : d = pending[admin] /\ d # None
  BY DEF AuthorizeMeetingCommand, MeetingTyped
<1>2. PICK c : c = CommandLocked(d)
  OBVIOUS
<1>3. c \in MeetingCommand
  BY <1>2, LockedFields
<1>4. Entitled(admin, d)
  BY <1>1 DEF AuthorizeMeetingCommand, ContextHolds, MayCoordinate, Entitled
<1>5. /\ pending' = [pending EXCEPT ![admin] = c] /\ opp' = opp
      /\ meeting' = meeting /\ events' = events
  BY <1>1, <1>2 DEF AuthorizeMeetingCommand, CommandLocked, oppVars
<1>6. MeetingTyped'
  BY <1>3, <1>5 DEF MeetingTyped, MeetingFits, SlotFits
<1>7. \A a \in Admins : PendingStep(a)
  <2>1. pending'[admin] = c /\ \A a \in Admins : a # admin => pending'[a] = pending[a]
    BY <1>5 DEF MeetingTyped
  <2>2. PendingStep(admin)
    BY <1>1, <1>2, <1>4, <1>5, <2>1 DEF PendingStep, Checked
  <2>3. QED
    BY <2>1, <2>2 DEF PendingStep
<1>8. QED
  BY <1>5, <1>6, <1>7 DEF MeetingSide, MeetingStep, MeetingKept

\* A command that commits moves its meeting by one event, and no other.
LEMMA FinishSteps ==
  ASSUME OppTyped, LinksTyped, MeetingTyped, NEW admin \in Admins,
         \A m \in Meetings : MeetingHolds(m), PendingFits(admin), LockFits(admin),
         FinishMeetingCommand(admin)
  PROVE  OppSide /\ MeetingSide
<1>1. PICK c \in MeetingCommand : c = pending[admin] /\ c # None
  BY DEF FinishMeetingCommand, MeetingTyped
<1>2. PICK m \in Meetings : m = c.meeting
  BY DEF MeetingCommand
<1>3. c.seen \in Meeting /\ c.key \in Nat /\ c.slot \in Nat
  BY DEF MeetingCommand
<1>4. PICK o \in Opportunities : o = c.seen.opportunity
  BY <1>3 DEF Meeting
<1>5. /\ MeetingCommandApplies(c, admin) /\ owners' = owners /\ links' = links
      /\ pending' = [pending EXCEPT ![admin] = None] /\ Entitled(admin, c)
  BY <1>1 DEF FinishMeetingCommand, LockFits
<1>6. /\ opp[o] # None /\ Entitled(admin, c) /\ StageFollows(c, admin)
      /\ c.op = "schedule" => ScheduleHolds(c)
  BY <1>4, <1>5 DEF MeetingCommandApplies, Entitled, Owns
<1>7. /\ OppSide /\ opp'[o] \in Opportunity /\ (c.op = "schedule" => ScheduledOpen(o))
  BY <1>4, <1>5, <1>6, FollowSteps
<1>8. PICK row, e :
        /\ row = Applied(c)
        /\ e = MeetingEvent(row, opp'[o], c.seen.status, c.key,
                            IF c.op \in {"select", "schedule"} THEN c.slot ELSE 0)
  OBVIOUS
<1>9. /\ MeetingFits(row) /\ MeetingEventFits(events[m], e)
      /\ events' = [events EXCEPT ![m] = Append(events[m], e)]
      /\ meeting' = [meeting EXCEPT ![m] = row]
  BY <1>2, <1>4, <1>5, <1>8 DEF MeetingCommandApplies
<1>10. CopyAllows(c)
  BY <1>1 DEF PendingFits
<1>11. c.seen = meeting[m] /\ meeting[m] # None /\ SlotHolds(c.seen)
  <2>1. e.version = row.version /\ row.version = c.seen.version + 1
    <3>1. e.version = row.version
      BY <1>8 DEF MeetingEvent
    <3>2. PICK q : q = [c.seen EXCEPT !.version = @ + 1, !.status = TargetStatus(c.op)]
      OBVIOUS
    <3>3. q.version = c.seen.version + 1
      BY <1>3, <3>2 DEF Meeting
    <3>4. row.version = q.version
      BY <1>3, <1>8, <3>2 DEF Applied, Meeting
    <3>5. QED
      BY <3>1, <3>3, <3>4
  <2>2. ~HasVersion(events[m], pending[admin].seen.version + 1)
    BY <1>1, <1>9, <2>1 DEF MeetingEventFits
  <2>3. pending[admin].seen = meeting[m] /\ meeting[m] # None
    BY <1>1, <1>2, <2>2, SeenNow
  <2>4. QED
    BY <1>1, <2>3 DEF MeetingHolds
<1>12. /\ row \in Meeting /\ SlotHolds(row) /\ row.opportunity = o
       /\ row.version = c.seen.version + 1
       /\ row.status = "scheduled" => c.op = "schedule"
  BY <1>4, <1>8, <1>10, <1>11, AppliedFields
<1>13. /\ e \in MeetingEvents /\ e.from = c.seen.status /\ e.key = c.key
       /\ ReceiptOf(e, row, opp'[o])
  <2>1. PICK owner \in Opportunity : owner = opp'[o]
    BY <1>7
  <2>2. PICK slot \in Nat : slot = IF c.op \in {"select", "schedule"} THEN c.slot ELSE 0
    BY <1>3
  <2>3. PICK from \in Statuses \cup {None} : from = c.seen.status
    BY <1>3 DEF Meeting
  <2>4. c.key \in Meetings \cup Nat /\ e = MeetingEvent(row, owner, from, c.key, slot)
    BY <1>3, <1>8, <2>1, <2>2, <2>3
  <2>5. row \in Meeting /\ c.key \in Meetings \cup Nat
    BY <1>12, <2>4
  <2>6. /\ MeetingEvent(row, owner, from, c.key, slot) \in MeetingEvents
        /\ MeetingEvent(row, owner, from, c.key, slot).from = from
        /\ MeetingEvent(row, owner, from, c.key, slot).key = c.key
        /\ ReceiptOf(MeetingEvent(row, owner, from, c.key, slot), row, owner)
    BY <2>5, EventTyped
  <2>7. QED
    BY <2>1, <2>3, <2>4, <2>6
<1>14. Append(events[m], e) \in Seq(MeetingEvents)
  BY <1>13, MeetingTypes
<1>15. pending' \in [Admins -> MeetingCommand \cup {None}]
  BY <1>5 DEF MeetingTyped
<1>16. /\ MeetingTyped' /\ meeting'[m] = row /\ events'[m] = Append(events[m], e)
       /\ \A p \in Meetings : p # m => MeetingStep(p)
  BY <1>9, <1>12, <1>14, <1>15, MeetingAlone
<1>17. MeetingMoved(m)
  <2>1. opp'[o] # None
    BY <1>7, CommercialAssumption
  <2>2. ~HasKey(events[m], e.key)
    BY <1>9 DEF MeetingEventFits
  <2>3. row.opportunity = meeting[m].opportunity /\ row.version = meeting[m].version + 1
        /\ e.from = meeting[m].status
    BY <1>4, <1>11, <1>12, <1>13
  <2>4. QED
    BY <1>7, <1>11, <1>12, <1>13, <1>16, <2>1, <2>2, <2>3 DEF MeetingMoved
<1>18. \A a \in Admins : PendingStep(a)
  BY <1>1, <1>5, <1>6 DEF PendingStep, Dropped, MeetingTyped
<1>19. QED
  BY <1>7, <1>16, <1>17, <1>18 DEF MeetingSide, MeetingStep

-----------------------------------------------------------------------------
(* Commercial records: the inductive invariant.                             *)

\* A quote request counts the versions issued for it.
QuoteHolds(q) ==
  IF request[q] = None THEN quotes[q] = << >>
  ELSE /\ request[q].version = Len(quotes[q])
       /\ (request[q].status = "issued") <=> Len(quotes[q]) > 0
       /\ \A i \in DOMAIN quotes[q] : quotes[q][i].version = i

GrantsTyped == grants \subseteq Admins \X Agents

CommercialInv ==
  /\ OppTyped /\ LinksTyped /\ QuoteTyped /\ MeetingTyped /\ GrantsTyped
  /\ \A o \in Opportunities : OppHolds(o)
  /\ \A q \in Requests : QuoteHolds(q)
  /\ \A m \in Meetings : MeetingHolds(m)
  /\ \A a \in Admins : PendingFits(a) /\ LockFits(a)

CommercialStep == OppSide /\ QuoteSide /\ MeetingSide /\ GrantsTyped'

\* The invariant of the commercial records holds at the start.
LEMMA CommercialInitHolds == Init => CommercialInv
<1> SUFFICES ASSUME Init PROVE CommercialInv
  OBVIOUS
<1>1. OppTyped /\ LinksTyped /\ QuoteTyped /\ MeetingTyped /\ GrantsTyped
  BY DEF Init, OppTyped, LinksTyped, QuoteTyped, MeetingTyped, GrantsTyped
<1>2. \A o \in Opportunities : OppHolds(o)
  BY DEF Init, OppHolds, OpportunityHistory, StagesOwned
<1>3. (\A q \in Requests : QuoteHolds(q)) /\ (\A m \in Meetings : MeetingHolds(m))
  BY DEF Init, QuoteHolds, MeetingHolds
<1>4. \A a \in Admins : PendingFits(a) /\ LockFits(a)
  BY DEF Init, PendingFits, LockFits
<1>5. QED
  BY <1>1, <1>2, <1>3, <1>4 DEF CommercialInv

\* The keys commands come with are numbers.
LEMMA KeysNatural ==
  ASSUME MeetingTyped
  PROVE  /\ UnderWay \in Nat
         /\ \A T : \A log \in Seq(T) : FreshOrUsed(log) \subseteq Nat
<1>1. IsFiniteSet({a \in Admins : pending[a] # None})
  BY FS_Subset, CommercialAssumption
<1>2. UnderWay \in Nat
  BY <1>1, FS_CardinalityType DEF UnderWay
<1>3. ASSUME NEW T, NEW log \in Seq(T) PROVE FreshOrUsed(log) \subseteq Nat
  <2>1. Len(log) \in Nat
    OBVIOUS
  <2>2. QED
    BY <2>1 DEF FreshOrUsed, Shown
<1>4. QED
  BY <1>2, <1>3

\* A step of the machine, seen from each record.
LEMMA CommercialSteps ==
  ASSUME CommercialInv, [Next]_vars
  PROVE  CommercialStep
<1> USE DEF CommercialInv
<1>1. CASE UNCHANGED vars
  BY <1>1, OppFrame, QuoteFrame, MeetingFrame
     DEF CommercialStep, vars, oppVars, quoteVars, meetingVars, GrantsTyped
<1>2. ASSUME NEW admin \in Admins, NEW agent \in Agents,
             SetGrant(admin, agent) \/ RevokeGrant(admin, agent)
      PROVE  CommercialStep
  <2>1. UNCHANGED oppVars /\ UNCHANGED quoteVars /\ UNCHANGED meetingVars
    BY <1>2 DEF SetGrant, RevokeGrant
  <2>2. GrantsTyped'
    BY <1>2 DEF SetGrant, RevokeGrant, GrantsTyped
  <2>3. QED
    BY <2>1, <2>2, OppFrame, QuoteFrame, MeetingFrame DEF CommercialStep
<1>3. ASSUME NEW admin \in Admins, NEW agent \in Agents, NEW m \in Meetings,
             NEW o \in Opportunities, NEW c, CreateMeeting(admin, agent, m, o, c)
      PROVE  CommercialStep
  <2>1. /\ MeetingCreated(m, o, agent, admin, c) /\ UNCHANGED oppVars /\ UNCHANGED quoteVars
        /\ pending' = pending /\ grants' = grants
    BY <1>3 DEF CreateMeeting
  <2>2. MeetingSide
    BY <2>1, MadeSteps DEF oppVars
  <2>3. QED
    BY <2>1, <2>2, OppFrame, QuoteFrame DEF CommercialStep, GrantsTyped
<1>4. ASSUME NEW admin \in Admins, NEW agent \in Agents, NEW m \in Meetings,
             NEW key \in Len(events[m])..(Len(events[m]) + UnderWay),
             MeetingRequest(admin, agent, m, key)
      PROVE  CommercialStep
  <2>1. key \in Nat
    BY <1>4, KeysNatural, MeetingTypes
  <2>2. meeting[m] # None => opp[meeting[m].opportunity] # None
    BY DEF MeetingHolds
  <2>3. MeetingSide /\ UNCHANGED <<oppVars, quoteVars, grants>>
    BY <1>4, <2>1, <2>2, RequestedSteps
  <2>4. UNCHANGED oppVars /\ UNCHANGED quoteVars /\ grants' = grants
    BY <2>3
  <2>5. QED
    BY <2>3, <2>4, OppFrame, QuoteFrame DEF CommercialStep, GrantsTyped
<1>5. ASSUME NEW admin \in Admins, NEW agent \in Agents, NEW o \in Opportunities,
             NEW target \in Targets, NEW expected, NEW key \in FreshOrUsed(stages[o]),
             TransitionOpportunity(admin, agent, o, target, expected, key)
      PROVE  CommercialStep
  <2>1. /\ TransitionStage(o, agent, admin, target, expected, <<None, key>>)
        /\ owners' = owners /\ links' = links /\ UNCHANGED quoteVars /\ UNCHANGED meetingVars
        /\ grants' = grants
    BY <1>5 DEF TransitionOpportunity
  <2>2. key \in Nat
    BY KeysNatural, OppTypes
  <2>3. target \in Stages /\ <<None, key>> \in (Meetings \cup {None}) \X Nat
    BY <2>2, CommercialAssumption
  <2>4. OppTyped' /\ \A p \in Opportunities : OppStep(p)
    BY <2>1, <2>3, StageSteps
  <2>5. QED
    BY <2>1, <2>4, QuoteFrame, MeetingFrame DEF CommercialStep, OppSide, GrantsTyped, LinksTyped
<1>6. ASSUME NEW admin \in Admins, NEW agent \in Agents, NEW o \in Opportunities,
             NEW to \in Agents, NEW operator \in Admins \cup {None}, NEW expected,
             NEW key \in FreshOrUsed(owners[o]),
             ReassignOpportunity(admin, agent, o, to, operator, expected, key)
      PROVE  CommercialStep
  <2>1. /\ Reassign(o, agent, admin, to, operator, expected, key)
        /\ stages' = stages /\ links' = links /\ UNCHANGED quoteVars /\ UNCHANGED meetingVars
        /\ grants' = grants /\ OpportunityFree(o)
    BY <1>6 DEF ReassignOpportunity
  <2>2. key \in Nat
    BY KeysNatural, OppTypes
  <2>3. OppTyped' /\ \A p \in Opportunities : OppStep(p)
    BY <2>1, <2>2, OwnerSteps
  <2>4. QED
    BY <2>1, <2>3, QuoteFrame, MeetingFrame DEF CommercialStep, OppSide, GrantsTyped, LinksTyped
<1>7. ASSUME NEW admin \in Admins, NEW agent \in Agents, NEW o \in Opportunities,
             NEW c \in Conversations, NEW key \in {1, 2},
             LinkConversation(admin, agent, o, c, key)
      PROVE  CommercialStep
  <2>1. /\ links' = [links EXCEPT ![o] = @ \cup {NewLink(c, key, agent)}]
        /\ opp' = opp /\ stages' = stages /\ owners' = owners
        /\ UNCHANGED quoteVars /\ UNCHANGED meetingVars /\ grants' = grants
    BY <1>7 DEF LinkConversation
  <2>2. NewLink(c, key, agent) \in Link
    BY DEF NewLink, Link
  <2>3. LinksTyped'
    BY <2>1, <2>2 DEF LinksTyped
  <2>4. OppTyped' /\ \A p \in Opportunities : OppStep(p)
    BY <2>1 DEF OppTyped, OppStep, OppKept
  <2>5. QED
    BY <2>1, <2>3, <2>4, QuoteFrame, MeetingFrame DEF CommercialStep, OppSide, GrantsTyped
<1>8. ASSUME NEW admin \in Admins, NEW agent \in Agents, NEW q \in Requests,
             NEW o \in Opportunities, NEW status \in {"unavailable", "review_required"},
             CreateQuoteRequest(admin, agent, q, o, status)
      PROVE  CommercialStep
  <2>1. /\ RequestQuote(q, o, agent, admin, status) /\ quotes' = quotes
        /\ UNCHANGED oppVars /\ UNCHANGED meetingVars /\ grants' = grants
    BY <1>8 DEF CreateQuoteRequest
  <2>2. QED
    BY <2>1, RequestSteps, OppFrame, MeetingFrame DEF CommercialStep, GrantsTyped
<1>9. ASSUME NEW admin \in Admins, NEW agent \in Agents, NEW q \in Requests,
             NEW reference \in References, NEW expected, NEW key \in FreshOrUsed(quotes[q]),
             CreateQuoteVersion(admin, agent, q, expected, reference, key)
      PROVE  CommercialStep
  <2>1. /\ IssueVersion(q, agent, admin, expected, reference, key)
        /\ UNCHANGED oppVars /\ UNCHANGED meetingVars /\ grants' = grants
    BY <1>9 DEF CreateQuoteVersion
  <2>2. key \in Nat
    <3>1. quotes[q] \in Seq(QuoteVersion)
      BY DEF QuoteTyped
    <3>2. QED
      BY <3>1, KeysNatural
  <2>3. QED
    BY <2>1, <2>2, IssueSteps, OppFrame, MeetingFrame DEF CommercialStep, GrantsTyped
<1>10. ASSUME NEW admin \in Admins, NEW o \in Opportunities, NEW c \in Conversations,
              NEW operator \in Admins \cup {None}, CreateOpportunity(admin, o, c, operator)
       PROVE  CommercialStep
  <2>1. /\ Create(o, c, operator) /\ UNCHANGED quoteVars /\ UNCHANGED meetingVars
        /\ grants' = grants
    BY <1>10 DEF CreateOpportunity
  <2>2. QED
    BY <2>1, CreateSteps, QuoteFrame, MeetingFrame DEF CommercialStep, GrantsTyped
<1>11. ASSUME NEW admin \in Admins, FinishMeetingCommand(admin)
       PROVE  CommercialStep
  <2>1. UNCHANGED quoteVars /\ grants' = grants
    BY <1>11 DEF FinishMeetingCommand
  <2>2. PendingFits(admin) /\ LockFits(admin)
    OBVIOUS
  <2>3. QED
    BY <1>11, <2>1, <2>2, FinishSteps, QuoteFrame DEF CommercialStep, GrantsTyped
<1>12. ASSUME NEW admin \in Admins, RefuseMeetingCommand(admin)
       PROVE  CommercialStep
  <2>1. /\ UNCHANGED oppVars /\ UNCHANGED quoteVars /\ grants' = grants
        /\ meeting' = meeting /\ events' = events /\ pending' = [pending EXCEPT ![admin] = None]
    BY <1>12 DEF RefuseMeetingCommand
  <2>2. MeetingTyped' /\ \A a \in Admins : PendingStep(a)
    BY <2>1 DEF MeetingTyped, PendingStep, Dropped
  <2>3. MeetingSide
    BY <2>1, <2>2 DEF MeetingSide, MeetingStep, MeetingKept
  <2>4. QED
    BY <2>1, <2>3, OppFrame, QuoteFrame DEF CommercialStep, GrantsTyped
<1>13. ASSUME NEW admin \in Admins, AuthorizeMeetingCommand(admin)
       PROVE  CommercialStep
  <2>1. UNCHANGED oppVars /\ UNCHANGED quoteVars /\ grants' = grants
    BY <1>13 DEF AuthorizeMeetingCommand
  <2>2. MeetingSide
    BY <1>13, CheckSteps
  <2>3. QED
    BY <2>1, <2>2, OppFrame, QuoteFrame DEF CommercialStep, GrantsTyped
<1> HIDE DEF CommercialInv
<1>14. CASE Next
  <2>1. CASE \E admin \in Admins, agent \in Agents, o \in Opportunities :
               /\ opp[o] # None
               /\ \/ \E expected \in Shown(opp[o].version), target \in Targets,
                        key \in FreshOrUsed(stages[o]) :
                      TransitionOpportunity(admin, agent, o, target, expected, key)
                  \/ \E expected \in Shown(opp[o].version), to \in Agents,
                        operator \in Admins \cup {None},
                        key \in FreshOrUsed(owners[o]) :
                      ReassignOpportunity(admin, agent, o, to, operator, expected, key)
                  \/ \E c \in Conversations, key \in {1, 2} :
                      LinkConversation(admin, agent, o, c, key)
    BY <1>5, <1>6, <1>7, <2>1, Zenon
  <2>2. CASE \E admin \in Admins, agent \in Agents, m \in Meetings :
               \/ \E o \in Opportunities, c \in Conversations \cup {None} :
                    CreateMeeting(admin, agent, m, o, c)
               \/ \E key \in Len(events[m])..(Len(events[m]) + UnderWay) :
                    MeetingRequest(admin, agent, m, key)
    BY <1>3, <1>4, <2>2, Zenon
  <2>3. CASE \E admin \in Admins, agent \in Agents, q \in Requests :
               \/ \E o \in Opportunities, status \in {"unavailable", "review_required"} :
                    CreateQuoteRequest(admin, agent, q, o, status)
               \/ \E reference \in References :
                  /\ request[q] # None
                  /\ \E expected \in Shown(request[q].version),
                        key \in FreshOrUsed(quotes[q]) :
                    CreateQuoteVersion(admin, agent, q, expected, reference, key)
    BY <1>8, <1>9, <2>3, Zenon
  <2>4. CASE \E admin \in Admins :
               \/ \E agent \in Agents : SetGrant(admin, agent) \/ RevokeGrant(admin, agent)
               \/ \E o \in Opportunities, c \in Conversations,
                     operator \in Admins \cup {None} :
                    CreateOpportunity(admin, o, c, operator)
               \/ AuthorizeMeetingCommand(admin)
               \/ FinishMeetingCommand(admin)
               \/ RefuseMeetingCommand(admin)
    BY <1>2, <1>10, <1>11, <1>12, <1>13, <2>4, Zenon
  <2>5. QED
    BY <1>14, <2>1, <2>2, <2>3, <2>4, Zenon DEF Next
<1>15. QED
  BY <1>1, <1>14

\* Whatever a step does to a request, it counts its versions.
LEMMA QuoteStepHolds ==
  ASSUME QuoteTyped, NEW q \in Requests, QuoteHolds(q), QuoteStep(q)
  PROVE  QuoteHolds(q)'
<1>1. CASE QuoteKept(q)
  BY <1>1 DEF QuoteKept, QuoteHolds
<1>2. CASE QuoteAsked(q)
  <2>1. PICK row \in QuoteRequest :
          /\ request[q] = None /\ request'[q] = row /\ quotes'[q] = quotes[q]
          /\ row.version = 0 /\ row.status # "issued"
    BY <1>2 DEF QuoteAsked
  <2>2. quotes'[q] = << >> /\ row # None
    BY <2>1, CommercialAssumption DEF QuoteHolds
  <2>3. QED
    BY <2>1, <2>2 DEF QuoteHolds
<1>3. CASE QuoteIssued(q)
  <2>1. PICK row \in QuoteRequest, e \in QuoteVersion :
          /\ request[q] # None /\ request'[q] = row
          /\ row.version = request[q].version + 1 /\ row.status = "issued"
          /\ e.version = Len(quotes[q]) + 1 /\ ~HasKey(quotes[q], e.key)
          /\ quotes'[q] = Append(quotes[q], e)
    BY <1>3 DEF QuoteIssued
  <2>2. PICK s \in Seq(QuoteVersion) : s = quotes[q]
    BY DEF QuoteTyped
  <2>3. PICK n \in Nat : n = Len(s) /\ DOMAIN s = 1..n
    OBVIOUS
  <2>4. PICK new : new = Append(s, e)
    OBVIOUS
  <2>5. /\ Len(new) = n + 1 /\ DOMAIN new = DOMAIN s \cup {n + 1} /\ new[n + 1] = e
        /\ \A i \in DOMAIN s : new[i] = s[i]
    BY <2>3, <2>4
  <2>6. row # None /\ row.version = n + 1 /\ \A i \in DOMAIN s : s[i].version = i
    BY <2>1, <2>2, <2>3, CommercialAssumption DEF QuoteHolds
  <2>7. \A i \in DOMAIN new : new[i].version = i
    BY <2>1, <2>2, <2>3, <2>5, <2>6
  <2>8. quotes'[q] = new /\ n + 1 > 0
    BY <2>1, <2>2, <2>4
  <2>9. QED
    BY <2>1, <2>5, <2>6, <2>7, <2>8 DEF QuoteHolds
<1>4. QED
  BY <1>1, <1>2, <1>3 DEF QuoteStep

\* The owner after a step is the one the ownership log ends with.
LEMMA OwnerThen ==
  ASSUME OppTyped', NEW o \in Opportunities, opp'[o] # None, OpportunityHistory(o)'
  PROVE  OwnerAt(o, opp[o].version)' = <<opp'[o].agent, opp'[o].operator>>
<1>1. owners'[o] \in Seq(OwnershipEvents) /\ opp'[o] \in Opportunity
  BY DEF OppTyped
<1>2. PICK n \in Nat : n = opp'[o].version
  BY <1>1 DEF Opportunity
<1>3. PICK t \in Seq(OwnershipEvents) : t = owners'[o]
  BY <1>1
<1>4. /\ LogFits(t, n) /\ t[Len(t)].agent = opp'[o].agent
      /\ t[Len(t)].operator = opp'[o].operator
  BY <1>2, <1>3 DEF OpportunityHistory
<1>5. n \in Nat /\ n <= n
  OBVIOUS
<1>6. Newest(t, n) = Len(t)
  BY <1>4, <1>5, NewestLast
<1>7. QED
  BY <1>2, <1>3, <1>4, <1>6 DEF OwnerAt

\* Events keep their owner: the versions they name are past.
LEMMA OwnedStays ==
  ASSUME NEW o \in Opportunities, opp[o] # None, opp[o].version \in Nat, Forward(o),
         NEW log \in Seq(MeetingEvents), OwnedThen(o, log)
  PROVE  OwnedThen(o, log)'
<1>1. PICK n \in Nat, k \in Nat : n = opp[o].version /\ k = opp'[o].version /\ n <= k
  BY DEF Forward
<1>2. ASSUME NEW i \in DOMAIN log
      PROVE  /\ log[i].oppVersion <= k
             /\ OwnerAt(o, log[i].oppVersion)' = <<log[i].agent, log[i].operator>>
  <2>1. log[i] \in MeetingEvents
    OBVIOUS
  <2>2. PICK v \in Nat : v = log[i].oppVersion
    BY <2>1 DEF MeetingEvents
  <2>3. v <= n /\ OwnerAt(o, v) = <<log[i].agent, log[i].operator>>
    BY <1>1, <2>2 DEF OwnedThen
  <2>4. v \in 0..n /\ v <= k
    BY <1>1, <2>3
  <2>5. OwnerAt(o, v)' = OwnerAt(o, v)
    BY <1>1, <2>4 DEF Forward
  <2>6. QED
    BY <2>2, <2>3, <2>4, <2>5
<1>3. QED
  BY <1>1, <1>2 DEF OwnedThen

\* Whatever a step does to a meeting keeps its history.
LEMMA MeetingStepHolds ==
  ASSUME OppTyped, OppTyped', MeetingTyped,
         \A o \in Opportunities : OppHolds(o)' /\ Forward(o),
         NEW m \in Meetings, MeetingHolds(m), MeetingStep(m)
  PROVE  MeetingHolds(m)'
<1>1. CASE MeetingKept(m)
  <2>1. CASE meeting[m] = None
    BY <1>1, <2>1 DEF MeetingKept, MeetingHolds
  <2>2. CASE meeting[m] # None
    <3>1. PICK o \in Opportunities : o = meeting[m].opportunity
      BY <2>2, MeetingTypes
    <3>2. PICK log \in Seq(MeetingEvents) : log = events[m]
      BY MeetingTypes
    <3>3. opp[o] # None /\ OwnedThen(o, log)
      BY <2>2, <3>1, <3>2 DEF MeetingHolds
    <3>4. opp[o].version \in Nat /\ Forward(o)
      BY <3>3, OppTypes
    <3>5. OwnedThen(o, log)'
      BY <3>3, <3>4, OwnedStays
    <3>6. opp'[o] # None
      BY <3>3, <3>4 DEF Forward
    <3>7. OwnedThen(meeting[m].opportunity, events[m])'
      BY <1>1, <3>1, <3>2, <3>5 DEF MeetingKept, OwnedThen
    <3>8. QED
      BY <1>1, <2>2, <3>1, <3>6, <3>7 DEF MeetingKept, MeetingHolds
  <2>3. QED
    BY <2>1, <2>2
<1>2. CASE MeetingMade(m)
  <2>1. PICK row \in Meeting, e \in MeetingEvents :
          /\ meeting[m] = None /\ meeting'[m] = row /\ events'[m] = <<e>>
          /\ row.version = 0 /\ row.status = "requested" /\ SlotHolds(row)
          /\ opp'[row.opportunity] # None /\ ReceiptOf(e, row, opp'[row.opportunity])
    BY <1>2 DEF MeetingMade
  <2>2. PICK o \in Opportunities : o = row.opportunity
    BY DEF Meeting
  <2>3. OpportunityHistory(o)' /\ opp'[o] # None
    BY <2>1, <2>2 DEF OppHolds
  <2>4. OwnerAt(o, opp[o].version)' = <<opp'[o].agent, opp'[o].operator>>
    BY <2>3, OwnerThen
  <2>5. PICK log : log = <<e>> /\ Len(log) = 1 /\ DOMAIN log = {1} /\ log[1] = e
    <3>1. Len(<<e>>) = 1 /\ DOMAIN <<e>> = {1} /\ <<e>>[1] = e
      OBVIOUS
    <3>2. QED
      BY <3>1
  <2>6. /\ e.version = 0 /\ e.to = row.status /\ e.proposal = row.proposal
        /\ e.oppVersion = opp'[o].version /\ e.agent = opp'[o].agent
        /\ e.operator = opp'[o].operator
    BY <2>1, <2>2 DEF ReceiptOf
  <2>7. OwnedThen(o, log)'
    <3>1. OwnerAt(o, e.oppVersion)' = OwnerAt(o, opp[o].version)'
      BY <2>6 DEF OwnerAt
    <3>2. e.oppVersion <= opp'[o].version
      <4>1. e.oppVersion \in Nat
        BY DEF MeetingEvents
      <4>2. QED
        BY <2>6, <4>1
    <3>3. QED
      BY <2>4, <2>5, <2>6, <3>1, <3>2 DEF OwnedThen
  <2>8. Chained(log) /\ EndsAs(log, row)
    BY <2>1, <2>5, <2>6 DEF Chained, EndsAs
  <2>9. row # None
    BY CommercialAssumption
  <2>10. OwnedThen(meeting[m].opportunity, events[m])'
    BY <2>1, <2>2, <2>5, <2>7 DEF OwnedThen
  <2>11. QED
    BY <2>1, <2>2, <2>3, <2>5, <2>8, <2>9, <2>10 DEF MeetingHolds
<1>3. CASE MeetingMoved(m)
  <2>1. PICK row \in Meeting, e \in MeetingEvents :
          /\ meeting[m] # None /\ meeting'[m] = row /\ events'[m] = Append(events[m], e)
          /\ row.opportunity = meeting[m].opportunity /\ row.version = meeting[m].version + 1
          /\ SlotHolds(row) /\ e.from = meeting[m].status
          /\ opp'[row.opportunity] # None /\ ReceiptOf(e, row, opp'[row.opportunity])
    BY <1>3 DEF MeetingMoved
  <2>2. PICK o \in Opportunities : o = row.opportunity
    BY DEF Meeting
  <2>3. OpportunityHistory(o)' /\ opp'[o] # None /\ opp[o] # None
    BY <2>1, <2>2 DEF OppHolds, MeetingHolds
  <2>4. OwnerAt(o, opp[o].version)' = <<opp'[o].agent, opp'[o].operator>>
    BY <2>3, OwnerThen
  <2>5. PICK log \in Seq(MeetingEvents) : log = events[m]
    BY MeetingTypes
  <2>6. PICK n \in Nat : n = meeting[m].version
    BY <2>1, MeetingTypes
  <2>7. /\ Chained(log) /\ OwnedThen(o, log) /\ Len(log) = n + 1
        /\ log[n + 1].to = meeting[m].status
    BY <2>1, <2>2, <2>5, <2>6 DEF MeetingHolds, EndsAs
  <2>8. PICK new : new = Append(log, e)
    OBVIOUS
  <2>9. /\ Len(new) = n + 2 /\ DOMAIN new = DOMAIN log \cup {n + 2} /\ new[n + 2] = e
        /\ DOMAIN log = 1..(n + 1) /\ \A i \in DOMAIN log : new[i] = log[i]
    BY <2>7, <2>8
  <2>10. /\ e.version = n + 1 /\ e.to = row.status /\ e.proposal = row.proposal
         /\ e.oppVersion = opp'[o].version /\ e.agent = opp'[o].agent
         /\ e.operator = opp'[o].operator /\ row.version = n + 1
    BY <2>1, <2>2, <2>6 DEF ReceiptOf
  <2>11. Chained(new)
    <3>1. ASSUME NEW i \in DOMAIN log
          PROVE  new[i].version = i - 1 /\ (i > 1 => new[i].from = new[i - 1].to)
      <4>1. i > 1 => i - 1 \in DOMAIN log
        BY <2>9, <3>1
      <4>2. QED
        BY <2>7, <2>9, <4>1 DEF Chained
    <3>2. new[n + 2].version = n + 2 - 1 /\ new[n + 2].from = new[n + 2 - 1].to
      <4>1. n + 2 - 1 = n + 1 /\ n + 1 \in DOMAIN log
        BY <2>9
      <4>2. QED
        BY <2>1, <2>7, <2>9, <2>10, <4>1
    <3>3. QED
      BY <2>9, <3>1, <3>2 DEF Chained
  <2>12. OwnedThen(o, new)'
    <3>1. opp[o].version \in Nat /\ Forward(o)
      BY <2>3, OppTypes
    <3>2. OwnedThen(o, log)'
      BY <2>3, <2>7, <3>1, OwnedStays
    <3>3. OwnerAt(o, e.oppVersion)' = OwnerAt(o, opp[o].version)'
      BY <2>10 DEF OwnerAt
    <3>4. e.oppVersion <= opp'[o].version
      <4>1. e.oppVersion \in Nat
        BY DEF MeetingEvents
      <4>2. QED
        BY <2>10, <4>1
    <3>5. QED
      BY <2>4, <2>9, <2>10, <3>2, <3>3, <3>4 DEF OwnedThen
  <2>13. EndsAs(new, row)
    BY <2>9, <2>10 DEF EndsAs
  <2>14. row # None /\ events'[m] = new
    BY <2>1, <2>5, <2>8, CommercialAssumption
  <2>15. OwnedThen(meeting[m].opportunity, events[m])'
    BY <2>1, <2>2, <2>12, <2>14 DEF OwnedThen
  <2>16. QED
    BY <2>1, <2>2, <2>3, <2>11, <2>13, <2>14, <2>15 DEF MeetingHolds
<1>4. QED
  BY <1>1, <1>2, <1>3 DEF MeetingStep

\* Copies in flight get older as meetings move, and never wrong.
LEMMA PendingStepHolds ==
  ASSUME MeetingTyped, MeetingTyped', \A m \in Meetings : MeetingStep(m),
         NEW a \in Admins, PendingFits(a), PendingStep(a)
  PROVE  PendingFits(a)'
<1>1. ASSUME NEW m \in Meetings, meeting[m] # None
      PROVE  /\ meeting'[m] # None /\ meeting'[m].opportunity = meeting[m].opportunity
             /\ \/ meeting'[m] = meeting[m]
                \/ meeting'[m].version = meeting[m].version + 1
  BY <1>1, CommercialAssumption DEF MeetingStep, MeetingKept, MeetingMade, MeetingMoved
<1>2. ASSUME NEW c \in MeetingCommand, NEW m \in Meetings, m = c.meeting, meeting[m] # None,
             c.seen.opportunity = meeting[m].opportunity, CopyAllows(c),
             c.seen.version <= meeting[m].version,
             c.seen.version = meeting[m].version => c.seen = meeting[m],
             pending'[a] = c
      PROVE  PendingFits(a)'
  <2>1. PICK n \in Nat, k \in Nat : n = c.seen.version /\ k = meeting[m].version
    BY <1>2, MeetingTypes DEF MeetingCommand, Meeting
  <2>2. CASE meeting'[m] = meeting[m]
    BY <1>2, <2>2 DEF PendingFits
  <2>3. CASE meeting'[m].version = k + 1
    <3>1. n <= k + 1 /\ n # k + 1
      BY <1>2, <2>1
    <3>2. QED
      BY <1>1, <1>2, <2>1, <2>3, <3>1 DEF PendingFits
  <2>4. QED
    BY <1>1, <1>2, <2>1, <2>2, <2>3
<1>3. CASE pending'[a] = pending[a]
  <2>1. CASE pending[a] = None
    BY <1>3, <2>1 DEF PendingFits
  <2>2. CASE pending[a] # None
    <3>1. PICK c \in MeetingCommand : c = pending[a]
      BY <2>2 DEF MeetingTyped
    <3>2. PICK m \in Meetings : m = c.meeting
      BY DEF MeetingCommand
    <3>3. /\ meeting[m] # None /\ c.seen.opportunity = meeting[m].opportunity /\ CopyAllows(c)
          /\ c.seen.version <= meeting[m].version
          /\ c.seen.version = meeting[m].version => c.seen = meeting[m]
          /\ pending'[a] = c
      BY <1>3, <2>2, <3>1, <3>2 DEF PendingFits
    <3>4. QED
      BY <1>2, <3>2, <3>3
  <2>3. QED
    BY <2>1, <2>2
<1>4. CASE Dropped(a)
  BY <1>4 DEF PendingFits, Dropped
<1>5. CASE Begun(a)
  <2>1. PICK c \in MeetingCommand :
             /\ pending[a] = None /\ pending'[a] = c /\ meeting[c.meeting] # None
             /\ c.seen = meeting[c.meeting] /\ CopyAllows(c)
    BY <1>5 DEF Begun
  <2>2. PICK m \in Meetings : m = c.meeting
    BY DEF MeetingCommand
  <2>3. c.seen.version <= meeting[m].version
    <3>1. PICK n \in Nat : n = meeting[m].version
      BY <2>1, <2>2, MeetingTypes
    <3>2. QED
      BY <2>1, <2>2, <3>1
  <2>4. QED
    BY <1>2, <2>1, <2>2, <2>3
<1>6. CASE Checked(a)
  <2>1. PICK d \in MeetingCommand : d = pending[a] /\ d # None
    BY <1>6 DEF MeetingTyped, Checked
  <2>2. PICK c \in MeetingCommand :
             /\ c = CommandLocked(d) /\ c.meeting = d.meeting /\ c.seen = d.seen
             /\ (CopyAllows(d) => CopyAllows(c))
    BY LockedFields
  <2>3. PICK m \in Meetings : m = c.meeting
    BY DEF MeetingCommand
  <2>4. /\ meeting[m] # None /\ c.seen.opportunity = meeting[m].opportunity /\ CopyAllows(c)
        /\ c.seen.version <= meeting[m].version
        /\ c.seen.version = meeting[m].version => c.seen = meeting[m]
    BY <2>1, <2>2, <2>3 DEF PendingFits
  <2>5. pending'[a] = c
    BY <1>6, <2>1, <2>2 DEF Checked
  <2>6. QED
    BY <1>2, <2>3, <2>4, <2>5
<1>7. QED
  BY <1>3, <1>4, <1>5, <1>6 DEF PendingStep

\* The owner a command was checked against waits for its lock.
LEMMA LockStepHolds ==
  ASSUME MeetingTyped, MeetingTyped', \A o \in Opportunities : OppStep(o),
         NEW a \in Admins, LockFits(a), PendingStep(a)
  PROVE  LockFits(a)'
<1>1. CASE pending'[a] = pending[a]
  <2>1. SUFFICES ASSUME pending[a] # None, pending[a].locked
                 PROVE  Entitled(a, pending[a])'
    BY <1>1 DEF LockFits
  <2>2. PICK c \in MeetingCommand : c = pending[a]
    BY <2>1 DEF MeetingTyped
  <2>3. PICK o \in Opportunities : o = c.seen.opportunity
    BY DEF MeetingCommand, Meeting
  <2>4. Owns(o, c.agent, a) /\ opp[o] # None /\ ~OpportunityFree(o)
    BY <2>1, <2>2, <2>3 DEF LockFits, Entitled, Owns, OpportunityFree
  <2>5. OppKept(o) \/ OppStaged(o)
    BY <2>4 DEF OppStep, OppCreated, OppOwned
  <2>6. opp'[o] # None /\ opp'[o].agent = opp[o].agent /\ opp'[o].operator = opp[o].operator
    <3>1. CASE OppKept(o)
      BY <2>4, <3>1 DEF OppKept
    <3>2. CASE OppStaged(o)
      BY <3>2, CommercialAssumption DEF OppStaged
    <3>3. QED
      BY <2>5, <3>1, <3>2
  <2>7. Owns(o, c.agent, a)'
    BY <2>4, <2>6 DEF Owns
  <2>8. pending'[a] = c
    BY <1>1, <2>2
  <2>9. QED
    BY <2>3, <2>7, <2>8 DEF Entitled, Owns
<1>2. CASE Dropped(a)
  BY <1>2 DEF Dropped, LockFits
<1>3. CASE Begun(a)
  BY <1>3 DEF Begun, LockFits
<1>4. CASE Checked(a)
  <2>1. PICK d \in MeetingCommand : d = pending[a] /\ d # None
    BY <1>4 DEF MeetingTyped, Checked
  <2>2. PICK c : c = CommandLocked(d) /\ c.seen = d.seen /\ c.agent = d.agent
    BY LockedFields
  <2>3. pending'[a] = c /\ opp' = opp /\ Entitled(a, d)
    BY <1>4, <2>1, <2>2 DEF Checked
  <2>4. QED
    BY <2>2, <2>3 DEF LockFits, Entitled, Owns
<1>5. QED
  BY <1>1, <1>2, <1>3, <1>4 DEF PendingStep

\* Every step of the commercial records keeps their invariant.
LEMMA CommercialNextKeeps == CommercialInv /\ [Next]_vars => CommercialInv'
<1> SUFFICES ASSUME CommercialInv, [Next]_vars PROVE CommercialInv'
  OBVIOUS
<1>1. OppSide /\ QuoteSide /\ MeetingSide /\ GrantsTyped'
  BY CommercialSteps DEF CommercialStep
<1>2. OppTyped /\ QuoteTyped /\ MeetingTyped /\ OppTyped' /\ MeetingTyped'
  BY <1>1 DEF CommercialInv, OppSide, MeetingSide
<1>3. \A o \in Opportunities : OppHolds(o)' /\ Forward(o)
  <2>1. \A o \in Opportunities : OppHolds(o) /\ OppStep(o)
    BY <1>1 DEF CommercialInv, OppSide
  <2>2. QED
    BY <1>2, <2>1, OppStepHolds
<1>4. \A q \in Requests : QuoteHolds(q)'
  <2>1. \A q \in Requests : QuoteHolds(q) /\ QuoteStep(q)
    BY <1>1 DEF CommercialInv, QuoteSide
  <2>2. QED
    BY <1>2, <2>1, QuoteStepHolds
<1>5. \A m \in Meetings : MeetingHolds(m) /\ MeetingStep(m)
  BY <1>1 DEF CommercialInv, MeetingSide
<1>6. \A m \in Meetings : MeetingHolds(m)'
  BY <1>2, <1>3, <1>5, MeetingStepHolds
<1>7. \A a \in Admins : PendingFits(a)' /\ LockFits(a)'
  <2>1. \A a \in Admins : PendingFits(a) /\ LockFits(a) /\ PendingStep(a)
    BY <1>1 DEF CommercialInv, MeetingSide
  <2>2. \A o \in Opportunities : OppStep(o)
    BY <1>1 DEF OppSide
  <2>3. QED
    BY <1>2, <1>5, <2>1, <2>2, PendingStepHolds, LockStepHolds
<1>8. QED
  BY <1>1, <1>3, <1>4, <1>6, <1>7 DEF CommercialInv, OppSide, QuoteSide, MeetingSide

\* The inductive invariant of the commercial records: an opportunity is what its
\* two logs say at its version, a quote request counts its versions, a meeting is
\* what its events add up to under the owners of their time, a meeting command in
\* flight holds an older copy of its meeting or the meeting itself, and one that has
\* the opportunity's lock still has the owner it was checked against
\* (services/commercial/opportunities.py, quotes.py, meetings.py).
THEOREM CommercialInvariance == Spec => []CommercialInv
<1>1. QED
  BY CommercialInitHolds, CommercialNextKeeps, PTL DEF Spec

\* The history of a meeting has no gap and no fork, its events stand under the owner
\* of their time, and its slot belongs to the proposal in force
\* (services/commercial/meetings.py).
THEOREM MeetingsKeepHistory == Spec => []MeetingHistory
<1>1. CommercialInv => MeetingHistory
  <2> SUFFICES ASSUME CommercialInv PROVE MeetingHistory
    OBVIOUS
  <2>1. ASSUME NEW m \in Meetings, NEW i \in DOMAIN events[m]
        PROVE  /\ events[m][i].version = i - 1
               /\ i > 1 => events[m][i].from = events[m][i - 1].to
               /\ OwnerAt(meeting[m].opportunity, events[m][i].oppVersion)
                    = <<events[m][i].agent, events[m][i].operator>>
    <3>1. meeting[m] # None
      <4>1. MeetingHolds(m)
        BY DEF CommercialInv
      <4>2. QED
        BY <2>1, <4>1 DEF MeetingHolds
    <3>2. Chained(events[m]) /\ OwnedThen(meeting[m].opportunity, events[m])
      BY <3>1 DEF CommercialInv, MeetingHolds
    <3>3. QED
      BY <3>2 DEF Chained, OwnedThen
  <2>2. \A o \in Opportunities : StagesOwned(o)
    BY DEF CommercialInv, OppHolds
  <2>3. \A m \in Meetings : meeting[m] # None => SlotHolds(meeting[m])
    BY DEF CommercialInv, MeetingHolds
  <2>4. QED
    BY <2>1, <2>2, <2>3 DEF MeetingHistory, StagesOwned, SlotHolds
<1>2. QED
  BY <1>1, CommercialInvariance, PTL

\* The owner a meeting command was checked against is still the owner when it
\* commits, whatever the other commands of the panel do between the check and the
\* commit, and a meeting is scheduled with its opportunity open and moved along
\* (meetings.py _lock_owned_opportunity, schedule_manual).
THEOREM CommandsAuthorized == Spec => AuthorizedAtCommit
<1>1. ASSUME CommercialInv, [Next]_vars
      PROVE  /\ [\A a \in Admins :
                   (pending[a] # None /\ pending'[a] = None /\ events' # events) =>
                     Owns(pending[a].seen.opportunity, pending[a].agent, a)]_vars
             /\ [\A m \in Meetings :
                   (meeting'[m] # meeting[m] /\ meeting'[m].status = "scheduled") =>
                     /\ opp'[meeting'[m].opportunity].stage = "meeting_scheduled"
                     /\ opp[meeting'[m].opportunity].stage
                          \notin Terminal \cup {"paused"}]_vars
  <2>1. MeetingSide
    BY <1>1, CommercialSteps DEF CommercialStep
  <2>2. ASSUME NEW a \in Admins, pending[a] # None, pending'[a] = None, events' # events
        PROVE  Entitled(a, pending[a])
    <3>1. PendingStep(a)
      BY <2>1 DEF MeetingSide
    <3>2. QED
      BY <2>2, <3>1 DEF PendingStep, Dropped, Begun, Checked
  <2>3. ASSUME NEW m \in Meetings, meeting'[m] # meeting[m], meeting'[m].status = "scheduled"
        PROVE  ScheduledOpen(meeting'[m].opportunity)
    <3>1. MeetingStep(m)
      BY <2>1 DEF MeetingSide
    <3>2. QED
      BY <2>3, <3>1 DEF MeetingStep, MeetingKept, MeetingMade, MeetingMoved
  <2>4. QED
    BY <2>2, <2>3 DEF Entitled, ScheduledOpen
<1>2. QED
  BY <1>1, CommercialInvariance, PTL DEF Spec, AuthorizedAtCommit

-----------------------------------------------------------------------------
(* Commercial records implement CommandLog.                                 *)

\* The keys of the events of a version.
Tagged(t, log, v) == {<<t, log[i].key>> : i \in {j \in DOMAIN log : log[j].version = v}}

\* An event under a key of its own, of the version after n.
FreshKey(t, s, n, new, k) ==
  /\ \A v \in 0..n : Tagged(t, new, v) = Tagged(t, s, v) /\ <<t, k>> \notin Tagged(t, s, v)
  /\ <<t, k>> \in Tagged(t, new, n + 1)

\* The key of a new event is of its version and of no earlier one.
LEMMA KeyIsFresh ==
  ASSUME NEW T, NEW s \in Seq(T), NEW n \in Nat, LogFits(s, n),
         NEW e \in T, Follows(e, n), ~HasKey(s, e.key), NEW new, new = Append(s, e), NEW t
  PROVE  FreshKey(t, s, n, new, e.key)
<1>1. \A v \in 0..n : VersionKept(s, e, v)
  BY NewestKept
<1>2. PICK m \in Nat : m = Len(s) + 1
  OBVIOUS
<1>3. /\ DOMAIN new = DOMAIN s \cup {m} /\ new[m] = e
      /\ \A i \in DOMAIN s : new[i] = s[i]
  BY <1>2
<1>4. ASSUME NEW v \in 0..n PROVE Tagged(t, new, v) = Tagged(t, s, v)
  <2>1. {i \in DOMAIN new : new[i].version = v} = {i \in DOMAIN s : s[i].version = v}
    BY <1>1 DEF VersionKept
  <2>2. QED
    BY <1>3, <2>1 DEF Tagged
<1>5. ASSUME NEW v \in 0..n PROVE <<t, e.key>> \notin Tagged(t, s, v)
  <2>1. ASSUME NEW i \in DOMAIN s PROVE s[i].key # e.key
    BY DEF HasKey
  <2>2. QED
    BY <2>1 DEF Tagged
<1>6. <<t, e.key>> \in Tagged(t, new, n + 1)
  <2>1. new[m].version = n + 1 /\ m \in DOMAIN new
    BY <1>3 DEF Follows
  <2>2. QED
    BY <1>3, <2>1 DEF Tagged
<1>7. QED
  BY <1>4, <1>5, <1>6 DEF FreshKey

\* The entries of an opportunity's log.
KeysAt(o, v) == Tagged("stage", stages[o], v) \cup Tagged("owner", owners[o], v)
Entry(o, v) == [key |-> KeysAt(o, v), value |-> <<StageAt(o, v), OwnerAt(o, v), v>>]

\* The log goes on with one entry under new keys.
OppGrows(o) ==
  /\ opp[o] # None
  /\ \A v \in 0..opp[o].version : /\ KeysAt(o, v)' = KeysAt(o, v)
                                  /\ KeysAt(o, opp[o].version)' # KeysAt(o, v)

\* A change of stage adds one entry under a new key.
LEMMA StagedGrows ==
  ASSUME OppTyped, NEW o \in Opportunities, OppHolds(o), OppStaged(o)
  PROVE  OppGrows(o)
<1>1. PICK row \in Opportunity, e \in StageEvents :
        /\ opp[o] # None /\ opp'[o] = row /\ row.version = opp[o].version + 1
        /\ e.version = row.version /\ ~HasKey(stages[o], e.key)
        /\ stages'[o] = Append(stages[o], e) /\ owners'[o] = owners[o]
  BY DEF OppStaged
<1>2. PICK n \in Nat : n = opp[o].version
  BY <1>1, OppTypes
<1>3. PICK s \in Seq(StageEvents), new \in Seq(StageEvents) : s = stages[o] /\ new = Append(s, e)
  <2>1. stages[o] \in Seq(StageEvents)
    BY OppTypes
  <2>2. Append(stages[o], e) \in Seq(StageEvents)
    BY <2>1
  <2>3. QED
    BY <2>1, <2>2
<1>4. LogFits(s, n) /\ Follows(e, n) /\ ~HasKey(s, e.key) /\ new = Append(s, e)
  BY <1>1, <1>2, <1>3 DEF OppHolds, OpportunityHistory, Follows
<1>5. FreshKey("stage", s, n, new, e.key)
  BY <1>4, KeyIsFresh
<1>6. stages[o] = s /\ stages'[o] = new /\ opp'[o].version = n + 1
  BY <1>1, <1>2, <1>3
<1>7. ASSUME NEW v \in 0..n
      PROVE  KeysAt(o, v)' = KeysAt(o, v) /\ KeysAt(o, n + 1)' # KeysAt(o, v)
  <2>1. KeysAt(o, v)' = KeysAt(o, v)
    BY <1>1, <1>5, <1>6 DEF FreshKey, KeysAt
  <2>2. <<"stage", e.key>> \in KeysAt(o, n + 1)'
    BY <1>5, <1>6 DEF FreshKey, KeysAt
  <2>3. <<"stage", e.key>> \notin Tagged("stage", stages[o], v)
    BY <1>5, <1>6 DEF FreshKey
  <2>4. <<"stage", e.key>> \notin Tagged("owner", owners[o], v)
    BY DEF Tagged
  <2>5. QED
    BY <2>1, <2>2, <2>3, <2>4 DEF KeysAt
<1>8. QED
  BY <1>1, <1>2, <1>6, <1>7 DEF OppGrows, KeysAt

\* A change of owner adds one entry under a new key.
LEMMA OwnedGrows ==
  ASSUME OppTyped, NEW o \in Opportunities, OppHolds(o), OppOwned(o)
  PROVE  OppGrows(o)
<1>1. PICK row \in Opportunity, e \in OwnershipEvents :
        /\ opp[o] # None /\ opp'[o] = row /\ row.version = opp[o].version + 1
        /\ e.version = row.version /\ ~HasKey(owners[o], e.key)
        /\ owners'[o] = Append(owners[o], e) /\ stages'[o] = stages[o]
  BY DEF OppOwned
<1>2. PICK n \in Nat : n = opp[o].version
  BY <1>1, OppTypes
<1>3. PICK s \in Seq(OwnershipEvents), new \in Seq(OwnershipEvents) : s = owners[o] /\ new = Append(s, e)
  <2>1. owners[o] \in Seq(OwnershipEvents)
    BY OppTypes
  <2>2. Append(owners[o], e) \in Seq(OwnershipEvents)
    BY <2>1
  <2>3. QED
    BY <2>1, <2>2
<1>4. LogFits(s, n) /\ Follows(e, n) /\ ~HasKey(s, e.key) /\ new = Append(s, e)
  BY <1>1, <1>2, <1>3 DEF OppHolds, OpportunityHistory, Follows
<1>5. FreshKey("owner", s, n, new, e.key)
  BY <1>4, KeyIsFresh
<1>6. owners[o] = s /\ owners'[o] = new /\ opp'[o].version = n + 1
  BY <1>1, <1>2, <1>3
<1>7. ASSUME NEW v \in 0..n
      PROVE  KeysAt(o, v)' = KeysAt(o, v) /\ KeysAt(o, n + 1)' # KeysAt(o, v)
  <2>1. KeysAt(o, v)' = KeysAt(o, v)
    BY <1>1, <1>5, <1>6 DEF FreshKey, KeysAt
  <2>2. <<"owner", e.key>> \in KeysAt(o, n + 1)'
    BY <1>5, <1>6 DEF FreshKey, KeysAt
  <2>3. <<"owner", e.key>> \notin Tagged("owner", owners[o], v)
    BY <1>5, <1>6 DEF FreshKey
  <2>4. <<"owner", e.key>> \notin Tagged("stage", stages[o], v)
    BY DEF Tagged
  <2>5. QED
    BY <2>1, <2>2, <2>3, <2>4 DEF KeysAt
<1>8. QED
  BY <1>1, <1>2, <1>6, <1>7 DEF OppGrows, KeysAt

\* The three logs, entry by entry.
OppLogged(o) ==
  IF opp[o] = None THEN OpportunityLog(o) = << >>
  ELSE /\ Len(OpportunityLog(o)) = opp[o].version + 1
       /\ DOMAIN OpportunityLog(o) = 1..(opp[o].version + 1)
       /\ \A i \in 1..(opp[o].version + 1) : OpportunityLog(o)[i] = Entry(o, i - 1)
       /\ StageAt(o, opp[o].version) = opp[o].stage
       /\ OwnerAt(o, opp[o].version) = <<opp[o].agent, opp[o].operator>>

FirstEntry(q) == [key |-> <<"request", q>>, value |-> <<0, FALSE>>]
QuoteEntry(e) == [key |-> <<"issue", e.key>>, value |-> <<e.version, TRUE>>]

QuoteLogged(q) ==
  IF request[q] = None THEN QuoteLog(q) = << >>
  ELSE /\ Len(QuoteLog(q)) = Len(quotes[q]) + 1
       /\ DOMAIN QuoteLog(q) = 1..(Len(quotes[q]) + 1)
       /\ QuoteLog(q)[1] = FirstEntry(q)
       /\ \A i \in DOMAIN quotes[q] : QuoteLog(q)[i + 1] = QuoteEntry(quotes[q][i])

MeetingEntry(e) == [key |-> e.key, value |-> <<e.version, e.to, e.proposal>>]

MeetingLogged(m) ==
  /\ events[m] = << >> => MeetingLog(m) = << >>
  /\ Len(MeetingLog(m)) = Len(events[m]) /\ DOMAIN MeetingLog(m) = DOMAIN events[m]
  /\ \A i \in DOMAIN events[m] : MeetingLog(m)[i] = MeetingEntry(events[m][i])

\* The fields of the entries of a request's log.
LEMMA QuoteFields ==
  ASSUME NEW e, NEW q
  PROVE  /\ QuoteEntry(e).key = <<"issue", e.key>> /\ QuoteEntry(e).value = <<e.version, TRUE>>
         /\ FirstEntry(q).key = <<"request", q>> /\ FirstEntry(q).value = <<0, FALSE>>
         /\ QuoteEntry(e).key # FirstEntry(q).key
<1>1. \A k, v : [key |-> k, value |-> v].key = k /\ [key |-> k, value |-> v].value = v
  OBVIOUS
<1>2. /\ QuoteEntry(e).key = <<"issue", e.key>> /\ QuoteEntry(e).value = <<e.version, TRUE>>
      /\ FirstEntry(q).key = <<"request", q>> /\ FirstEntry(q).value = <<0, FALSE>>
  BY <1>1, Zenon DEF QuoteEntry, FirstEntry
<1>3. <<"issue", e.key>> # <<"request", q>>
  OBVIOUS
<1>4. QED
  BY <1>2, <1>3

\* The log of an opportunity has one entry per version.
LEMMA OppLogOf ==
  ASSUME OppTyped, NEW o \in Opportunities, OppHolds(o)
  PROVE  OppLogged(o)
<1>1. CASE opp[o] = None
  <2>1. Len(stages[o]) + Len(owners[o]) - 1 = 0 - 1
    <3>1. stages[o] = << >> /\ owners[o] = << >>
      BY <1>1 DEF OppHolds, OpportunityHistory
    <3>2. Len(stages[o]) = 0 /\ Len(owners[o]) = 0
      BY <3>1
    <3>3. QED
      BY <3>2
  <2>2. 1..(0 - 1) = {}
    OBVIOUS
  <2>3. OpportunityLog(o) = [n \in {} |-> OpportunityLog(o)[n]]
    BY <2>1, <2>2 DEF OpportunityLog
  <2>4. OpportunityLog(o) = << >>
    BY <2>3
  <2>5. QED
    BY <1>1, <2>4 DEF OppLogged
<1>2. CASE opp[o] # None
  <2>1. PICK n \in Nat : n = opp[o].version
    BY <1>2, OppTypes
  <2>2. OpportunityHistory(o)
    BY DEF OppHolds
  <2>3. PICK k \in Nat : k = n + 1 /\ Len(stages[o]) + Len(owners[o]) - 1 = k
    <3>1. Len(stages[o]) \in Nat /\ Len(owners[o]) \in Nat
      BY OppTypes
    <3>2. Len(stages[o]) + Len(owners[o]) = n + 2
      BY <1>2, <2>1, <2>2 DEF OpportunityHistory
    <3>3. PICK a \in Nat, b \in Nat : a = Len(stages[o]) /\ b = Len(owners[o])
      BY <3>1
    <3>4. a + b = n + 2
      BY <3>2, <3>3
    <3>5. n + 1 \in Nat /\ a + b - 1 = n + 1
      BY <3>4
    <3>6. QED
      BY <3>3, <3>5
  <2>4. OpportunityLog(o) = [i \in 1..k |-> Entry(o, i - 1)]
    BY <2>3 DEF OpportunityLog, Entry, KeysAt, Tagged
  <2>5. PICK log : log = OpportunityLog(o)
    OBVIOUS
  <2>6. log = [i \in 1..k |-> log[i]]
    BY <2>4, <2>5
  <2>7. Len(log) = k /\ DOMAIN log = 1..k
    BY <2>6, LogLength
  <2>8. /\ StageAt(o, opp[o].version) = opp[o].stage
        /\ OwnerAt(o, opp[o].version) = <<opp[o].agent, opp[o].operator>>
    BY <1>2, <2>2, OwnerNow
  <2>9. QED
    BY <1>2, <2>1, <2>3, <2>4, <2>5, <2>7, <2>8 DEF OppLogged
<1>3. QED
  BY <1>1, <1>2

\* The log of a request has its creation and one entry per version.
LEMMA QuoteLogOf ==
  ASSUME QuoteTyped, NEW q \in Requests, QuoteHolds(q)
  PROVE  QuoteLogged(q)
<1>1. CASE request[q] = None
  BY <1>1 DEF QuoteLogged, QuoteLog
<1>2. CASE request[q] # None
  <2>1. quotes[q] \in Seq(QuoteVersion)
    BY DEF QuoteTyped
  <2>2. PICK n \in Nat : n = Len(quotes[q]) /\ DOMAIN quotes[q] = 1..n
    BY <2>1
  <2>3. PICK first, rest :
          /\ first = FirstEntry(q)
          /\ rest = [i \in 1..n |-> QuoteEntry(quotes[q][i])]
    OBVIOUS
  <2>4. QuoteLog(q) = <<first>> \o rest
    BY <1>2, <2>2, <2>3 DEF QuoteLog, QuoteEntry, FirstEntry
  <2>5. PICK S : S = {rest[i] : i \in 1..n} \cup {first}
    OBVIOUS
  <2>6. rest \in Seq(S)
    <3>1. \A i \in 1..n : rest[i] \in S
      BY <2>5
    <3>2. QED
      BY <2>3, <3>1, SeqDef
  <2>7. <<first>> \in Seq(S) /\ Len(<<first>>) = 1 /\ <<first>>[1] = first
    BY <2>5
  <2>8. Len(rest) = n
    BY <2>3, <2>6
  <2>9. PICK log : log = <<first>> \o rest
    OBVIOUS
  <2>10. /\ Len(log) = n + 1 /\ DOMAIN log = 1..(n + 1) /\ log[1] = first
         /\ \A i \in 1..n : log[i + 1] = rest[i]
    BY <2>6, <2>7, <2>8, <2>9
  <2>11. \A i \in 1..n : rest[i] = QuoteEntry(quotes[q][i])
    BY <2>3
  <2>12. QED
    BY <1>2, <2>2, <2>3, <2>4, <2>9, <2>10, <2>11 DEF QuoteLogged
<1>3. QED
  BY <1>1, <1>2

\* The log of a meeting has one entry per event.
LEMMA MeetingLogOf ==
  ASSUME MeetingTyped, NEW m \in Meetings
  PROVE  MeetingLogged(m)
<1>1. events[m] \in Seq(MeetingEvents)
  BY MeetingTypes
<1>2. PICK n \in Nat : n = Len(events[m]) /\ DOMAIN events[m] = 1..n
  BY <1>1
<1>3. MeetingLog(m) = [i \in 1..n |-> MeetingEntry(events[m][i])]
  BY <1>2 DEF MeetingLog, MeetingEntry
<1>4. PICK log : log = MeetingLog(m)
  OBVIOUS
<1>5. log = [i \in 1..n |-> log[i]]
  BY <1>3, <1>4
<1>6. Len(log) = n /\ DOMAIN log = 1..n
  BY <1>5, LogLength
<1>7. events[m] = << >> => MeetingLog(m) = << >>
  BY DEF MeetingLog
<1>8. QED
  BY <1>2, <1>3, <1>4, <1>6, <1>7 DEF MeetingLogged

\* The logs of all records, and so after every step.
AllLogged ==
  /\ \A o \in Opportunities : OppLogged(o)
  /\ \A q \in Requests : QuoteLogged(q)
  /\ \A m \in Meetings : MeetingLogged(m)

\* The invariant gives the logs their entries.
LEMMA LogsNow == CommercialInv => AllLogged
<1> SUFFICES ASSUME CommercialInv PROVE AllLogged
  OBVIOUS
<1>1. OppTyped /\ QuoteTyped /\ MeetingTyped
  BY DEF CommercialInv
<1>2. \A o \in Opportunities : OppHolds(o)
  BY DEF CommercialInv
<1>3. \A q \in Requests : QuoteHolds(q)
  BY DEF CommercialInv
<1>4. QED
  BY <1>1, <1>2, <1>3, OppLogOf, QuoteLogOf, MeetingLogOf DEF AllLogged

\* So it does after a step.
LEMMA LogsThen == CommercialInv' => AllLogged'
<1>1. QED
  BY LogsNow, PTL

\* One more entry under a key of its own, which says what the row is now.
Grown(old, new, row) ==
  /\ Len(new) = Len(old) + 1
  /\ \A i \in DOMAIN old : new[i] = old[i] /\ old[i].key # new[Len(new)].key
  /\ row = new[Len(new)].value

OppRow(o) ==
  IF opp[o] = None THEN None
  ELSE <<opp[o].stage, <<opp[o].agent, opp[o].operator>>, opp[o].version>>

\* A step leaves an opportunity or records it once.
LEMMA OppRecorded ==
  ASSUME OppTyped, OppTyped', NEW o \in Opportunities, OppHolds(o), OppStep(o), Forward(o),
         OppLogged(o), OppLogged(o)'
  PROVE  \/ OppRow(o)' = OppRow(o) /\ OpportunityLog(o)' = OpportunityLog(o)
         \/ Grown(OpportunityLog(o), OpportunityLog(o)', OppRow(o)')
<1>1. CASE OppKept(o)
  BY <1>1 DEF OppKept, OppRow, OpportunityLog, StageAt, OwnerAt
<1>2. PICK old, new : old = OpportunityLog(o) /\ new = OpportunityLog(o)'
  OBVIOUS
<1>3. ASSUME NEW n \in Nat, opp'[o] # None, opp'[o].version = n
      PROVE  /\ Len(new) = n + 1 /\ new[n + 1].value = OppRow(o)'
             /\ \A i \in 1..(n + 1) : new[i] = Entry(o, i - 1)'
             /\ new[n + 1].key = KeysAt(o, n)'
  <2>1. /\ Len(new) = n + 1 /\ \A i \in 1..(n + 1) : new[i] = Entry(o, i - 1)'
    BY <1>2, <1>3 DEF OppLogged
  <2>2. n + 1 \in 1..(n + 1) /\ n + 1 - 1 = n
    OBVIOUS
  <2>3. new[n + 1] = Entry(o, n)'
    BY <2>1, <2>2
  <2>4. new[n + 1].key = KeysAt(o, n)'
    BY <2>3 DEF Entry
  <2>5. new[n + 1].value = <<StageAt(o, n)', OwnerAt(o, n)', n>>
    BY <2>3 DEF Entry
  <2>6. StageAt(o, n)' = opp'[o].stage /\ OwnerAt(o, n)' = <<opp'[o].agent, opp'[o].operator>>
    BY <1>3 DEF OppLogged, StageAt, OwnerAt
  <2>7. QED
    BY <1>3, <2>1, <2>4, <2>5, <2>6 DEF OppRow
<1>4. CASE OppCreated(o)
  <2>1. opp[o] = None /\ opp'[o] # None /\ opp'[o].version = 0
    BY <1>4, CommercialAssumption DEF OppCreated
  <2>2. old = << >>
    BY <1>2, <2>1 DEF OppLogged
  <2>3. PICK n \in Nat : n = 0 /\ opp'[o].version = n
    BY <2>1
  <2>4. Len(new) = n + 1 /\ new[n + 1].value = OppRow(o)'
    BY <1>3, <2>1, <2>3
  <2>5. Len(old) = 0 /\ DOMAIN old = {}
    BY <2>2
  <2>6. Grown(old, new, OppRow(o)')
    BY <2>3, <2>4, <2>5 DEF Grown
  <2>7. QED
    BY <1>2, <2>6
<1>5. ASSUME OppGrows(o), opp'[o].version = opp[o].version + 1
      PROVE  Grown(old, new, OppRow(o)')
  <2>1. PICK n \in Nat : n = opp[o].version
    BY <1>5, OppTypes DEF OppGrows
  <2>2. opp[o] # None /\ opp'[o] # None /\ opp'[o].version = n + 1 /\ n + 1 \in Nat
    BY <1>5, <2>1 DEF OppGrows, Forward
  <2>3. /\ Len(old) = n + 1 /\ DOMAIN old = 1..(n + 1)
        /\ \A i \in 1..(n + 1) : old[i] = Entry(o, i - 1)
    BY <1>2, <2>1, <2>2 DEF OppLogged
  <2>4. PICK k \in Nat : k = n + 1
    BY <2>2
  <2>5. /\ Len(new) = k + 1 /\ new[k + 1].value = OppRow(o)'
        /\ \A i \in 1..(k + 1) : new[i] = Entry(o, i - 1)'
        /\ new[k + 1].key = KeysAt(o, k)'
    BY <1>3, <2>2, <2>4
  <2>6. ASSUME NEW i \in DOMAIN old
        PROVE  new[i] = old[i] /\ old[i].key # new[k + 1].key
    <3>1. PICK v \in 0..n : v = i - 1 /\ i \in 1..(n + 1) /\ i \in 1..(k + 1)
      BY <2>3, <2>4, <2>6
    <3>2. old[i] = Entry(o, v) /\ new[i] = Entry(o, v)'
      BY <2>3, <2>5, <3>1
    <3>3. StageAt(o, v)' = StageAt(o, v) /\ OwnerAt(o, v)' = OwnerAt(o, v)
      BY <2>1, <2>2 DEF Forward
    <3>4. KeysAt(o, v)' = KeysAt(o, v) /\ KeysAt(o, opp[o].version)' # KeysAt(o, v)
      BY <1>5, <2>1 DEF OppGrows
    <3>5. KeysAt(o, k)' # KeysAt(o, v)
      BY <2>2, <2>4, <3>4 DEF KeysAt
    <3>6. new[i] = old[i]
      BY <3>2, <3>3, <3>4 DEF Entry
    <3>7. old[i].key = KeysAt(o, v)
      BY <3>2 DEF Entry
    <3>8. QED
      BY <2>5, <3>5, <3>6, <3>7
  <2>7. QED
    BY <2>3, <2>4, <2>5, <2>6 DEF Grown
<1>6. CASE OppStaged(o)
  <2>1. OppGrows(o) /\ opp'[o].version = opp[o].version + 1
    BY <1>6, StagedGrows DEF OppStaged
  <2>2. QED
    BY <1>2, <1>5, <2>1
<1>7. CASE OppOwned(o)
  <2>1. OppGrows(o) /\ opp'[o].version = opp[o].version + 1
    BY <1>7, OwnedGrows DEF OppOwned
  <2>2. QED
    BY <1>2, <1>5, <2>1
<1>8. QED
  BY <1>1, <1>4, <1>6, <1>7 DEF OppStep

QuoteRow(q) ==
  IF request[q] = None THEN None ELSE <<request[q].version, request[q].status = "issued">>

\* A step leaves a request or records it once.
LEMMA QuoteRecorded ==
  ASSUME QuoteTyped, QuoteTyped', NEW q \in Requests, QuoteHolds(q), QuoteStep(q),
         QuoteLogged(q), QuoteLogged(q)'
  PROVE  \/ QuoteRow(q)' = QuoteRow(q) /\ QuoteLog(q)' = QuoteLog(q)
         \/ Grown(QuoteLog(q), QuoteLog(q)', QuoteRow(q)')
<1>1. CASE QuoteKept(q)
  BY <1>1 DEF QuoteKept, QuoteRow, QuoteLog
<1>2. PICK old, new : old = QuoteLog(q) /\ new = QuoteLog(q)'
  OBVIOUS
<1>3. CASE QuoteAsked(q)
  <2>1. PICK row \in QuoteRequest :
          /\ request[q] = None /\ request'[q] = row /\ quotes'[q] = quotes[q]
          /\ row.version = 0 /\ row.status # "issued"
    BY <1>3 DEF QuoteAsked
  <2>2. row # None /\ quotes'[q] = << >>
    BY <2>1, CommercialAssumption DEF QuoteHolds
  <2>3. old = << >> /\ Len(new) = Len(quotes'[q]) + 1
        /\ new[1] = FirstEntry(q)
    BY <1>2, <2>1, <2>2 DEF QuoteLogged
  <2>4. Len(old) = 0 /\ DOMAIN old = {} /\ Len(new) = 1 /\ new[1].value = <<0, FALSE>>
    <3>1. Len(quotes'[q]) = 0
      BY <2>2
    <3>2. new[1].value = <<0, FALSE>>
      BY <2>3, QuoteFields, Zenon
    <3>3. QED
      BY <2>3, <3>1, <3>2
  <2>5. QuoteRow(q)' = <<0, FALSE>>
    <3>1. QuoteRow(q)' = <<row.version, row.status = "issued">>
      BY <2>1, <2>2 DEF QuoteRow
    <3>2. (row.status = "issued") = FALSE
      BY <2>1
    <3>3. QED
      BY <2>1, <3>1, <3>2
  <2>6. QED
    BY <1>2, <2>4, <2>5 DEF Grown
<1>4. CASE QuoteIssued(q)
  <2>1. PICK row \in QuoteRequest, e \in QuoteVersion :
          /\ request[q] # None /\ request'[q] = row
          /\ row.version = request[q].version + 1 /\ row.status = "issued"
          /\ e.version = Len(quotes[q]) + 1 /\ ~HasKey(quotes[q], e.key)
          /\ quotes'[q] = Append(quotes[q], e)
    BY <1>4 DEF QuoteIssued
  <2>2. PICK s \in Seq(QuoteVersion) : s = quotes[q]
    BY DEF QuoteTyped
  <2>3. PICK n \in Nat : n = Len(s) /\ DOMAIN s = 1..n
    OBVIOUS
  <2>4. PICK t : t = Append(s, e)
    OBVIOUS
  <2>5. /\ Len(t) = n + 1 /\ DOMAIN t = 1..(n + 1) /\ t[n + 1] = e
        /\ \A i \in 1..n : t[i] = s[i]
    BY <2>3, <2>4
  <2>6. row # None /\ quotes'[q] = t /\ row.version = n + 1 /\ e.version = n + 1
    BY <2>1, <2>2, <2>3, <2>4, CommercialAssumption DEF QuoteHolds
  <2>7. /\ Len(old) = n + 1 /\ DOMAIN old = 1..(n + 1)
        /\ old[1] = FirstEntry(q)
        /\ \A i \in 1..n : old[i + 1] = QuoteEntry(s[i])
    BY <1>2, <2>1, <2>2, <2>3 DEF QuoteLogged
  <2>8. /\ Len(new) = n + 2
        /\ new[1] = FirstEntry(q)
        /\ \A i \in 1..(n + 1) : new[i + 1] = QuoteEntry(t[i])
    <3>1. /\ Len(new) = Len(t) + 1
          /\ new[1] = FirstEntry(q)
          /\ \A i \in DOMAIN t : new[i + 1] = QuoteEntry(t[i])
      BY <1>2, <2>1, <2>6 DEF QuoteLogged
    <3>2. Len(t) + 1 = n + 2
      BY <2>5
    <3>3. QED
      BY <2>5, <3>1, <3>2
  <2>9. new[n + 2] = QuoteEntry(e)
    <3>1. n + 1 \in 1..(n + 1) /\ n + 1 + 1 = n + 2
      OBVIOUS
    <3>2. QED
      BY <2>5, <2>8, <3>1
  <2>10. new[n + 2].key = <<"issue", e.key>> /\ new[n + 2].value = <<n + 1, TRUE>>
    <3>1. new[n + 2].key = <<"issue", e.key>> /\ new[n + 2].value = <<e.version, TRUE>>
      BY <2>9, QuoteFields, Zenon
    <3>2. QED
      BY <2>6, <3>1
  <2>11. ASSUME NEW i \in 1..(n + 1)
         PROVE  new[i] = old[i] /\ old[i].key # new[n + 2].key
    <3>1. CASE i = 1
      <4>1. old[i] = FirstEntry(q) /\ new[i] = FirstEntry(q)
        BY <2>7, <2>8, <3>1
      <4>2. FirstEntry(q).key # QuoteEntry(e).key
        BY QuoteFields
      <4>3. QED
        BY <2>9, <4>1, <4>2
    <3>2. CASE i # 1
      <4>1. PICK j \in 1..n : i = j + 1
        <5>1. i - 1 \in 1..n /\ i = (i - 1) + 1
          BY <3>2
        <5>2. QED
          BY <5>1
      <4>2. j \in 1..(n + 1)
        OBVIOUS
      <4>3. old[i] = QuoteEntry(s[j]) /\ new[i] = QuoteEntry(s[j])
        BY <2>5, <2>7, <2>8, <4>1, <4>2
      <4>4. s[j].key # e.key
        BY <2>1, <2>2, <2>3 DEF HasKey
      <4>5. old[i].key = <<"issue", s[j].key>>
        BY <4>3, QuoteFields
      <4>6. QED
        BY <2>10, <4>3, <4>4, <4>5
    <3>3. QED
      BY <3>1, <3>2
  <2>12. QuoteRow(q)' = <<n + 1, TRUE>>
    <3>1. QuoteRow(q)' = <<row.version, row.status = "issued">>
      BY <2>1, <2>6 DEF QuoteRow
    <3>2. (row.status = "issued") = TRUE
      BY <2>1
    <3>3. QED
      BY <2>6, <3>1, <3>2
  <2>13. Len(new) = Len(old) + 1
    BY <2>7, <2>8
  <2>14. QED
    BY <1>2, <2>7, <2>8, <2>10, <2>11, <2>12, <2>13 DEF Grown
<1>5. QED
  BY <1>1, <1>3, <1>4 DEF QuoteStep

MeetingRow(m) ==
  IF meeting[m] = None THEN None
  ELSE <<meeting[m].version, meeting[m].status, meeting[m].proposal>>

\* A step leaves a meeting or records it once.
LEMMA MeetingRecorded ==
  ASSUME MeetingTyped, MeetingTyped', NEW m \in Meetings, MeetingHolds(m), MeetingStep(m),
         MeetingLogged(m), MeetingLogged(m)'
  PROVE  \/ MeetingRow(m)' = MeetingRow(m) /\ MeetingLog(m)' = MeetingLog(m)
         \/ Grown(MeetingLog(m), MeetingLog(m)', MeetingRow(m)')
<1>1. CASE MeetingKept(m)
  BY <1>1 DEF MeetingKept, MeetingRow, MeetingLog
<1>2. PICK old, new : old = MeetingLog(m) /\ new = MeetingLog(m)'
  OBVIOUS
<1>3. PICK s \in Seq(MeetingEvents), t \in Seq(MeetingEvents) : s = events[m] /\ t = events'[m]
  BY DEF MeetingTyped
<1>4. /\ Len(old) = Len(s) /\ DOMAIN old = DOMAIN s
      /\ \A i \in DOMAIN s : old[i] = MeetingEntry(s[i])
      /\ Len(new) = Len(t) /\ \A i \in DOMAIN t : new[i] = MeetingEntry(t[i])
  BY <1>2, <1>3 DEF MeetingLogged
<1>5. ASSUME NEW row \in Meeting, NEW e \in MeetingEvents, t = Append(s, e),
             \A i \in DOMAIN s : s[i].key # e.key, meeting'[m] = row,
             e.version = row.version, e.to = row.status, e.proposal = row.proposal
      PROVE  Grown(old, new, MeetingRow(m)')
  <2>1. PICK n \in Nat : n = Len(s) /\ DOMAIN s = 1..n
    OBVIOUS
  <2>2. /\ Len(t) = n + 1 /\ n + 1 \in DOMAIN t /\ t[n + 1] = e
        /\ \A i \in DOMAIN s : i \in DOMAIN t /\ t[i] = s[i]
    BY <1>5, <2>1
  <2>3. new[n + 1] = MeetingEntry(e) /\ \A i \in DOMAIN s : new[i] = old[i]
    BY <1>4, <2>2
  <2>4. \A i \in DOMAIN s : old[i].key = s[i].key
    BY <1>4 DEF MeetingEntry
  <2>5. new[n + 1].key = e.key /\ new[n + 1].value = <<row.version, row.status, row.proposal>>
    BY <1>5, <2>3 DEF MeetingEntry
  <2>6. row # None
    BY CommercialAssumption
  <2>7. MeetingRow(m)' = <<row.version, row.status, row.proposal>>
    BY <1>5, <2>6 DEF MeetingRow
  <2>8. QED
    BY <1>4, <1>5, <2>1, <2>2, <2>3, <2>4, <2>5, <2>7 DEF Grown
<1>6. CASE MeetingMade(m)
  <2>1. PICK row \in Meeting, e \in MeetingEvents :
          /\ meeting[m] = None /\ meeting'[m] = row /\ events'[m] = <<e>>
          /\ ReceiptOf(e, row, opp'[row.opportunity])
    BY <1>6 DEF MeetingMade
  <2>2. s = << >>
    BY <1>3, <2>1 DEF MeetingHolds
  <2>3. t = Append(s, e) /\ \A i \in DOMAIN s : s[i].key # e.key
    BY <1>3, <2>1, <2>2
  <2>4. QED
    BY <1>2, <1>5, <2>1, <2>3 DEF ReceiptOf
<1>7. CASE MeetingMoved(m)
  <2>1. PICK row \in Meeting, e \in MeetingEvents :
          /\ meeting'[m] = row /\ events'[m] = Append(events[m], e)
          /\ ~HasKey(events[m], e.key) /\ ReceiptOf(e, row, opp'[row.opportunity])
    BY <1>7 DEF MeetingMoved
  <2>2. t = Append(s, e) /\ \A i \in DOMAIN s : s[i].key # e.key
    BY <1>3, <2>1 DEF HasKey
  <2>3. QED
    BY <1>2, <1>5, <2>1, <2>2 DEF ReceiptOf
<1>8. QED
  BY <1>1, <1>6, <1>7 DEF MeetingStep

\* Opportunities, quote requests and meetings implement CommandLog: no row changes
\* without one receipt under a key not seen before, and no receipt is lost.
THEOREM WritesKeepReceipts == Spec => EveryWriteHasItsReceipt
<1>1. Init => Promise!Init
  <2> SUFFICES ASSUME Init PROVE Promise!Init
    OBVIOUS
  <2>1. AllLogged
    BY CommercialInitHolds, LogsNow
  <2>2. ASSUME NEW id \in Ids PROVE Rows[id] = None /\ Logs[id] = << >>
    <3>1. CASE id \in Opportunities
      BY <2>1, <3>1 DEF Init, AllLogged, OppLogged, Rows, Logs
    <3>2. CASE id \notin Opportunities /\ id \in Requests
      BY <2>1, <2>2, <3>2 DEF Init, AllLogged, QuoteLogged, Rows, Logs
    <3>3. CASE id \notin Opportunities /\ id \notin Requests
      <4>1. id \in Meetings
        BY <2>2, <3>3 DEF Ids
      <4>2. events[id] = << >> /\ meeting[id] = None
        BY <4>1 DEF Init
      <4>3. QED
        BY <2>1, <2>2, <3>3, <4>1, <4>2 DEF AllLogged, MeetingLogged, Rows, Logs
    <3>4. QED
      BY <3>1, <3>2, <3>3
  <2>3. Rows = [id \in Ids |-> None] /\ Logs = [id \in Ids |-> << >>]
    <3>1. Rows = [id \in Ids |-> Rows[id]] /\ Logs = [id \in Ids |-> Logs[id]]
      BY DEF Rows, Logs
    <3>2. QED
      BY <2>2, <3>1
  <2>4. QED
    BY <2>3 DEF Promise!Init
<1>2. ASSUME CommercialInv, CommercialInv', [Next]_vars, NEW id \in Ids
      PROVE  Promise!Kept(id) \/ Promise!Recorded(id)
  <2>1. AllLogged /\ AllLogged'
    BY <1>2, LogsNow, LogsThen
  <2>2. OppSide /\ QuoteSide /\ MeetingSide
    BY <1>2, CommercialSteps DEF CommercialStep
  <2>3. /\ OppTyped /\ QuoteTyped /\ MeetingTyped
        /\ OppTyped' /\ QuoteTyped' /\ MeetingTyped'
    BY <1>2 DEF CommercialInv
  <2>4. ASSUME Grown(Logs[id], Logs'[id], Rows'[id]) PROVE Promise!Recorded(id)
    BY <2>4 DEF Grown, Promise!Recorded
  <2>5. ASSUME Rows'[id] = Rows[id], Logs'[id] = Logs[id] PROVE Promise!Kept(id)
    BY <2>5 DEF Promise!Kept
  <2>6. CASE id \in Opportunities
    <3>1. /\ Rows[id] = OppRow(id) /\ Rows'[id] = OppRow(id)'
          /\ Logs[id] = OpportunityLog(id) /\ Logs'[id] = OpportunityLog(id)'
      BY <1>2, <2>6 DEF Rows, Logs, OppRow
    <3>2. OppHolds(id) /\ OppStep(id) /\ OppLogged(id) /\ OppLogged(id)'
      BY <1>2, <2>1, <2>2, <2>6 DEF CommercialInv, OppSide, AllLogged
    <3>3. Forward(id)
      BY <2>3, <2>6, <3>2, OppStepHolds
    <3>4. \/ OppRow(id)' = OppRow(id) /\ OpportunityLog(id)' = OpportunityLog(id)
          \/ Grown(OpportunityLog(id), OpportunityLog(id)', OppRow(id)')
      BY <2>3, <2>6, <3>2, <3>3, OppRecorded
    <3>5. QED
      BY <2>4, <2>5, <3>1, <3>4
  <2>7. CASE id \notin Opportunities /\ id \in Requests
    <3>1. /\ Rows[id] = QuoteRow(id) /\ Rows'[id] = QuoteRow(id)'
          /\ Logs[id] = QuoteLog(id) /\ Logs'[id] = QuoteLog(id)'
      BY <1>2, <2>7 DEF Rows, Logs, QuoteRow
    <3>2. QuoteHolds(id) /\ QuoteStep(id) /\ QuoteLogged(id) /\ QuoteLogged(id)'
      BY <1>2, <2>1, <2>2, <2>7 DEF CommercialInv, QuoteSide, AllLogged
    <3>3. \/ QuoteRow(id)' = QuoteRow(id) /\ QuoteLog(id)' = QuoteLog(id)
          \/ Grown(QuoteLog(id), QuoteLog(id)', QuoteRow(id)')
      BY <2>3, <2>7, <3>2, QuoteRecorded
    <3>4. QED
      BY <2>4, <2>5, <3>1, <3>3
  <2>8. CASE id \notin Opportunities /\ id \notin Requests
    <3>1. id \in Meetings
      BY <1>2, <2>8 DEF Ids
    <3>2. /\ Rows[id] = MeetingRow(id) /\ Rows'[id] = MeetingRow(id)'
          /\ Logs[id] = MeetingLog(id) /\ Logs'[id] = MeetingLog(id)'
      BY <1>2, <2>8 DEF Rows, Logs, MeetingRow
    <3>3. MeetingHolds(id) /\ MeetingStep(id) /\ MeetingLogged(id) /\ MeetingLogged(id)'
      BY <1>2, <2>1, <2>2, <3>1 DEF CommercialInv, MeetingSide, AllLogged
    <3>4. \/ MeetingRow(id)' = MeetingRow(id) /\ MeetingLog(id)' = MeetingLog(id)
          \/ Grown(MeetingLog(id), MeetingLog(id)', MeetingRow(id)')
      BY <2>3, <3>1, <3>3, MeetingRecorded
    <3>5. QED
      BY <2>4, <2>5, <3>2, <3>4
  <2>9. QED
    BY <2>6, <2>7, <2>8
<1>3. CommercialInv /\ CommercialInv' /\ [Next]_vars => [Promise!Next]_<<Rows, Logs>>
  BY <1>2 DEF Promise!Next
<1>4. QED
  BY <1>1, <1>3, CommercialInvariance, PTL DEF Spec, EveryWriteHasItsReceipt, Promise!Spec

-----------------------------------------------------------------------------
(* The panel: the four machines side by side.                               *)

panelVars == <<vars, linkVars, accessVars, catalogVars, machine>>

\* A step of the panel is a step of one machine and none of the others.
LEMMA PanelSteps ==
  [MCNext]_panelVars => /\ [Next]_vars /\ [LinkNext]_linkVars
                        /\ [AccessNext]_accessVars /\ [CatalogNext]_catalogVars
<1> SUFFICES ASSUME [MCNext]_panelVars
             PROVE  /\ [Next]_vars /\ [LinkNext]_linkVars
                    /\ [AccessNext]_accessVars /\ [CatalogNext]_catalogVars
  OBVIOUS
<1>1. \/ Next /\ UNCHANGED <<linkVars, accessVars, catalogVars, machine>>
      \/ LinkNext /\ UNCHANGED <<vars, accessVars, catalogVars, machine>>
      \/ AccessNext /\ UNCHANGED <<vars, linkVars, catalogVars, machine>>
      \/ CatalogNext /\ UNCHANGED <<vars, linkVars, accessVars, machine>>
      \/ UNCHANGED panelVars
  BY DEF MCNext
<1>2. \/ Next /\ UNCHANGED linkVars /\ UNCHANGED accessVars /\ UNCHANGED catalogVars
      \/ LinkNext /\ UNCHANGED vars /\ UNCHANGED accessVars /\ UNCHANGED catalogVars
      \/ AccessNext /\ UNCHANGED vars /\ UNCHANGED linkVars /\ UNCHANGED catalogVars
      \/ CatalogNext /\ UNCHANGED vars /\ UNCHANGED linkVars /\ UNCHANGED accessVars
      \/ /\ UNCHANGED vars /\ UNCHANGED linkVars /\ UNCHANGED accessVars
         /\ UNCHANGED catalogVars
  BY <1>1 DEF panelVars
<1>3. QED
  BY <1>2

\* A behaviour of the panel is one of each of its machines, so that what holds of a
\* machine holds of the panel.
LEMMA PanelMachines == MCSpec => Spec /\ LinkSpec /\ AccessSpec /\ CatalogSpec
<1>1. MCInit => Init /\ LinkInit /\ AccessInit /\ CatalogInit
  BY DEF MCInit
<1>2. QED
  BY <1>1, PanelSteps, PTL DEF MCSpec, panelVars, Spec, LinkSpec, AccessSpec, CatalogSpec

\* The rows of the four machines have the shapes their tables give them.
THEOREM PanelTyped == MCSpec => []PanelTypeOK
<1>1. CommercialInv /\ LinkInv /\ AccessInv /\ CatalogInv => PanelTypeOK
  <2>1. CommercialInv => TypeOK
    BY DEF CommercialInv, OppTyped, LinksTyped, QuoteTyped, MeetingTyped, GrantsTyped, TypeOK
  <2>2. QED
    BY <2>1 DEF PanelTypeOK, LinkInv, AccessInv, CatalogInv
<1>2. QED
  BY <1>1, PanelMachines, CommercialInvariance, LinkInvariance, AccessInvariance,
     CatalogInvariance, PTL

\* Every record of the panel with a receipt implements CommandLog.
THEOREM PanelKeepsReceipts == MCSpec => RecordsKeepReceipts
<1>1. QED
  BY PanelMachines, WritesKeepReceipts, ClaimsKeepReceipts, PTL DEF RecordsKeepReceipts
=============================================================================
