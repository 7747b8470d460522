------------------------------- MODULE MCPanel -------------------------------
(***************************************************************************)
(* Four machines of the panel that share no state, checked in one run: a   *)
(* behaviour is one of Commercial, of IdentityLinks, of AdminAccess or of  *)
(* ChannelCatalog.                                                         *)
(***************************************************************************)
EXTENDS Commercial, IdentityLinks, AdminAccess, ChannelCatalog, TLC

CONSTANTS
  Machines,  \* the machines of the run
  agent1, agent2, admin1, admin2, conv1, conv2, opp1, quote1, meet1,
  main, backup, site  \* connections

VARIABLE machine

MCCreator == [o \in {opp1} |-> agent1]
MCRoutingAgent == (conv1 :> agent1) @@ (conv2 :> agent2)
MCPrincipalOf == [i \in Identities |-> IF i = "mail" THEN "second" ELSE "first"]

MCRolePermissions ==
  [admin |-> {"*"},
   editor |-> {"panel_users.manage", "sources.manage", "documents.taxonomy"}]
MCScoped == {"sources.manage", "tools.manage", "documents.taxonomy"}

MCChannelOf == (main :> "whatsapp") @@ (backup :> "whatsapp") @@ (site :> "web")
MCAdapterOf ==
  [web |-> [implemented |-> TRUE, credentials |-> FALSE],
   whatsapp |-> [implemented |-> TRUE, credentials |-> TRUE],
   email |-> [implemented |-> FALSE, credentials |-> TRUE],
   instagram_dm |-> [implemented |-> FALSE, credentials |-> TRUE],
   facebook_messenger |-> [implemented |-> FALSE, credentials |-> TRUE]]
MCRouteKeys == {<<"whatsapp", "main">>}

MCInit ==
  Init /\ LinkInit /\ AccessInit /\ CatalogInit /\ machine \in Machines
MCNext ==
  \/ /\ machine = "commercial" /\ Next
     /\ UNCHANGED <<linkVars, accessVars, catalogVars, machine>>
  \/ /\ machine = "links" /\ LinkNext
     /\ UNCHANGED <<vars, accessVars, catalogVars, machine>>
  \/ /\ machine = "access" /\ AccessNext
     /\ UNCHANGED <<vars, linkVars, catalogVars, machine>>
  \/ /\ machine = "catalog" /\ CatalogNext
     /\ UNCHANGED <<vars, linkVars, accessVars, machine>>
MCSpec == MCInit /\ [][MCNext]_<<vars, linkVars, accessVars, catalogVars, machine>>

\* The rows of the four machines have the shapes of their tables.
PanelTypeOK == TypeOK /\ LinkTypeOK /\ AccessTypeOK /\ CatalogTypeOK

\* Opportunities, quote requests, meetings and identity link claims are written
\* only with a receipt under a key not used before: all of them implement
\* CommandLog (the idempotency and version checks of the four services).
RecordsKeepReceipts == EveryWriteHasItsReceipt /\ EveryClaimHasItsReceipts

MCSymmetry == Permutations(Admins) \cup Permutations(References)
===============================================================================
