---------------------------- MODULE IdentityLinks ----------------------------
(***************************************************************************)
(* Identity-link claims of one agent (services/identity_link_claims.py):   *)
(* an operator issues a one-time proof that two channel identities belong  *)
(* together, and operators verify, reject, revoke or expire the claim.  A  *)
(* claim's id is derived from its issue key, so claims are indexed by key. *)
(* Every command is one transaction that locks the claim; any command may  *)
(* be repeated, by a client that lost the answer, at any time.             *)
(***************************************************************************)
EXTENDS Integers, Sequences, FiniteSets

CONSTANTS
  LinkKeys,     \* idempotency keys
  Identities,   \* channel identities
  PrincipalOf,  \* their principals
  VisibleHere,  \* the identities with a conversation of this agent
  NoClaim,
  MaxEvents     \* bound on the recorded commands

VARIABLES
  claims,   \* IdentityLinkClaim rows
  receipts  \* IdentityLinkClaimEvent rows of each claim, oldest first

linkVars == <<claims, receipts>>

LinkStatuses == {"pending", "verified", "rejected", "revoked", "expired"}

Claim == [source : Identities, target : Identities, status : LinkStatuses,
          version : Nat, proof : BOOLEAN, due : BOOLEAN]
ClaimEvent == [key : LinkKeys, from : LinkStatuses \cup {NoClaim},
               to : LinkStatuses, version : Nat]

ASSUME LinkAssumption == NoClaim \notin LinkKeys \cup Claim

\* The receipts of an idempotency key, and all of them.
EventWith(key) ==
  {k \in LinkKeys : \E i \in DOMAIN receipts[k] : receipts[k][i].key = key}
Recorded == UNION {{k} \X DOMAIN receipts[k] : k \in LinkKeys}

\* The CHECKs of identity_link_claims: a proof exactly while pending.
ClaimFits(c) ==
  /\ c.source # c.target
  /\ c.status \in LinkStatuses
  /\ c.version >= 0
  /\ c.status = "pending" <=> c.proof

\* Faulty variant: the receipts' key is unique per claim, not per agent.
EventFitsPerClaim(k, e) ==
  \A i \in DOMAIN receipts[k] :
    receipts[k][i].key # e.key /\ receipts[k][i].version # e.version

\* The unique constraints of identity_link_claim_events.
EventFits(k, e) ==
  /\ EventWith(e.key) = {}
  /\ \A i \in DOMAIN receipts[k] : receipts[k][i].version # e.version

IssueEvent(k) == [key |-> k, from |-> NoClaim, to |-> "pending", version |-> 0]
TransitionEvent(k, key, to) ==
  [key |-> key, from |-> claims[k].status, to |-> to, version |-> claims[k].version + 1]

NewClaim(pair) ==
  [source |-> pair[1], target |-> pair[2], status |-> "pending", version |-> 0,
   proof |-> TRUE, due |-> FALSE]

IdentityPair(pair) ==
  /\ pair[1] # pair[2]
  /\ {pair[1], pair[2]} \subseteq VisibleHere

\* A retry finds the claim by its issue key and changes nothing, whatever its
\* payload; it is never given the proof token again.
Issue(k, pair) ==
  /\ claims[k] = NoClaim
  /\ IdentityPair(pair)
  /\ PrincipalOf[pair[1]] # PrincipalOf[pair[2]]
  /\ EventFits(k, IssueEvent(k))
  /\ ClaimFits(NewClaim(pair))
  /\ claims' = [claims EXCEPT ![k] = NewClaim(pair)]
  /\ receipts' = [receipts EXCEPT ![k] = Append(@, IssueEvent(k))]

Command == Cardinality(Recorded) < MaxEvents

IssueIdentityLinkClaim(k, pair) == Command /\ Issue(k, pair)

\* _prepare_transition: an unused key; a used one is a replay or a conflict,
\* by its command hash, and either leaves the rows alone.
Prepared(k, key) == claims[k] # NoClaim /\ EventWith(key) = {}

Transitioned(k, to) ==
  [claims[k] EXCEPT !.status = to, !.version = @ + 1, !.proof = FALSE]

\* Faulty variant: the transition leaves no receipt.
RecordNothing(k, key, to) ==
  /\ claims' = [claims EXCEPT ![k] = Transitioned(k, to)]
  /\ UNCHANGED receipts

RecordTransition(k, key, to) ==
  /\ ClaimFits(Transitioned(k, to))
  /\ EventFits(k, TransitionEvent(k, key, to))
  /\ claims' = [claims EXCEPT ![k] = Transitioned(k, to)]
  /\ receipts' = [receipts EXCEPT ![k] = Append(@, TransitionEvent(k, key, to))]

\* Faulty variant: a proof verifies a claim that was already decided.
VerifyDecided(k, token, expected, key) ==
  /\ Prepared(k, key)
  /\ claims[k].version = expected
  /\ ~claims[k].due
  /\ token = k
  /\ RecordTransition(k, key, "verified")

\* The token of claim k is written k: only issue ever returned it.
Verify(k, token, expected, key) ==
  /\ Prepared(k, key)
  /\ claims[k].version = expected
  /\ claims[k].status = "pending"
  /\ ~claims[k].due
  /\ claims[k].proof /\ token = k
  /\ RecordTransition(k, key, "verified")

TerminalTransition(k, expected, key, to, from) ==
  /\ Prepared(k, key)
  /\ claims[k].version = expected
  /\ claims[k].status = from
  /\ to = "expired" => claims[k].due
  /\ RecordTransition(k, key, to)

Reject(k, expected, key) ==
  TerminalTransition(k, expected, key, "rejected", "pending")
Revoke(k, expected, key) ==
  TerminalTransition(k, expected, key, "revoked", "verified")
Expire(k, expected, key) ==
  TerminalTransition(k, expected, key, "expired", "pending")

VerifyIdentityLinkClaim(k, token, expected, key) ==
  Command /\ Verify(k, token, expected, key)
RejectIdentityLinkClaim(k, expected, key) == Command /\ Reject(k, expected, key)
RevokeIdentityLinkClaim(k, expected, key) == Command /\ Revoke(k, expected, key)
ExpireIdentityLinkClaim(k, expected, key) == Command /\ Expire(k, expected, key)

\* proof_expires_at passes.
ProofExpires(k) ==
  /\ claims[k] # NoClaim /\ ~claims[k].due
  /\ claims' = [claims EXCEPT ![k].due = TRUE]
  /\ UNCHANGED receipts

LinkInit ==
  /\ claims = [k \in LinkKeys |-> NoClaim]
  /\ receipts = [k \in LinkKeys |-> << >>]

LinkNext ==
  \/ \E k \in LinkKeys, pair \in Identities \X Identities :
       IssueIdentityLinkClaim(k, pair)
  \/ \E k, key \in LinkKeys, expected \in 0..2 :
       \/ \E token \in LinkKeys : VerifyIdentityLinkClaim(k, token, expected, key)
       \/ RejectIdentityLinkClaim(k, expected, key)
       \/ RevokeIdentityLinkClaim(k, expected, key)
       \/ ExpireIdentityLinkClaim(k, expected, key)
  \/ \E k \in LinkKeys : ProofExpires(k)

LinkSpec == LinkInit /\ [][LinkNext]_linkVars

-----------------------------------------------------------------------------
Log(k) ==
  [i \in DOMAIN receipts[k] |->
     [key |-> receipts[k][i].key,
      value |-> [status |-> receipts[k][i].to, version |-> receipts[k][i].version]]]

ClaimLog == INSTANCE CommandLog WITH
  Ids <- LinkKeys,
  Absent <- NoClaim,
  cur <- [k \in LinkKeys |->
            IF claims[k] = NoClaim THEN NoClaim
            ELSE [status |-> claims[k].status, version |-> claims[k].version]],
  log <- [k \in LinkKeys |-> Log(k)]

\* Claims implement the abstract command log: no status without its receipt
\* and no receipt twice, through every retry (_record_transition, issue).
EveryClaimHasItsReceipts == ClaimLog!Spec

\* Rows and receipts have the shapes of their tables, a proof exactly while
\* a claim is pending (identity_link_claims, identity_link_claim_events).
LinkTypeOK ==
  /\ claims \in [LinkKeys -> Claim \cup {NoClaim}]
  /\ receipts \in [LinkKeys -> Seq(ClaimEvent)]
  /\ \A k \in LinkKeys : claims[k] # NoClaim => ClaimFits(claims[k])

\* However operators race, a claim is decided once, by the one proof that was
\* issued or without it, and only a verified claim is revoked (verify and
\* _terminal_transition under the claim's lock and version); and one idempotency
\* key stands for one command of the agent, also when a key of a transition is
\* sent to issue, which looks for its key among the claims.
DecidedOnce ==
  /\ \A k \in LinkKeys :
       LET h == receipts[k]
       IN  /\ Len(h) >= 2 => h[2].to \in {"verified", "rejected", "expired"}
           /\ Len(h) >= 3 => h[2].to = "verified" /\ h[3].to = "revoked"
           /\ Len(h) <= 3
  /\ \A k, l \in LinkKeys : \A i \in DOMAIN receipts[k], j \in DOMAIN receipts[l] :
       receipts[k][i].key = receipts[l][j].key => k = l /\ i = j
=============================================================================
