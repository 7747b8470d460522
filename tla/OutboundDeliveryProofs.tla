----------------------- MODULE OutboundDeliveryProofs -----------------------
(***************************************************************************)
(* Proofs about the outbound outbox for any set of conversations, commands *)
(* and workers and any bound.                                              *)
(***************************************************************************)
EXTENDS OutboundDelivery, ConversationControlProofs, TLAPS

-----------------------------------------------------------------------------
(* The inductive invariant.                                                *)

\* A worker between its claim and its outcome has a claim in memory.
JobsKnown == \A w \in Workers : pc[w] # "idle" => job[w] \in Commands

\* A worker inside the dispatch transaction owns its row, which it locked:
\* recovery skips it and nobody else claims it.
DispatchOwned == \A w \in InDispatch : Owned(w, job[w])

\* The fence checked under the conversation lock stays true while it is held,
\* the route snapshot while the route lock is held.
FencesHeld ==
  /\ \A w \in InDispatch : SenderFence(job[w], snapshot[job[w]])
  /\ \A w \in InCall : RouteCurrent(job[w])

\* Sequence numbers already given are below the next one.
SequencesIssued ==
  \A m \in Commands : snapshot[m].sequence < next_sequence[ConvOf[m]]

\* A row the provider has not been called for, by the status of the row and by
\* the worker that still has the call before it.
UncalledRows ==
  /\ \A m \in Commands :
       status[m] \in {"none", "queued"} => calls[m] = 0
  /\ \A m \in Commands :
       status[m] = "cancelled" /\ resolution[m] = 0 => calls[m] = 0
  /\ \A w \in Workers :
       pc[w] \in {"claimed", "fenced"} /\ Owned(w, job[w]) => calls[job[w]] = 0

\* Order from the claim on: a claim is given only to a head.
ClaimedInOrder ==
  \A m, e \in Commands :
    (status[m] = "dispatching" \/ calls[m] > 0) /\ Earlier(e, m) =>
      status[e] \notin Blocking

\* Every request the provider may act on or acted on comes from the one call.
RequestsCalled ==
  /\ wire \cap sent = {}
  /\ \A m \in wire \cup sent : calls[m] > 0

\* Only a resolution moves resolution_version, and it settles the row.
ResolutionsSettle ==
  \A m \in Commands :
    status[m] \notin {"delivered", "cancelled"} => resolution[m] = 0

OutcomesHonest ==
  \A m \in Commands :
    /\ status[m] = "accepted" => m \in sent /\ provider_id[m] = m
    /\ status[m] = "failed" => m \notin sent \cup wire

IInv ==
  /\ TypeOK
  /\ JobsKnown
  /\ DispatchOwned
  /\ FencesHeld
  /\ SequencesIssued
  /\ UncalledRows
  /\ AtMostOneCall
  /\ ClaimedInOrder
  /\ RequestsCalled
  /\ ResolutionsSettle
  /\ OutcomesHonest
  /\ ReferencesUnique

-----------------------------------------------------------------------------
(* Type correctness, one lemma per group of actions.                       *)

\* Enqueueing keeps the types.
LEMMA EnqueueType ==
  ASSUME TypeOK, NEW m \in Commands, NEW snap \in Snapshot, Enqueue(m, snap)
  PROVE  TypeOK'
<1> USE OutboundAssumption
<1>1. [snap EXCEPT !.route_version = route[RouteOf[ConvOf[m]]].version,
                   !.sequence = next_sequence[ConvOf[m]]] \in Snapshot
  BY DEF TypeOK, Snapshot
<1>2. snapshot' \in [Commands -> Snapshot]
  BY <1>1 DEF Enqueue, TypeOK
<1>3. status' \in [Commands -> Statuses]
  BY DEF Enqueue, TypeOK, Statuses
<1>5. next_sequence' \in [Conversations -> Nat]
  <2>1. next_sequence' = [next_sequence EXCEPT ![ConvOf[m]] = @ + 1]
    BY DEF Enqueue
  <2>2. QED
    BY <2>1 DEF TypeOK
<1>4. QED
  BY <1>2, <1>3, <1>5 DEF Enqueue, TypeOK, workerVars, providerVars

\* The sweep leaves statuses and locks of their types.
LEMMA SweptType ==
  ASSUME TypeOK, NEW S \in SUBSET Commands
  PROVE  /\ SweptStatus(S) \in [Commands -> Statuses]
         /\ SweptLock(locked_by, None) \in [Commands -> Workers \cup {None}]
         /\ SweptLock(locked_at, "null") \in [Commands -> {"fresh", "stale", "null"}]
BY DEF TypeOK, SweptStatus, SweptLock, Statuses

-----------------------------------------------------------------------------
(* The invariant is inductive, one lemma per group of actions.             *)

\* A command on the conversation row c: only c's fences could suffer, and
\* nobody in dispatch holds c.
LEMMA ConversationStep ==
  ASSUME IInv, NEW c \in Conversations, ConversationFree(c),
         conv' \in [Conversations -> Conversation],
         \A d \in Conversations \ {c} : conv'[d] = conv[d],
         UNCHANGED <<route, next_sequence, rowVars, workerVars, providerVars>>
  PROVE  IInv'
<1> USE DEF rowVars, workerVars, providerVars
<1>1. TypeOK'
  BY DEF IInv, TypeOK
<1>2. FencesHeld'
  <2>1. ASSUME NEW w \in InDispatch'
        PROVE  SenderFence(job[w], snapshot[job[w]])'
    <3>1. w \in InDispatch /\ ConvOf[job[w]] # c
      BY <2>1 DEF ConversationFree, InDispatch
    <3>2. job[w] \in Commands /\ ConvOf[job[w]] \in Conversations
      BY <3>1, OutboundAssumption DEF IInv, JobsKnown, InDispatch
    <3>3. conv'[ConvOf[job[w]]] = conv[ConvOf[job[w]]]
      BY <3>1, <3>2
    <3>4. SenderFence(job[w], snapshot[job[w]])
      BY <3>1 DEF IInv, FencesHeld
    <3>5. QED
      BY <3>3, <3>4 DEF SenderFence
  <2>2. ASSUME NEW w \in InCall'
        PROVE  RouteCurrent(job[w])'
    BY <2>2 DEF IInv, FencesHeld, InCall, RouteCurrent
  <2>3. QED
    BY <2>1, <2>2 DEF FencesHeld
<1>3. /\ JobsKnown' /\ DispatchOwned' /\ SequencesIssued' /\ UncalledRows'
      /\ AtMostOneCall' /\ ClaimedInOrder' /\ RequestsCalled'
      /\ ResolutionsSettle' /\ OutcomesHonest' /\ ReferencesUnique'
  BY DEF IInv, JobsKnown, DispatchOwned, SequencesIssued, UncalledRows,
         AtMostOneCall, ClaimedInOrder, RequestsCalled, ResolutionsSettle,
         OutcomesHonest, ReferencesUnique, InDispatch, Owned, Earlier
<1>4. QED
  BY <1>1, <1>2, <1>3 DEF IInv

\* A change of control keeps the invariant.
LEMMA ControlTransitionInv ==
  ASSUME IInv, NEW c \in Conversations, NEW actor \in Admins,
         NEW target \in Modes, NEW requested \in Admins \cup {NoAdmin},
         NEW v, ControlTransition(c, actor, target, requested, v)
  PROVE  IInv'
<1>1. /\ conv' \in [Conversations -> Conversation]
      /\ \A d \in Conversations \ {c} : conv'[d] = conv[d]
  BY TransitionType DEF IInv, TypeOK, ControlTransition
<1>2. QED
  BY <1>1, ConversationStep DEF ControlTransition

\* An assignment of automation keeps the invariant.
LEMMA AutomationAssignInv ==
  ASSUME IInv, NEW c \in Conversations, NEW a \in Agents, NEW v,
         AutomationAssign(c, a, v)
  PROVE  IInv'
<1>1. /\ conv' \in [Conversations -> Conversation]
      /\ \A d \in Conversations \ {c} : conv'[d] = conv[d]
  BY AssignType DEF IInv, TypeOK, AutomationAssign
<1>2. QED
  BY <1>1, ConversationStep DEF AutomationAssign

\* A route or its connection is reconfigured while no call holds it.
LEMMA ConfigureRouteInv ==
  ASSUME IInv, NEW r \in Routes, NEW active \in BOOLEAN,
         ConfigureRoute(r, active)
  PROVE  IInv'
<1> USE DEF rowVars, workerVars, providerVars
<1>0. /\ route' = [route EXCEPT ![r] = [version |-> route[r].version + 1,
                                        active |-> active]]
      /\ UNCHANGED <<conv, next_sequence, rowVars, workerVars, providerVars>>
      /\ RouteFree(r)
  BY DEF ConfigureRoute
<1>1. TypeOK'
  <2>1. [version |-> route[r].version + 1, active |-> active]
           \in [version : Nat, active : BOOLEAN]
    BY DEF IInv, TypeOK
  <2>2. route' \in [Routes -> [version : Nat, active : BOOLEAN]]
    BY <1>0, <2>1 DEF IInv, TypeOK
  <2>3. QED
    BY <1>0, <2>2 DEF IInv, TypeOK
<1>2. FencesHeld'
  <2>1. \A w \in InDispatch' : SenderFence(job[w], snapshot[job[w]])'
    BY <1>0 DEF IInv, FencesHeld, InDispatch, SenderFence
  <2>2. ASSUME NEW w \in InCall'
        PROVE  RouteCurrent(job[w])'
    <3>1. w \in InCall /\ RouteOf[ConvOf[job[w]]] # r
      BY <1>0, <2>2 DEF RouteFree, InCall
    <3>2. RouteOf[ConvOf[job[w]]] \in Routes
      BY <3>1, OutboundAssumption DEF IInv, JobsKnown, InCall
    <3>3. route'[RouteOf[ConvOf[job[w]]]] = route[RouteOf[ConvOf[job[w]]]]
      BY <1>0, <3>1, <3>2 DEF IInv, TypeOK
    <3>4. RouteCurrent(job[w])
      BY <3>1 DEF IInv, FencesHeld
    <3>5. QED
      BY <1>0, <3>3, <3>4 DEF RouteCurrent
  <2>3. QED
    BY <2>1, <2>2 DEF FencesHeld
<1>3. /\ JobsKnown' /\ DispatchOwned' /\ SequencesIssued' /\ UncalledRows'
      /\ AtMostOneCall' /\ ClaimedInOrder' /\ RequestsCalled'
      /\ ResolutionsSettle' /\ OutcomesHonest' /\ ReferencesUnique'
  BY <1>0
     DEF IInv, JobsKnown, DispatchOwned, SequencesIssued, UncalledRows,
         AtMostOneCall, ClaimedInOrder, RequestsCalled, ResolutionsSettle,
         OutcomesHonest, ReferencesUnique, InDispatch, Owned, Earlier
<1>4. QED
  BY <1>1, <1>2, <1>3 DEF IInv

\* A new row gets the highest sequence of its conversation, so it is earlier
\* than no row a worker ever claimed.
LEMMA EnqueueInv ==
  ASSUME IInv, NEW m \in Commands, NEW snap \in Snapshot, Enqueue(m, snap)
  PROVE  IInv'
<1> USE OutboundAssumption DEF workerVars, providerVars
<1> DEFINE c == ConvOf[m]
<1>0. /\ status[m] = "none"
      /\ status' = [status EXCEPT ![m] = "queued"]
      /\ next_sequence' = [next_sequence EXCEPT ![c] = next_sequence[c] + 1]
      /\ UNCHANGED <<conv, route, locked_by, locked_at, attempts, provider_id,
                     resolution, workerVars, providerVars>>
  BY DEF Enqueue
<1>1. /\ \A x \in Commands \ {m} : snapshot'[x] = snapshot[x]
      /\ snapshot'[m].sequence = next_sequence[c]
  <2>1. snapshot' = [snapshot EXCEPT
           ![m] = [snap EXCEPT !.route_version = route[RouteOf[c]].version,
                               !.sequence = next_sequence[c]]]
    BY DEF Enqueue
  <2>2. QED
    BY <2>1 DEF IInv, TypeOK, Snapshot
<1>2. TypeOK'
  BY EnqueueType DEF IInv
<1>3. \A w \in InDispatch : job[w] \in Commands \ {m}
  BY <1>0 DEF IInv, DispatchOwned, Owned, JobsKnown, InDispatch
<1>4. JobsKnown' /\ DispatchOwned'
  BY <1>0, <1>3 DEF IInv, TypeOK, JobsKnown, DispatchOwned, Owned, InDispatch
<1>5. FencesHeld'
  <2>1. InDispatch' = InDispatch /\ InCall' = InCall /\ InCall \subseteq InDispatch
    BY <1>0 DEF InDispatch, InCall
  <2>2. \A w \in InDispatch : snapshot'[job[w]] = snapshot[job[w]]
    BY <1>1, <1>3
  <2>3. QED
    BY <1>0, <2>1, <2>2 DEF IInv, FencesHeld, SenderFence, RouteCurrent
<1>6. SequencesIssued'
  <2>1. SUFFICES ASSUME NEW x \in Commands
                 PROVE  snapshot'[x].sequence < next_sequence'[ConvOf[x]]
    BY DEF SequencesIssued
  <2>2. /\ snapshot[x].sequence < next_sequence[ConvOf[x]]
        /\ snapshot[x].sequence \in Nat
        /\ next_sequence[ConvOf[x]] \in Nat
    BY DEF IInv, TypeOK, SequencesIssued, Snapshot
  <2>3. next_sequence'[ConvOf[x]] \in {next_sequence[ConvOf[x]], next_sequence[ConvOf[x]] + 1}
    BY <1>0 DEF IInv, TypeOK
  <2>4. CASE x = m
    <3>1. next_sequence'[c] = next_sequence[c] + 1
      BY <1>0 DEF IInv, TypeOK
    <3>2. QED
      BY <1>1, <2>2, <2>4, <3>1
  <2>5. CASE x # m
    BY <1>1, <2>2, <2>3, <2>5
  <2>6. QED
    BY <2>4, <2>5
<1>7. UncalledRows'
  <2>1. calls[m] = 0
    BY <1>0 DEF IInv, UncalledRows
  <2>2. QED
    BY <1>0, <2>1 DEF IInv, TypeOK, UncalledRows, Owned
<1>8. ClaimedInOrder'
  <2>1. SUFFICES ASSUME NEW x \in Commands, NEW e \in Commands,
                        (status[x] = "dispatching" \/ calls[x] > 0)',
                        Earlier(e, x)'
                 PROVE  status'[e] \notin Blocking
    BY DEF ClaimedInOrder
  <2>2. x # m
    BY <1>0, <2>1 DEF IInv, TypeOK, UncalledRows
  <2>3. status[x] = "dispatching" \/ calls[x] > 0
    BY <1>0, <2>1, <2>2 DEF IInv, TypeOK
  <2>4. e # m
    BY <1>0, <1>1, <2>1, <2>2 DEF IInv, TypeOK, SequencesIssued, Earlier, Snapshot
  <2>5. Earlier(e, x) /\ status'[e] = status[e]
    BY <1>0, <1>1, <2>1, <2>2, <2>4 DEF IInv, TypeOK, Earlier
  <2>6. QED
    BY <2>3, <2>5 DEF IInv, ClaimedInOrder
<1>9. /\ AtMostOneCall' /\ RequestsCalled' /\ ResolutionsSettle'
      /\ OutcomesHonest' /\ ReferencesUnique'
  BY <1>0 DEF IInv, TypeOK, AtMostOneCall, RequestsCalled, ResolutionsSettle,
              OutcomesHonest, ReferencesUnique
<1>10. QED
  BY <1>2, <1>4, <1>5, <1>6, <1>7, <1>8, <1>9 DEF IInv

\* An operator's verdict on a row nobody dispatches.
LEMMA ResolveInv ==
  ASSUME IInv, NEW m \in Commands, NEW v, NEW reference \in Commands \cup {None},
         Resolve(m, v, reference)
  PROVE  IInv'
<1> USE OutboundAssumption DEF workerVars, providerVars
<1>0. /\ status[m] = "delivery_unknown"
      /\ \/ /\ status' = [status EXCEPT ![m] = "delivered"]
            /\ provider_id' = [provider_id EXCEPT ![m] = reference]
            /\ ReferenceAvailable(m, reference)
         \/ /\ status' = [status EXCEPT ![m] = "cancelled"]
            /\ provider_id' = provider_id
      /\ resolution' = [resolution EXCEPT ![m] = resolution[m] + 1]
      /\ UNCHANGED <<conv, route, next_sequence, snapshot, locked_by, locked_at,
                     attempts, workerVars, providerVars>>
  BY DEF Resolve
<1>1. TypeOK'
  <2>1. status' \in [Commands -> Statuses]
    BY <1>0 DEF IInv, TypeOK, Statuses
  <2>2. provider_id' \in [Commands -> Commands \cup {None}]
    BY <1>0 DEF IInv, TypeOK
  <2>3. resolution' \in [Commands -> Nat]
    BY <1>0 DEF IInv, TypeOK
  <2>4. QED
    BY <1>0, <2>1, <2>2, <2>3 DEF IInv, TypeOK
<1>2. \A x \in Commands \ {m} : status'[x] = status[x] /\ resolution'[x] = resolution[x]
  BY <1>0 DEF IInv, TypeOK
<1>3. /\ status'[m] \in {"delivered", "cancelled"}
      /\ resolution'[m] # 0
  BY <1>0 DEF IInv, TypeOK
<1>4. JobsKnown' /\ DispatchOwned' /\ FencesHeld'
  BY <1>0, <1>2 DEF IInv, TypeOK, JobsKnown, DispatchOwned, FencesHeld, Owned,
                    InDispatch, InCall, SenderFence, RouteCurrent
<1>5. UncalledRows'
  <2>1. \A x \in Commands : status'[x] \in {"none", "queued"} => calls'[x] = 0
    BY <1>0, <1>2, <1>3 DEF IInv, UncalledRows
  <2>2. \A x \in Commands :
          status'[x] = "cancelled" /\ resolution'[x] = 0 => calls'[x] = 0
    BY <1>0, <1>2, <1>3 DEF IInv, UncalledRows
  <2>3. ASSUME NEW w \in Workers, pc'[w] \in {"claimed", "fenced"},
               Owned(w, job[w])'
        PROVE  calls'[job'[w]] = 0
    <3>1. job[w] \in Commands /\ status'[job[w]] = "dispatching"
      BY <1>0, <2>3 DEF IInv, JobsKnown, Owned
    <3>2. Owned(w, job[w])
      BY <1>0, <1>2, <1>3, <2>3, <3>1 DEF Owned
    <3>3. QED
      BY <1>0, <2>3, <3>2 DEF IInv, UncalledRows
  <2>4. QED
    BY <2>1, <2>2, <2>3 DEF UncalledRows
<1>6. ClaimedInOrder'
  <2>1. \A x \in Commands : status'[x] = "dispatching" => status[x] = "dispatching"
    BY <1>2, <1>3
  <2>2. \A x \in Commands : status'[x] \in Blocking => status[x] \in Blocking
    BY <1>2, <1>3 DEF Blocking
  <2>3. \A x \in Commands : status'[x] # "none" => status[x] # "none"
    BY <1>0, <1>2
  <2>4. QED
    BY <1>0, <2>1, <2>2, <2>3 DEF IInv, ClaimedInOrder, Earlier
<1>7. ReferencesUnique'
  <2>1. CASE provider_id' = provider_id
    BY <2>1 DEF IInv, ReferencesUnique
  <2>2. CASE /\ provider_id' = [provider_id EXCEPT ![m] = reference]
             /\ ReferenceAvailable(m, reference)
    <3>1. /\ provider_id'[m] = reference
          /\ \A x \in Commands \ {m} : provider_id'[x] = provider_id[x]
      BY <2>2 DEF IInv, TypeOK
    <3>2. QED
      BY <2>2, <3>1 DEF IInv, ReferencesUnique, ReferenceAvailable
  <2>3. QED
    BY <1>0, <2>1, <2>2
<1>8. OutcomesHonest' /\ ResolutionsSettle'
  <2>1. \A x \in Commands \ {m} : provider_id'[x] = provider_id[x]
    BY <1>0 DEF IInv, TypeOK
  <2>2. QED
    BY <1>0, <1>2, <1>3, <2>1 DEF IInv, OutcomesHonest, ResolutionsSettle
<1>9. SequencesIssued' /\ AtMostOneCall' /\ RequestsCalled'
  BY <1>0 DEF IInv, SequencesIssued, AtMostOneCall, RequestsCalled
<1>10. QED
  BY <1>1, <1>4, <1>5, <1>6, <1>7, <1>8, <1>9 DEF IInv

\* A worker drops its claim without touching the row: ownership lost, crash,
\* or an outcome the database refused.
LEMMA ForgetStep ==
  ASSUME IInv, NEW w \in Workers, Forget(w),
         UNCHANGED <<conv, route, next_sequence, rowVars, providerVars>>
  PROVE  IInv'
<1> USE DEF rowVars, providerVars
<1>0. /\ pc'[w] = "idle"
      /\ \A v \in Workers \ {w} : pc'[v] = pc[v] /\ job'[v] = job[v]
  BY DEF IInv, TypeOK, Forget
<1>1. TypeOK'
  BY DEF IInv, TypeOK, Forget
<1>2. InDispatch' \subseteq InDispatch \ {w} /\ InCall' \subseteq InCall \ {w}
  BY <1>0 DEF InDispatch, InCall
<1>3. JobsKnown' /\ DispatchOwned'
  BY <1>0, <1>2 DEF IInv, JobsKnown, DispatchOwned, Owned, InDispatch
<1>4. FencesHeld'
  BY <1>0, <1>2 DEF IInv, FencesHeld, SenderFence, RouteCurrent, InDispatch, InCall
<1>5. UncalledRows'
  BY <1>0 DEF IInv, UncalledRows, Owned
<1>6. /\ SequencesIssued' /\ AtMostOneCall' /\ ClaimedInOrder' /\ RequestsCalled'
      /\ ResolutionsSettle' /\ OutcomesHonest' /\ ReferencesUnique'
  BY DEF IInv, SequencesIssued, AtMostOneCall, ClaimedInOrder, RequestsCalled,
         ResolutionsSettle, OutcomesHonest, ReferencesUnique, Earlier
<1>7. QED
  BY <1>1, <1>3, <1>4, <1>5, <1>6 DEF IInv

\* The owner of a claim commits a final status for it and drops the claim.
LEMMA SettleStep ==
  ASSUME IInv, NEW w \in Workers, NEW to \in Statuses,
         pc[w] # "idle", Owned(w, job[w]), Settle(job[w], to), Forget(w),
         to \in {"cancelled", "accepted", "failed", "delivery_unknown"},
         to = "cancelled" => calls[job[w]] = 0,
         to = "accepted" => job[w] \in sent /\ provider_id'[job[w]] = job[w],
         to = "failed" => job[w] \notin sent \cup wire',
         \/ provider_id' = provider_id
         \/ /\ provider_id' = [provider_id EXCEPT ![job[w]] = job[w]]
            /\ ReferenceAvailable(job[w], job[w]),
         wire' \subseteq wire,
         UNCHANGED <<conv, route, next_sequence, snapshot, attempts,
                     resolution, sent, calls>>
  PROVE  IInv'
<1> USE OutboundAssumption
<1> DEFINE m == job[w]
<1>0. /\ m \in Commands
      /\ pc'[w] = "idle"
      /\ \A v \in Workers \ {w} : pc'[v] = pc[v] /\ job'[v] = job[v]
      /\ status[m] = "dispatching" /\ locked_by[m] = w
      /\ status'[m] = to
      /\ \A x \in Commands \ {m} : status'[x] = status[x] /\ locked_by'[x] = locked_by[x]
      /\ \A x \in Commands \ {m} : provider_id'[x] = provider_id[x]
  BY DEF IInv, TypeOK, JobsKnown, Forget, Settle, Owned
<1>1. TypeOK'
  <2>1. /\ status' \in [Commands -> Statuses]
        /\ locked_by' \in [Commands -> Workers \cup {None}]
        /\ locked_at' \in [Commands -> {"fresh", "stale", "null"}]
    BY <1>0 DEF IInv, TypeOK, Settle
  <2>2. provider_id' \in [Commands -> Commands \cup {None}]
    BY <1>0 DEF IInv, TypeOK
  <2>3. /\ pc' \in [Workers -> {"idle", "claimed", "fenced", "calling"}]
        /\ job' \in [Workers -> Commands \cup {None}]
    BY DEF IInv, TypeOK, Forget
  <2>4. wire' \subseteq Commands
    BY DEF IInv, TypeOK
  <2>5. QED
    BY <2>1, <2>2, <2>3, <2>4 DEF IInv, TypeOK
<1>2. InDispatch' \subseteq InDispatch \ {w} /\ InCall' \subseteq InCall \ {w}
  BY <1>0 DEF InDispatch, InCall
<1>3. JobsKnown'
  BY <1>0 DEF IInv, JobsKnown
<1>4. DispatchOwned'
  <2>1. ASSUME NEW v \in InDispatch'
        PROVE  Owned(v, job[v])'
    <3>1. v \in InDispatch /\ v # w /\ v \in Workers /\ job'[v] = job[v]
      BY <1>0, <1>2, <2>1 DEF InDispatch
    <3>2. Owned(v, job[v]) /\ job[v] \in Commands
      BY <3>1 DEF IInv, DispatchOwned, JobsKnown, InDispatch
    <3>3. job[v] # m
      BY <1>0, <3>1, <3>2 DEF Owned
    <3>4. QED
      BY <1>0, <3>1, <3>2, <3>3 DEF Owned
  <2>2. QED
    BY <2>1 DEF DispatchOwned
<1>5. FencesHeld'
  BY <1>0, <1>2 DEF IInv, FencesHeld, SenderFence, RouteCurrent, InDispatch, InCall
<1>6. UncalledRows'
  <2>1. \A x \in Commands : status'[x] \in {"none", "queued"} => calls'[x] = 0
    BY <1>0 DEF IInv, UncalledRows
  <2>2. \A x \in Commands :
          status'[x] = "cancelled" /\ resolution'[x] = 0 => calls'[x] = 0
    BY <1>0 DEF IInv, UncalledRows
  <2>3. ASSUME NEW v \in Workers, pc'[v] \in {"claimed", "fenced"},
               Owned(v, job[v])'
        PROVE  calls'[job'[v]] = 0
    <3>1. v # w /\ pc[v] = pc'[v] /\ job'[v] = job[v] /\ job[v] \in Commands
      BY <1>0, <2>3 DEF IInv, JobsKnown
    <3>2. job[v] # m
      BY <1>0, <2>3, <3>1 DEF Owned
    <3>3. Owned(v, job[v])
      BY <1>0, <2>3, <3>1, <3>2 DEF Owned
    <3>4. QED
      BY <2>3, <3>1, <3>3 DEF IInv, UncalledRows
  <2>4. QED
    BY <2>1, <2>2, <2>3 DEF UncalledRows
<1>7. ClaimedInOrder'
  <2>1. \A x \in Commands : status'[x] = "dispatching" => status[x] = "dispatching"
    BY <1>0
  <2>2. \A x \in Commands : status'[x] \in Blocking => status[x] \in Blocking
    BY <1>0 DEF Blocking
  <2>3. \A x \in Commands : status'[x] # "none" => status[x] # "none"
    BY <1>0
  <2>4. QED
    BY <2>1, <2>2, <2>3 DEF IInv, ClaimedInOrder, Earlier
<1>8. RequestsCalled' /\ OutcomesHonest'
  BY <1>0 DEF IInv, RequestsCalled, OutcomesHonest
<1>9. ResolutionsSettle'
  BY <1>0 DEF IInv, ResolutionsSettle
<1>10. ReferencesUnique'
  <2>1. CASE provider_id' = provider_id
    BY <2>1 DEF IInv, ReferencesUnique
  <2>2. CASE /\ provider_id' = [provider_id EXCEPT ![m] = m]
             /\ ReferenceAvailable(m, m)
    <3>1. provider_id'[m] = m
      BY <1>0, <2>2 DEF IInv, TypeOK
    <3>2. QED
      BY <1>0, <2>2, <3>1 DEF IInv, ReferencesUnique, ReferenceAvailable
  <2>3. QED
    BY <2>1, <2>2
<1>11. SequencesIssued' /\ AtMostOneCall'
  BY DEF IInv, SequencesIssued, AtMostOneCall
<1>12. QED
  BY <1>1, <1>3, <1>4, <1>5, <1>6, <1>7, <1>8, <1>9, <1>10, <1>11 DEF IInv

\* A claim grows old; no fence or order depends on its age.
LEMMA ClaimAgesInv ==
  ASSUME IInv, NEW m \in Commands, ClaimAges(m)
  PROVE  IInv'
<1> USE DEF rowVars, workerVars, providerVars
<1>0. /\ locked_at' = [locked_at EXCEPT ![m] = "stale"]
      /\ UNCHANGED <<conv, route, next_sequence, status, snapshot, locked_by,
                     attempts, provider_id, resolution, workerVars, providerVars>>
  BY DEF ClaimAges
<1>1. TypeOK'
  BY <1>0 DEF IInv, TypeOK
<1>2. /\ JobsKnown' /\ DispatchOwned' /\ SequencesIssued' /\ UncalledRows'
      /\ AtMostOneCall' /\ ClaimedInOrder' /\ RequestsCalled'
      /\ ResolutionsSettle' /\ OutcomesHonest' /\ ReferencesUnique'
  BY <1>0
     DEF IInv, JobsKnown, DispatchOwned, SequencesIssued, UncalledRows,
         AtMostOneCall, ClaimedInOrder, RequestsCalled, ResolutionsSettle,
         OutcomesHonest, ReferencesUnique, InDispatch, Owned, Earlier
<1>3. FencesHeld'
  BY <1>0 DEF IInv, FencesHeld, InDispatch, InCall, SenderFence, RouteCurrent
<1>4. QED
  BY <1>1, <1>2, <1>3 DEF IInv

\* The fence is checked under the locks that keep it true.
LEMMA RevalidateInv ==
  ASSUME IInv, NEW w \in Workers, Revalidate(w)
  PROVE  IInv'
<1> USE DEF rowVars, providerVars
<1>0. /\ pc[w] = "claimed"
      /\ Owned(w, job[w])
      /\ SenderFence(job[w], snapshot[job[w]])
      /\ pc' = [pc EXCEPT ![w] = "fenced"]
      /\ UNCHANGED <<conv, route, next_sequence, rowVars, job, providerVars>>
  BY DEF Revalidate
<1>1. /\ pc'[w] = "fenced"
      /\ \A v \in Workers \ {w} : pc'[v] = pc[v]
  BY <1>0 DEF IInv, TypeOK
<1>2. TypeOK'
  <2>1. pc' \in [Workers -> {"idle", "claimed", "fenced", "calling"}]
    BY <1>0 DEF IInv, TypeOK
  <2>2. QED
    BY <1>0, <2>1 DEF IInv, TypeOK
<1>3. InDispatch' = InDispatch \cup {w} /\ InCall' = InCall
  BY <1>0, <1>1 DEF InDispatch, InCall
<1>4. JobsKnown'
  BY <1>0, <1>1 DEF IInv, JobsKnown
<1>5. DispatchOwned'
  BY <1>0, <1>3 DEF IInv, DispatchOwned, Owned
<1>6. FencesHeld'
  BY <1>0, <1>3 DEF IInv, FencesHeld, SenderFence, RouteCurrent
<1>7. UncalledRows'
  BY <1>0, <1>1 DEF IInv, UncalledRows, Owned
<1>8. /\ SequencesIssued' /\ AtMostOneCall' /\ ClaimedInOrder' /\ RequestsCalled'
      /\ ResolutionsSettle' /\ OutcomesHonest' /\ ReferencesUnique'
  BY <1>0 DEF IInv, SequencesIssued, AtMostOneCall, ClaimedInOrder, RequestsCalled,
              ResolutionsSettle, OutcomesHonest, ReferencesUnique, Earlier
<1>9. QED
  BY <1>2, <1>4, <1>5, <1>6, <1>7, <1>8 DEF IInv

\* The one call: only the owner of the row makes it, and it was not made.
LEMMA StartCallInv ==
  ASSUME IInv, NEW w \in Workers, StartCall(w)
  PROVE  IInv'
<1> USE DEF rowVars
<1> DEFINE m == job[w]
<1>0. /\ pc[w] = "fenced"
      /\ RouteCurrent(m)
      /\ pc' = [pc EXCEPT ![w] = "calling"]
      /\ wire' = wire \cup {m}
      /\ calls' = [calls EXCEPT ![m] = calls[m] + 1]
      /\ UNCHANGED <<conv, route, next_sequence, rowVars, job, sent>>
  BY DEF StartCall
<1>1. /\ m \in Commands
      /\ w \in InDispatch
      /\ Owned(w, m)
      /\ calls[m] = 0
  BY <1>0 DEF IInv, JobsKnown, InDispatch, DispatchOwned, UncalledRows
<1>2. /\ pc'[w] = "calling"
      /\ \A v \in Workers \ {w} : pc'[v] = pc[v]
      /\ calls'[m] = 1
      /\ \A x \in Commands \ {m} : calls'[x] = calls[x]
  BY <1>0, <1>1 DEF IInv, TypeOK
<1>3. TypeOK'
  <2>1. pc' \in [Workers -> {"idle", "claimed", "fenced", "calling"}]
    BY <1>0 DEF IInv, TypeOK
  <2>2. calls' \in [Commands -> Nat]
    BY <1>0, <1>1 DEF IInv, TypeOK
  <2>3. wire' \subseteq Commands
    BY <1>0, <1>1 DEF IInv, TypeOK
  <2>4. QED
    BY <1>0, <2>1, <2>2, <2>3 DEF IInv, TypeOK
<1>4. InDispatch' = InDispatch /\ InCall' = InCall \cup {w}
  BY <1>0, <1>2 DEF InDispatch, InCall
<1>5. JobsKnown' /\ DispatchOwned'
  BY <1>0, <1>1, <1>2, <1>4 DEF IInv, JobsKnown, DispatchOwned, Owned
<1>6. FencesHeld'
  BY <1>0, <1>4 DEF IInv, FencesHeld, SenderFence, RouteCurrent
<1>7. UncalledRows'
  <2>1. \A x \in Commands : status'[x] \in {"none", "queued"} => calls'[x] = 0
    BY <1>0, <1>1, <1>2 DEF IInv, UncalledRows, Owned
  <2>2. \A x \in Commands :
          status'[x] = "cancelled" /\ resolution'[x] = 0 => calls'[x] = 0
    BY <1>0, <1>1, <1>2 DEF IInv, UncalledRows, Owned
  <2>3. ASSUME NEW v \in Workers, pc'[v] \in {"claimed", "fenced"},
               Owned(v, job[v])'
        PROVE  calls'[job'[v]] = 0
    <3>1. v # w /\ pc[v] = pc'[v] /\ job'[v] = job[v] /\ job[v] \in Commands
      BY <1>0, <1>2, <2>3 DEF IInv, JobsKnown
    <3>2. Owned(v, job[v]) /\ job[v] # m
      BY <1>0, <1>1, <2>3, <3>1 DEF Owned
    <3>3. QED
      BY <1>2, <2>3, <3>1, <3>2 DEF IInv, UncalledRows
  <2>4. QED
    BY <2>1, <2>2, <2>3 DEF UncalledRows
<1>8. AtMostOneCall'
  BY <1>1, <1>2 DEF IInv, AtMostOneCall
<1>9. ClaimedInOrder'
  <2>1. \A x \in Commands :
          (status[x] = "dispatching" \/ calls[x] > 0)' =>
            status[x] = "dispatching" \/ calls[x] > 0
    BY <1>0, <1>1, <1>2 DEF Owned
  <2>2. QED
    BY <1>0, <2>1 DEF IInv, ClaimedInOrder, Earlier
<1>10. RequestsCalled' /\ OutcomesHonest'
  <2>1. m \notin wire \cup sent
    BY <1>1 DEF IInv, RequestsCalled
  <2>2. RequestsCalled'
    <3>1. wire' \cap sent' = {}
      BY <1>0, <2>1 DEF IInv, RequestsCalled
    <3>2. ASSUME NEW x \in wire' \cup sent'
          PROVE  calls'[x] > 0
      BY <1>0, <1>2, <3>2 DEF IInv, RequestsCalled, TypeOK
    <3>3. QED
      BY <3>1, <3>2 DEF RequestsCalled
  <2>3. OutcomesHonest'
    BY <1>0, <1>1 DEF IInv, OutcomesHonest, Owned
  <2>4. QED
    BY <2>2, <2>3
<1>11. SequencesIssued' /\ ResolutionsSettle' /\ ReferencesUnique'
  BY <1>0 DEF IInv, SequencesIssued, ResolutionsSettle, ReferencesUnique
<1>12. QED
  BY <1>3, <1>5, <1>6, <1>7, <1>8, <1>9, <1>10, <1>11 DEF IInv

\* The provider acts on a request it was given.
LEMMA ProviderSendsInv ==
  ASSUME IInv, NEW m \in Commands, ProviderSends(m)
  PROVE  IInv'
<1> USE DEF rowVars, workerVars
<1>0. /\ m \in wire
      /\ wire' = wire \ {m}
      /\ sent' = sent \cup {m}
      /\ UNCHANGED <<conv, route, next_sequence, rowVars, workerVars, calls>>
  BY DEF ProviderSends
<1>1. TypeOK'
  BY <1>0 DEF IInv, TypeOK
<1>2. RequestsCalled'
  BY <1>0 DEF IInv, RequestsCalled
<1>3. OutcomesHonest'
  BY <1>0 DEF IInv, OutcomesHonest
<1>4. FencesHeld'
  BY <1>0 DEF IInv, FencesHeld, InDispatch, InCall, SenderFence, RouteCurrent
<1>5. /\ JobsKnown' /\ DispatchOwned' /\ SequencesIssued' /\ UncalledRows'
      /\ AtMostOneCall' /\ ClaimedInOrder'
      /\ ResolutionsSettle' /\ ReferencesUnique'
  BY <1>0
     DEF IInv, JobsKnown, DispatchOwned, SequencesIssued, UncalledRows,
         AtMostOneCall, ClaimedInOrder, ResolutionsSettle,
         ReferencesUnique, InDispatch, Owned, Earlier
<1>6. QED
  BY <1>1, <1>2, <1>3, <1>4, <1>5 DEF IInv

\* What recovery and cancellation of the heads S leave of every row.
LEMMA SweptRows ==
  ASSUME IInv, NEW S \in SUBSET Commands, CancellableHeads(S), NEW x \in Commands
  PROVE  \/ /\ x \in StaleDispatches
            /\ x \notin S
            /\ status[x] = "dispatching"
            /\ SweptStatus(S)[x] = "delivery_unknown"
         \/ /\ x \in S
            /\ x \notin StaleDispatches
            /\ status[x] = "queued"
            /\ SweptStatus(S)[x] = "cancelled"
            /\ SweptLock(locked_by, None)[x] = locked_by[x]
         \/ /\ x \notin S
            /\ x \notin StaleDispatches
            /\ SweptStatus(S)[x] = status[x]
            /\ SweptLock(locked_by, None)[x] = locked_by[x]
BY DEF CancellableHeads, StaleDispatches, SweptStatus, SweptLock

\* An open dispatch transaction keeps its row out of recovery's reach.
LEMMA DispatchNotSwept ==
  ASSUME IInv, NEW v \in InDispatch
  PROVE  job[v] \in Commands /\ job[v] \notin StaleDispatches
BY DEF IInv, JobsKnown, InDispatch, StaleDispatches, MessageFree

\* A worker sweeps the outbox and finds nothing to claim.
LEMMA ClaimNothingInv ==
  ASSUME IInv, NEW w \in Workers, NEW S \in SUBSET Commands, ClaimNothing(w, S)
  PROVE  IInv'
<1> USE DEF workerVars, providerVars
<1>0. /\ CancellableHeads(S)
      /\ status' = SweptStatus(S)
      /\ locked_by' = SweptLock(locked_by, None)
      /\ locked_at' = SweptLock(locked_at, "null")
      /\ UNCHANGED <<conv, route, next_sequence, snapshot, attempts, provider_id,
                     resolution, workerVars, providerVars>>
  BY DEF ClaimNothing
<1>1. TypeOK'
  BY <1>0, SweptType DEF IInv, TypeOK
<1>2. \A x \in Commands :
         \/ status[x] = "dispatching" /\ status'[x] = "delivery_unknown"
         \/ status[x] = "queued" /\ status'[x] = "cancelled"
         \/ status'[x] = status[x] /\ locked_by'[x] = locked_by[x]
  BY <1>0, SweptRows
<1>3. JobsKnown' /\ FencesHeld'
  BY <1>0 DEF IInv, JobsKnown, FencesHeld, InDispatch, InCall, SenderFence,
              RouteCurrent
<1>4. DispatchOwned'
  <2>1. ASSUME NEW v \in InDispatch'
        PROVE  Owned(v, job[v])'
    <3>1. v \in InDispatch
      BY <1>0, <2>1 DEF InDispatch
    <3>2. Owned(v, job[v]) /\ job[v] \in Commands /\ job[v] \notin StaleDispatches
      BY <3>1, DispatchNotSwept DEF IInv, DispatchOwned
    <3>3. status'[job[v]] = status[job[v]] /\ locked_by'[job[v]] = locked_by[job[v]]
      BY <1>0, <3>2, SweptRows DEF Owned
    <3>4. QED
      BY <1>0, <3>2, <3>3 DEF Owned
  <2>2. QED
    BY <2>1 DEF DispatchOwned
<1>5. UncalledRows'
  <2>1. \A x \in Commands : status'[x] \in {"none", "queued"} => calls'[x] = 0
    BY <1>0, <1>2 DEF IInv, UncalledRows
  <2>2. \A x \in Commands :
          status'[x] = "cancelled" /\ resolution'[x] = 0 => calls'[x] = 0
    BY <1>0, <1>2 DEF IInv, UncalledRows
  <2>3. ASSUME NEW v \in Workers, pc'[v] \in {"claimed", "fenced"},
               Owned(v, job[v])'
        PROVE  calls'[job'[v]] = 0
    <3>1. job[v] \in Commands
      BY <1>0, <2>3 DEF IInv, JobsKnown
    <3>2. Owned(v, job[v])
      BY <1>0, <1>2, <2>3, <3>1 DEF Owned
    <3>3. QED
      BY <1>0, <2>3, <3>2 DEF IInv, UncalledRows
  <2>4. QED
    BY <2>1, <2>2, <2>3 DEF UncalledRows
<1>6. ClaimedInOrder'
  <2>1. \A x \in Commands : status'[x] = "dispatching" => status[x] = "dispatching"
    BY <1>2
  <2>2. \A x \in Commands : status'[x] \in Blocking => status[x] \in Blocking
    BY <1>2 DEF Blocking
  <2>3. \A x \in Commands : status'[x] # "none" => status[x] # "none"
    BY <1>2
  <2>4. QED
    BY <1>0, <2>1, <2>2, <2>3 DEF IInv, ClaimedInOrder, Earlier
<1>7. ResolutionsSettle' /\ OutcomesHonest'
  BY <1>0, <1>2 DEF IInv, ResolutionsSettle, OutcomesHonest
<1>8. SequencesIssued' /\ AtMostOneCall' /\ RequestsCalled' /\ ReferencesUnique'
  BY <1>0 DEF IInv, SequencesIssued, AtMostOneCall, RequestsCalled, ReferencesUnique
<1>9. QED
  BY <1>1, <1>3, <1>4, <1>5, <1>6, <1>7, <1>8 DEF IInv

\* A worker claims a head: nothing before it in the conversation still blocks,
\* and the row was never called because it was queued.
LEMMA ClaimHeadInv ==
  ASSUME IInv, NEW w \in Workers, NEW S \in SUBSET Commands,
         NEW head \in Commands, ClaimHead(w, S, head)
  PROVE  IInv'
<1> USE OutboundAssumption DEF providerVars
<1>0. /\ pc[w] = "idle"
      /\ CancellableHeads(S)
      /\ EligibleHead(head, S)
      /\ status' = [SweptStatus(S) EXCEPT ![head] = "dispatching"]
      /\ locked_by' = [SweptLock(locked_by, None) EXCEPT ![head] = w]
      /\ locked_at' = [SweptLock(locked_at, "null") EXCEPT ![head] = "fresh"]
      /\ attempts' = [attempts EXCEPT ![head] = attempts[head] + 1]
      /\ pc' = [pc EXCEPT ![w] = "claimed"]
      /\ job' = [job EXCEPT ![w] = head]
      /\ UNCHANGED <<conv, route, next_sequence, snapshot, provider_id, resolution,
                     providerVars>>
  BY DEF ClaimHead
<1>1. TypeOK'
  <2>1. status' \in [Commands -> Statuses]
    BY <1>0, SweptType DEF IInv, Statuses
  <2>2. locked_by' \in [Commands -> Workers \cup {None}]
    BY <1>0, SweptType DEF IInv
  <2>3. locked_at' \in [Commands -> {"fresh", "stale", "null"}]
    BY <1>0, SweptType DEF IInv
  <2>4. attempts' \in [Commands -> Nat]
    BY <1>0 DEF IInv, TypeOK
  <2>5. /\ pc' \in [Workers -> {"idle", "claimed", "fenced", "calling"}]
        /\ job' \in [Workers -> Commands \cup {None}]
    BY <1>0 DEF IInv, TypeOK
  <2>6. QED
    BY <1>0, <2>1, <2>2, <2>3, <2>4, <2>5 DEF IInv, TypeOK
<1>2. /\ status[head] = "queued"
      /\ status'[head] = "dispatching"
      /\ locked_by'[head] = w
  BY <1>0, SweptType DEF IInv, EligibleHead
<1>3. \A x \in Commands \ {head} :
         /\ status'[x] = SweptStatus(S)[x]
         /\ locked_by'[x] = SweptLock(locked_by, None)[x]
  BY <1>0, SweptType DEF IInv
<1>4. \A x \in Commands \ {head} :
         \/ status[x] = "dispatching" /\ status'[x] = "delivery_unknown"
         \/ status[x] = "queued" /\ status'[x] = "cancelled"
         \/ status'[x] = status[x] /\ locked_by'[x] = locked_by[x]
  BY <1>0, <1>3, SweptRows
<1>5. /\ pc'[w] = "claimed" /\ job'[w] = head
      /\ \A v \in Workers \ {w} : pc'[v] = pc[v] /\ job'[v] = job[v]
  BY <1>0 DEF IInv, TypeOK
<1>6. /\ w \notin InDispatch
      /\ InDispatch' = InDispatch
      /\ InCall' = InCall
      /\ InCall \subseteq InDispatch
  BY <1>0, <1>5 DEF InDispatch, InCall
<1>7. \A v \in InDispatch : v \in Workers \ {w} /\ job'[v] = job[v]
  BY <1>5, <1>6 DEF InDispatch
<1>8. JobsKnown'
  BY <1>5 DEF IInv, JobsKnown
<1>9. FencesHeld'
  BY <1>0, <1>6, <1>7 DEF IInv, FencesHeld, SenderFence, RouteCurrent
<1>10. DispatchOwned'
  <2>1. ASSUME NEW v \in InDispatch
        PROVE  Owned(v, job[v])'
    <3>1. Owned(v, job[v]) /\ job[v] \in Commands /\ job[v] \notin StaleDispatches
      BY <2>1, DispatchNotSwept DEF IInv, DispatchOwned
    <3>2. job[v] # head
      BY <1>2, <3>1 DEF Owned
    <3>3. status'[job[v]] = status[job[v]] /\ locked_by'[job[v]] = locked_by[job[v]]
      BY <1>0, <1>3, <3>1, <3>2, SweptRows DEF Owned
    <3>4. QED
      BY <1>7, <3>1, <3>3 DEF Owned
  <2>2. QED
    BY <1>6, <2>1 DEF DispatchOwned
<1>11. UncalledRows'
  <2>0. calls'[head] = 0
    BY <1>0, <1>2 DEF IInv, UncalledRows
  <2>1. \A x \in Commands : status'[x] \in {"none", "queued"} => calls'[x] = 0
    BY <1>0, <1>2, <1>4 DEF IInv, UncalledRows
  <2>2. \A x \in Commands :
          status'[x] = "cancelled" /\ resolution'[x] = 0 => calls'[x] = 0
    BY <1>0, <1>2, <1>4 DEF IInv, UncalledRows
  <2>3. ASSUME NEW v \in Workers, pc'[v] \in {"claimed", "fenced"},
               Owned(v, job[v])'
        PROVE  calls'[job'[v]] = 0
    <3>1. CASE v = w
      BY <1>5, <2>0, <3>1
    <3>2. CASE v # w
      <4>1. pc[v] = pc'[v] /\ job'[v] = job[v] /\ job[v] \in Commands
        BY <1>5, <2>3, <3>2 DEF IInv, JobsKnown
      <4>2. job[v] # head
        BY <1>2, <2>3, <3>2, <4>1 DEF Owned
      <4>3. Owned(v, job[v])
        BY <1>4, <2>3, <4>1, <4>2 DEF Owned
      <4>4. QED
        BY <1>0, <2>3, <4>1, <4>3 DEF IInv, UncalledRows
    <3>3. QED
      BY <3>1, <3>2
  <2>4. QED
    BY <2>1, <2>2, <2>3 DEF UncalledRows
<1>12. ClaimedInOrder'
  <2>1. SUFFICES ASSUME NEW x \in Commands, NEW e \in Commands,
                        (status[x] = "dispatching" \/ calls[x] > 0)',
                        Earlier(e, x)'
                 PROVE  status'[e] \notin Blocking
    BY DEF ClaimedInOrder
  <2>2. Earlier(e, x)
    BY <1>0, <1>2, <1>4, <2>1 DEF Earlier
  <2>3. e # x
    BY <2>2 DEF IInv, TypeOK, Earlier, Snapshot
  <2>4. status[e] \notin Blocking \/ e \in S
    <3>1. CASE x = head
      BY <1>0, <2>2, <3>1 DEF EligibleHead
    <3>2. CASE x # head
      BY <1>0, <1>4, <2>1, <2>2, <3>2 DEF IInv, ClaimedInOrder
    <3>3. QED
      BY <3>1, <3>2
  <2>5. e # head
    BY <1>0, <1>2, <2>4 DEF EligibleHead, Blocking
  <2>6. QED
    BY <1>0, <1>3, <2>4, <2>5, SweptRows DEF Blocking
<1>13. ResolutionsSettle' /\ OutcomesHonest'
  BY <1>0, <1>2, <1>4 DEF IInv, ResolutionsSettle, OutcomesHonest
<1>14. SequencesIssued' /\ AtMostOneCall' /\ RequestsCalled' /\ ReferencesUnique'
  BY <1>0 DEF IInv, SequencesIssued, AtMostOneCall, RequestsCalled, ReferencesUnique
<1>15. QED
  BY <1>1, <1>8, <1>9, <1>10, <1>11, <1>12, <1>13, <1>14 DEF IInv

\* Every way a worker's dispatch transaction can end.
LEMMA DispatchEndsInv ==
  ASSUME IInv, NEW w \in Workers,
         \/ ClaimLost(w) \/ WorkerFails(w)
         \/ CancelStaleClaim(w) \/ CancelBeforeCall(w)
         \/ RecordAccepted(w) \/ RecordRejected(w) \/ RecordUnknown(w)
  PROVE  IInv'
<1> USE DEF Statuses
<1>1. CASE ClaimLost(w) \/ WorkerFails(w)
  BY <1>1, ForgetStep DEF ClaimLost, WorkerFails
<1>2. CASE CancelStaleClaim(w)
  <2>1. /\ pc[w] = "claimed" /\ Owned(w, job[w])
        /\ Settle(job[w], "cancelled") /\ Forget(w)
        /\ UNCHANGED <<conv, route, next_sequence, snapshot, attempts, provider_id,
                       resolution, wire, sent, calls>>
    BY <1>2 DEF CancelStaleClaim, providerVars
  <2>2. calls[job[w]] = 0
    BY <2>1 DEF IInv, UncalledRows
  <2>3. QED
    BY <2>1, <2>2, SettleStep
<1>3. CASE CancelBeforeCall(w)
  <2>1. /\ pc[w] = "fenced"
        /\ Settle(job[w], "cancelled") /\ Forget(w)
        /\ UNCHANGED <<conv, route, next_sequence, snapshot, attempts, provider_id,
                       resolution, wire, sent, calls>>
    BY <1>3 DEF CancelBeforeCall, providerVars
  <2>2. Owned(w, job[w]) /\ calls[job[w]] = 0
    BY <2>1 DEF IInv, DispatchOwned, UncalledRows, InDispatch
  <2>3. QED
    BY <2>1, <2>2, SettleStep
<1>4. ASSUME pc[w] = "calling"
      PROVE  Owned(w, job[w])
  BY <1>4 DEF IInv, DispatchOwned, InDispatch
<1>5. CASE RecordAccepted(w)
  <2>1. /\ pc[w] = "calling" /\ job[w] \in sent /\ Forget(w)
        /\ UNCHANGED <<conv, route, next_sequence, snapshot, attempts,
                       resolution, wire, sent, calls>>
    BY <1>5 DEF RecordAccepted, providerVars
  <2>2. CASE ReferenceAvailable(job[w], job[w])
    <3>1. /\ Settle(job[w], "accepted")
          /\ provider_id' = [provider_id EXCEPT ![job[w]] = job[w]]
      BY <1>5, <2>2 DEF RecordAccepted
    <3>2. provider_id'[job[w]] = job[w]
      BY <2>1, <3>1 DEF IInv, TypeOK, JobsKnown
    <3>3. QED
      BY <1>4, <2>1, <2>2, <3>1, <3>2, SettleStep
  <2>3. CASE ~ReferenceAvailable(job[w], job[w])
    <3>1. UNCHANGED <<status, locked_by, locked_at, provider_id>>
      BY <1>5, <2>3 DEF RecordAccepted
    <3>2. QED
      BY <2>1, <3>1, ForgetStep DEF rowVars, providerVars
  <2>4. QED
    BY <2>2, <2>3
<1>6. CASE RecordRejected(w)
  <2>1. /\ pc[w] = "calling" /\ job[w] \in wire /\ Forget(w)
        /\ wire' = wire \ {job[w]}
        /\ Settle(job[w], "failed")
        /\ UNCHANGED <<conv, route, next_sequence, snapshot, attempts, provider_id,
                       resolution, sent, calls>>
    BY <1>6 DEF RecordRejected
  <2>2. job[w] \notin sent \cup wire'
    BY <2>1 DEF IInv, RequestsCalled
  <2>3. QED
    BY <1>4, <2>1, <2>2, SettleStep
<1>7. CASE RecordUnknown(w)
  <2>1. /\ pc[w] = "calling" /\ Forget(w)
        /\ Settle(job[w], "delivery_unknown")
        /\ UNCHANGED <<conv, route, next_sequence, snapshot, attempts, provider_id,
                       resolution, wire, sent, calls>>
    BY <1>7 DEF RecordUnknown, providerVars
  <2>2. QED
    BY <1>4, <2>1, SettleStep
<1>8. QED
  BY <1>1, <1>2, <1>3, <1>5, <1>6, <1>7

\* The empty outbox satisfies the invariant.
LEMMA InitInv == Init => IInv
<1> SUFFICES ASSUME Init PROVE IInv
  OBVIOUS
<1> USE ControlAssumption, OutboundAssumption DEF Init
<1>2. /\ \A c \in Conversations : InitialConversation(c) \in Conversation
      /\ NoSnapshot \in Snapshot
  BY DEF InitialConversation, Conversation, Modes, NoSnapshot, Snapshot
<1>3. TypeOK
  <2>1. conv \in [Conversations -> Conversation]
    BY <1>2 DEF ControlInit
  <2>2. snapshot \in [Commands -> Snapshot]
    BY <1>2
  <2>3. QED
    BY <2>1, <2>2 DEF TypeOK, Statuses
<1>4. InDispatch = {} /\ InCall = {}
  BY DEF InDispatch, InCall
<1>5. JobsKnown /\ DispatchOwned /\ FencesHeld
  BY <1>4 DEF JobsKnown, DispatchOwned, FencesHeld
<1>6. SequencesIssued
  BY DEF SequencesIssued, NoSnapshot
<1>7. UncalledRows /\ AtMostOneCall /\ ClaimedInOrder /\ RequestsCalled
  BY DEF UncalledRows, AtMostOneCall, ClaimedInOrder, RequestsCalled, Earlier
<1>8. ResolutionsSettle /\ OutcomesHonest /\ ReferencesUnique
  BY DEF ResolutionsSettle, OutcomesHonest, ReferencesUnique
<1>9. QED
  BY <1>3, <1>5, <1>6, <1>7, <1>8 DEF IInv

\* Every step keeps the invariant.
LEMMA NextInv == IInv /\ [Next]_vars => IInv'
<1>1. SUFFICES ASSUME IInv, [Next]_vars PROVE IInv'
  OBVIOUS
<1>2. CASE Operate
  <2> USE ControlAssumption
  <2>1. ASSUME NEW m \in Commands, NEW v \in 0..MaxControl, NEW a \in Agents,
               NEW av \in 0..MaxAutomation, EnqueueAutomation(m, v, a, av)
        PROVE  IInv'
    <3>0. v \in Nat /\ av \in Nat
      OBVIOUS
    <3>1. [NoSnapshot EXCEPT !.control_version = v, !.automation_agent = a,
                             !.automation_version = av] \in Snapshot
      BY <3>0 DEF NoSnapshot, Snapshot
    <3>2. QED
      BY <1>1, <2>1, <3>1, EnqueueInv DEF EnqueueAutomation
  <2>2. ASSUME NEW m \in Commands, NEW admin \in Admins, NEW v \in 0..MaxControl,
               RecordOperatorMessage(m, admin, v)
        PROVE  IInv'
    <3>0. v \in Nat
      OBVIOUS
    <3>1. [NoSnapshot EXCEPT !.sender_admin = admin, !.control_version = v]
             \in Snapshot
      BY <3>0 DEF NoSnapshot, Snapshot
    <3>2. QED
      BY <1>1, <2>2, <3>1, EnqueueInv DEF RecordOperatorMessage
  <2>3. ASSUME NEW c \in Conversations, NEW actor \in Admins, NEW target \in Modes,
               NEW requested \in Admins \cup {NoAdmin}, NEW v \in 0..MaxControl,
               ControlTransition(c, actor, target, requested, v)
        PROVE  IInv'
    BY <1>1, <2>3, ControlTransitionInv
  <2>4. ASSUME NEW c \in Conversations, NEW a \in Agents, NEW av \in 0..MaxAutomation,
               AutomationAssign(c, a, av)
        PROVE  IInv'
    BY <1>1, <2>4, AutomationAssignInv
  <2>5. ASSUME NEW r \in Routes, NEW active \in BOOLEAN, ConfigureRoute(r, active)
        PROVE  IInv'
    BY <1>1, <2>5, ConfigureRouteInv
  <2>6. ASSUME NEW m \in Commands, NEW v \in {0, 1},
               NEW reference \in Commands \cup {None}, Resolve(m, v, reference)
        PROVE  IInv'
    BY <1>1, <2>6, ResolveInv
  <2>7. QED
    BY <1>2, <2>1, <2>2, <2>3, <2>4, <2>5, <2>6 DEF Operate
<1>3. ASSUME NEW w \in Workers, Claim(w)
      PROVE  IInv'
  BY <1>1, <1>3, ClaimHeadInv, ClaimNothingInv DEF Claim
<1>4. ASSUME NEW w \in Workers, Dispatch(w) \/ RecordOutcome(w) \/ WorkerFails(w)
      PROVE  IInv'
  BY <1>1, <1>4, RevalidateInv, StartCallInv, DispatchEndsInv
     DEF Dispatch, RecordOutcome
<1>5. ASSUME NEW m \in Commands, ClaimAges(m) \/ ProviderSends(m)
      PROVE  IInv'
  BY <1>1, <1>5, ClaimAgesInv, ProviderSendsInv
<1>6. CASE UNCHANGED vars
  <2>1. UNCHANGED <<conv, route, next_sequence, status, snapshot, locked_by,
                    locked_at, attempts, provider_id, resolution, pc, job, wire,
                    sent, calls>>
    BY <1>6 DEF vars, rowVars, workerVars, providerVars
  <2>2. TypeOK'
    BY <1>1, <2>1 DEF IInv, TypeOK
  <2>3. FencesHeld'
    BY <1>1, <2>1 DEF IInv, FencesHeld, InDispatch, InCall, SenderFence, RouteCurrent
  <2>4. /\ JobsKnown' /\ DispatchOwned' /\ SequencesIssued' /\ UncalledRows'
        /\ AtMostOneCall' /\ ClaimedInOrder' /\ RequestsCalled'
        /\ ResolutionsSettle' /\ OutcomesHonest' /\ ReferencesUnique'
    BY <1>1, <2>1
       DEF IInv, JobsKnown, DispatchOwned, SequencesIssued, UncalledRows,
           AtMostOneCall, ClaimedInOrder, RequestsCalled, ResolutionsSettle,
           OutcomesHonest, ReferencesUnique, InDispatch, Owned, Earlier
  <2>5. QED
    BY <2>2, <2>3, <2>4 DEF IInv
<1>7. QED
  BY <1>1, <1>2, <1>3, <1>4, <1>5, <1>6 DEF Next

\* The inductive invariant holds in every state of every behaviour.
THEOREM Invariance == Spec => []IInv
BY InitInv, NextInv, PTL DEF Spec

-----------------------------------------------------------------------------
(* The properties of OutboundDelivery.                                     *)

\* Type correctness of the outbox, the workers and the control columns.
THEOREM TypeCorrect == Spec => []TypeOK
<1>1. IInv => TypeOK
  BY DEF IInv
<1>2. QED
  BY <1>1, Invariance, PTL

\* dispatch_claim reaches the provider at most once per command, for any number
\* of workers, crashes, timeouts and operator resolutions.
THEOREM AtMostOnce == Spec => []AtMostOneCall
<1>1. IInv => AtMostOneCall
  BY DEF IInv
<1>2. QED
  BY <1>1, Invariance, PTL

\* No provider call is in progress under a control, acting-agent or route epoch
\* other than the one its message was enqueued in.
THEOREM EpochsFence == Spec => []CallUnderCurrentEpoch
<1>1. IInv => CallUnderCurrentEpoch
  BY DEF IInv, FencesHeld, CallUnderCurrentEpoch, InCall, InDispatch
<1>2. QED
  BY <1>1, Invariance, PTL

\* Provider calls of one conversation follow the order of enqueue, and an
\* uncertain delivery stops the lane.
THEOREM StrictOrder == Spec => []DispatchedInOrder
<1>1. IInv => DispatchedInOrder
  BY DEF IInv, ClaimedInOrder, DispatchedInOrder, Blocking
<1>2. QED
  BY <1>1, Invariance, PTL

\* The recorded status of a delivery agrees with what happened at the provider.
THEOREM HonestStatus == Spec => []StatusIsHonest
<1>1. IInv => StatusIsHonest
  BY DEF IInv, OutcomesHonest, UncalledRows, StatusIsHonest
<1>2. QED
  BY <1>1, Invariance, PTL

\* A provider message id identifies one delivery of its route.
THEOREM UniqueReferences == Spec => []ReferencesUnique
<1>1. IInv => ReferencesUnique
  BY DEF IInv
<1>2. QED
  BY <1>1, Invariance, PTL

\* A step that only moves rows that are new, queued or being dispatched.
LEMMA LiveRowsOnly ==
  ASSUME \A x \in Commands :
           status'[x] = status[x] \/ status[x] \in {"none", "queued", "dispatching"}
  PROVE  \A x \in Commands : SettledForEver(x)
BY DEF SettledForEver

\* Every row a step moves is live, or is an uncertain one an operator resolves.
LEMMA SettledStep ==
  IInv /\ [Next]_vars => [\A x \in Commands : SettledForEver(x)]_vars
<1>1. SUFFICES ASSUME IInv, Next
               PROVE  \A x \in Commands : SettledForEver(x)
  OBVIOUS
<1>2. ASSUME NEW m \in Commands, NEW snap, Enqueue(m, snap)
      PROVE  \A x \in Commands : SettledForEver(x)
  <2>1. status[m] = "none" /\ status' = [status EXCEPT ![m] = "queued"]
    BY <1>2 DEF Enqueue
  <2>2. QED
    BY <1>1, <2>1, LiveRowsOnly DEF IInv, TypeOK
<1>3. ASSUME NEW m \in Commands, NEW v \in {0, 1},
             NEW reference \in Commands \cup {None}, Resolve(m, v, reference)
      PROVE  \A x \in Commands : SettledForEver(x)
  <2>1. /\ status[m] = "delivery_unknown"
        /\ resolution[m] = 0
        /\ \/ status' = [status EXCEPT ![m] = "delivered"]
           \/ status' = [status EXCEPT ![m] = "cancelled"]
        /\ resolution' = [resolution EXCEPT ![m] = resolution[m] + 1]
    BY <1>1, <1>3 DEF Resolve, IInv, ResolutionsSettle
  <2>2. /\ status'[m] \in {"delivered", "cancelled"}
        /\ resolution'[m] = 1
        /\ \A x \in Commands \ {m} : status'[x] = status[x]
    BY <1>1, <2>1 DEF IInv, TypeOK
  <2>3. QED
    BY <2>1, <2>2 DEF SettledForEver
<1>4. CASE UNCHANGED status
  BY <1>4, LiveRowsOnly
<1>5. ASSUME NEW w \in Workers, Claim(w)
      PROVE  \A x \in Commands : SettledForEver(x)
  <2>1. PICK S \in SUBSET Commands :
          (\E head \in Commands : ClaimHead(w, S, head)) \/ ClaimNothing(w, S)
    BY <1>5 DEF Claim
  <2>2. CASE ClaimNothing(w, S)
    <3>1. CancellableHeads(S) /\ status' = SweptStatus(S)
      BY <2>2 DEF ClaimNothing
    <3>2. QED
      BY <1>1, <3>1, SweptRows, LiveRowsOnly
  <2>3. ASSUME NEW head \in Commands, ClaimHead(w, S, head)
        PROVE  \A x \in Commands : SettledForEver(x)
    <3>1. /\ CancellableHeads(S)
          /\ status[head] = "queued"
          /\ status' = [SweptStatus(S) EXCEPT ![head] = "dispatching"]
      BY <2>3 DEF ClaimHead, EligibleHead
    <3>2. \A x \in Commands \ {head} : status'[x] = SweptStatus(S)[x]
      BY <1>1, <3>1, SweptType DEF IInv
    <3>3. QED
      BY <1>1, <3>1, <3>2, SweptRows, LiveRowsOnly
  <2>4. QED
    BY <2>1, <2>2, <2>3
<1>6. ASSUME NEW w \in Workers, NEW to, pc[w] # "idle", Owned(w, job[w]),
             Settle(job[w], to)
      PROVE  \A x \in Commands : SettledForEver(x)
  <2>1. /\ job[w] \in Commands
        /\ status[job[w]] = "dispatching"
        /\ status' = [status EXCEPT ![job[w]] = to]
    BY <1>1, <1>6 DEF IInv, JobsKnown, Owned, Settle
  <2>2. QED
    BY <1>1, <2>1, LiveRowsOnly DEF IInv, TypeOK
<1>7. ASSUME NEW w \in Workers, Dispatch(w) \/ RecordOutcome(w) \/ WorkerFails(w)
      PROVE  \A x \in Commands : SettledForEver(x)
  <2>1. \/ UNCHANGED status
        \/ pc[w] = "claimed" /\ Owned(w, job[w]) /\ Settle(job[w], "cancelled")
        \/ pc[w] = "fenced" /\ Settle(job[w], "cancelled")
        \/ \E to \in Statuses : pc[w] = "calling" /\ Settle(job[w], to)
    BY <1>7 DEF Dispatch, RecordOutcome, ClaimLost, Revalidate, CancelStaleClaim,
                StartCall, CancelBeforeCall, RecordAccepted, RecordRejected,
                RecordUnknown, WorkerFails, rowVars, Statuses
  <2>2. ASSUME pc[w] \in {"fenced", "calling"}
        PROVE  Owned(w, job[w])
    BY <1>1, <2>2 DEF IInv, DispatchOwned, InDispatch
  <2>3. QED
    BY <1>4, <1>6, <2>1, <2>2
<1>8. CASE Operate
  BY <1>2, <1>3, <1>4, <1>8
     DEF Operate, EnqueueAutomation, RecordOperatorMessage, ControlTransition,
         AutomationAssign, ConfigureRoute, rowVars
<1>9. ASSUME NEW m \in Commands, ClaimAges(m) \/ ProviderSends(m)
      PROVE  \A x \in Commands : SettledForEver(x)
  BY <1>4, <1>9 DEF ClaimAges, ProviderSends, rowVars
<1>10. QED
  BY <1>1, <1>5, <1>7, <1>8, <1>9 DEF Next

\* A settled delivery is final and an uncertain one is settled by exactly one
\* operator resolution.
THEOREM SettlementIsFinal == Spec => OnlyOperatorsSettleUncertainty
<1>1. Spec => [][\A x \in Commands : SettledForEver(x)]_vars
  BY Invariance, SettledStep, PTL DEF Spec
<1>2. QED
  BY <1>1, PTL DEF OnlyOperatorsSettleUncertainty

-----------------------------------------------------------------------------
(* The outbox implements OutboundLane.                                     *)

\* How a step may move row x so that its sender is told the truth.
RowTold(x) ==
  \/ status'[x] = status[x] /\ resolution'[x] = resolution[x]
  \/ /\ status[x] \in {"queued", "dispatching"}
     /\ \/ status'[x] \in {"queued", "dispatching", "delivery_unknown"}
        \/ status'[x] = "accepted" /\ x \in sent
        \/ status'[x] = "failed" /\ calls[x] = 1 /\ x \notin sent
        \/ status'[x] = "cancelled" /\ resolution'[x] = 0 /\ calls[x] = 0
  \/ /\ status[x] = "delivery_unknown"
     /\ \/ status'[x] = "delivered"
        \/ status'[x] = "cancelled" /\ resolution'[x] # 0

\* A step that only moves rows truthfully is the lane's Tell.
LEMMA TellStep ==
  ASSUME IInv, TypeOK', UNCHANGED <<next_sequence, snapshot, calls, sent>>,
         \A x \in Commands : RowTold(x)
  PROVE  Lane!Tell
<1>1. \A x \in Commands :
        Outcome(x)' \in Lane!Final \cup {"absent", "pending", "uncertain"}
  BY DEF TypeOK, Statuses, Outcome, Lane!Final
<1>2. ASSUME NEW x \in Commands
      PROVE  Lane!Told(x)
  <2>1. /\ status[x] \in Statuses /\ status'[x] \in Statuses
        /\ RowTold(x)
    BY DEF IInv, TypeOK
  <2>2. \/ Outcome(x)' = Outcome(x)
        \/ /\ Outcome(x) = "pending"
           /\ \/ Outcome(x)' = "uncertain"
              \/ Outcome(x)' = "sent" /\ x \in sent
              \/ Outcome(x)' = "refused" /\ calls[x] = 1 /\ x \notin sent
              \/ Outcome(x)' = "dropped" /\ calls[x] = 0
        \/ Outcome(x) = "uncertain" /\ Outcome(x)' \in {"confirmed", "denied"}
    BY <2>1 DEF RowTold, Outcome, Statuses
  <2>3. QED
    BY <2>2 DEF Lane!Told
<1>3. QED
  BY <1>1, <1>2 DEF Lane!Tell

\* A row that a step does not touch is told nothing new.
LEMMA LaneStutters ==
  ASSUME UNCHANGED <<next_sequence, status, snapshot, resolution, calls, sent>>
  PROVE  UNCHANGED Lane!vars
BY DEF Lane!vars, Outcome

\* A message enters a lane as OutboundLane lets it.
LEMMA EnterStep ==
  ASSUME IInv, NEW m \in Commands, NEW snap \in Snapshot, Enqueue(m, snap)
  PROVE  Lane!Enter(m)
<1> USE OutboundAssumption DEF providerVars
<1>1. /\ status[m] = "none"
      /\ status' = [status EXCEPT ![m] = "queued"]
      /\ next_sequence' = [next_sequence EXCEPT ![ConvOf[m]] = @ + 1]
      /\ UNCHANGED <<resolution, calls, sent>>
  BY DEF Enqueue
<1>2. /\ \A x \in Commands \ {m} : snapshot'[x] = snapshot[x]
      /\ snapshot'[m].sequence = next_sequence[ConvOf[m]]
  <2>1. snapshot' = [snapshot EXCEPT
           ![m] = [snap EXCEPT !.route_version = route[RouteOf[ConvOf[m]]].version,
                               !.sequence = next_sequence[ConvOf[m]]]]
    BY DEF Enqueue
  <2>2. QED
    BY <2>1 DEF IInv, TypeOK, Snapshot
<1>3. [x \in Commands |-> snapshot[x].sequence]' =
        [[x \in Commands |-> snapshot[x].sequence] EXCEPT
           ![m] = next_sequence[ConvOf[m]]]
  BY <1>2
<1>4. /\ Outcome(m) = "absent" /\ Outcome(m)' = "pending"
      /\ \A x \in Commands \ {m} : Outcome(x)' = Outcome(x)
  BY <1>1 DEF IInv, TypeOK, Outcome
<1>5. [x \in Commands |-> Outcome(x)]' =
        [[x \in Commands |-> Outcome(x)] EXCEPT ![m] = "pending"]
  BY <1>4
<1>6. QED
  BY <1>1, <1>3, <1>4, <1>5 DEF Lane!Enter

\* The one call is made for a head, so everything ahead of it is final.
LEMMA AskStep ==
  ASSUME IInv, NEW w \in Workers, StartCall(w)
  PROVE  Lane!Ask(job[w])
<1> DEFINE m == job[w]
<1>1. m \in Commands /\ Owned(w, m) /\ pc[w] = "fenced"
  BY DEF IInv, JobsKnown, DispatchOwned, InDispatch, StartCall
<1>2. Outcome(m) = "pending" /\ calls[m] = 0
  BY <1>1 DEF IInv, UncalledRows, Owned, Outcome
<1>3. ASSUME NEW e \in Commands, Lane!Ahead(e, m)
      PROVE  Outcome(e) \in Lane!Final
  <2>1. Earlier(e, m)
    BY <1>1, <1>3 DEF Lane!Ahead, Earlier, Outcome
  <2>2. status[e] \in Statuses \ (Blocking \cup {"none"})
    BY <1>1, <2>1 DEF IInv, TypeOK, ClaimedInOrder, Owned, Earlier
  <2>3. QED
    BY <2>2 DEF Statuses, Blocking, Outcome, Lane!Final
<1>4. calls' = [calls EXCEPT ![m] = 1]
  BY <1>1, <1>2 DEF StartCall, IInv, TypeOK
<1>5. UNCHANGED <<next_sequence, status, snapshot, resolution, sent>>
  BY DEF StartCall, rowVars
<1>6. UNCHANGED <<next_sequence, [x \in Commands |-> snapshot[x].sequence],
                  [x \in Commands |-> Outcome(x)], sent>>
  BY <1>5 DEF Outcome
<1>7. QED
  BY <1>1, <1>2, <1>3, <1>4, <1>6 DEF Lane!Ask

\* The provider acts only on a call that was made and not refused.
LEMMA ActStep ==
  ASSUME IInv, NEW m \in Commands, ProviderSends(m)
  PROVE  Lane!Act(m)
<1>1. /\ m \in wire /\ m \notin sent
      /\ sent' = sent \cup {m}
      /\ UNCHANGED <<next_sequence, status, snapshot, resolution, calls>>
  BY DEF ProviderSends, rowVars, IInv, RequestsCalled
<1>2. calls[m] = 1
  BY <1>1 DEF IInv, TypeOK, RequestsCalled, AtMostOneCall
<1>3. Outcome(m) \notin {"refused", "dropped"}
  BY <1>1, <1>2 DEF IInv, TypeOK, Statuses, OutcomesHonest, UncalledRows, Outcome
<1>4. UNCHANGED <<next_sequence, [x \in Commands |-> snapshot[x].sequence],
                  [x \in Commands |-> Outcome(x)], calls>>
  BY <1>1 DEF Outcome
<1>5. QED
  BY <1>1, <1>2, <1>3, <1>4 DEF Lane!Act

\* A worker settles the row it owns with what it knows.
LEMMA SettleTells ==
  ASSUME IInv, TypeOK', NEW w \in Workers, pc[w] # "idle", Owned(w, job[w]),
         NEW to, Settle(job[w], to),
         UNCHANGED <<next_sequence, snapshot, resolution, calls, sent>>,
         \/ to = "delivery_unknown"
         \/ to = "accepted" /\ job[w] \in sent
         \/ to = "failed" /\ calls[job[w]] = 1 /\ job[w] \notin sent
         \/ to = "cancelled" /\ calls[job[w]] = 0
  PROVE  Lane!Tell
<1>1. job[w] \in Commands /\ status[job[w]] = "dispatching"
  BY DEF IInv, JobsKnown, Owned
<1>2. resolution[job[w]] = 0
  BY <1>1 DEF IInv, ResolutionsSettle
<1>3. /\ status'[job[w]] = to
      /\ \A x \in Commands \ {job[w]} : status'[x] = status[x]
  BY <1>1 DEF IInv, TypeOK, Settle
<1>4. \A x \in Commands : RowTold(x)
  BY <1>1, <1>2, <1>3 DEF RowTold
<1>5. QED
  BY <1>4, TellStep

\* A worker's dispatch transaction tells one row's outcome, or nothing.
LEMMA DispatchTells ==
  ASSUME IInv, TypeOK', NEW w \in Workers,
         \/ ClaimLost(w) \/ Revalidate(w) \/ WorkerFails(w)
         \/ CancelStaleClaim(w) \/ CancelBeforeCall(w)
         \/ RecordAccepted(w) \/ RecordRejected(w) \/ RecordUnknown(w)
  PROVE  Lane!Tell \/ UNCHANGED Lane!vars
<1> USE DEF rowVars, providerVars
<1>1. CASE ClaimLost(w) \/ Revalidate(w) \/ WorkerFails(w)
  BY <1>1, LaneStutters DEF ClaimLost, Revalidate, WorkerFails
<1>2. CASE CancelStaleClaim(w)
  <2>1. calls[job[w]] = 0
    BY <1>2 DEF CancelStaleClaim, IInv, UncalledRows
  <2>2. QED
    BY <1>2, <2>1, SettleTells DEF CancelStaleClaim
<1>3. ASSUME pc[w] \in {"fenced", "calling"}
      PROVE  Owned(w, job[w]) /\ job[w] \in Commands
  BY <1>3 DEF IInv, DispatchOwned, JobsKnown, InDispatch
<1>4. CASE CancelBeforeCall(w)
  <2>1. pc[w] = "fenced" /\ Owned(w, job[w]) /\ calls[job[w]] = 0
    BY <1>3, <1>4 DEF CancelBeforeCall, IInv, UncalledRows
  <2>2. QED
    BY <1>4, <2>1, SettleTells DEF CancelBeforeCall
<1>5. CASE RecordAccepted(w)
  <2>1. CASE ReferenceAvailable(job[w], job[w])
    BY <1>3, <1>5, <2>1, SettleTells DEF RecordAccepted
  <2>2. CASE ~ReferenceAvailable(job[w], job[w])
    BY <1>5, <2>2, LaneStutters DEF RecordAccepted
  <2>3. QED
    BY <2>1, <2>2
<1>6. CASE RecordRejected(w)
  <2>1. pc[w] = "calling" /\ job[w] \in wire
    BY <1>6 DEF RecordRejected
  <2>2. calls[job[w]] = 1 /\ job[w] \notin sent
    BY <1>3, <2>1 DEF IInv, TypeOK, RequestsCalled, AtMostOneCall
  <2>3. QED
    BY <1>3, <1>6, <2>1, <2>2, SettleTells DEF RecordRejected
<1>7. CASE RecordUnknown(w)
  BY <1>3, <1>7, SettleTells DEF RecordUnknown
<1>8. QED
  BY <1>1, <1>2, <1>4, <1>5, <1>6, <1>7

\* One sweep tells of every row it recovers, as uncertain, and of every head it
\* drops, for which the provider was never asked.
LEMMA ClaimTells ==
  ASSUME IInv, TypeOK', NEW w \in Workers, Claim(w)
  PROVE  Lane!Tell
<1>1. PICK S \in SUBSET Commands :
        (\E head \in Commands : ClaimHead(w, S, head)) \/ ClaimNothing(w, S)
  BY DEF Claim
<1>2. CancellableHeads(S)
  BY <1>1 DEF ClaimHead, ClaimNothing
<1>3. UNCHANGED <<next_sequence, snapshot, resolution, calls, sent>>
  BY <1>1 DEF ClaimHead, ClaimNothing, providerVars
<1>4. ASSUME NEW x \in Commands, status'[x] = SweptStatus(S)[x]
      PROVE  RowTold(x)
  <2>1. status[x] = "queued" => calls[x] = 0 /\ resolution[x] = 0
    BY DEF IInv, UncalledRows, ResolutionsSettle
  <2>2. \/ status[x] = "dispatching" /\ status'[x] = "delivery_unknown"
        \/ status[x] = "queued" /\ status'[x] = "cancelled"
        \/ status'[x] = status[x]
    BY <1>2, <1>4, SweptRows
  <2>3. QED
    BY <1>3, <2>1, <2>2 DEF RowTold
<1>5. CASE ClaimNothing(w, S)
  <2>1. \A x \in Commands : RowTold(x)
    BY <1>4, <1>5 DEF ClaimNothing
  <2>2. QED
    BY <1>3, <2>1, TellStep
<1>6. ASSUME NEW head \in Commands, ClaimHead(w, S, head)
      PROVE  Lane!Tell
  <2>1. /\ status[head] = "queued"
        /\ status' = [SweptStatus(S) EXCEPT ![head] = "dispatching"]
    BY <1>6 DEF ClaimHead, EligibleHead
  <2>2. /\ status'[head] = "dispatching"
        /\ \A x \in Commands \ {head} : status'[x] = SweptStatus(S)[x]
    BY <2>1, SweptType DEF IInv
  <2>3. RowTold(head)
    BY <2>1, <2>2 DEF RowTold
  <2>4. \A x \in Commands : RowTold(x)
    BY <1>4, <2>2, <2>3
  <2>5. QED
    BY <1>3, <2>4, TellStep
<1>7. QED
  BY <1>1, <1>5, <1>6

\* Only an operator's verdict tells more about an uncertain delivery.
LEMMA ResolveTells ==
  ASSUME IInv, TypeOK', NEW m \in Commands, NEW v,
         NEW reference \in Commands \cup {None}, Resolve(m, v, reference)
  PROVE  Lane!Tell
<1>1. /\ status[m] = "delivery_unknown"
      /\ \/ status' = [status EXCEPT ![m] = "delivered"]
         \/ status' = [status EXCEPT ![m] = "cancelled"]
      /\ resolution' = [resolution EXCEPT ![m] = resolution[m] + 1]
      /\ UNCHANGED <<next_sequence, snapshot, calls, sent>>
  BY DEF Resolve, providerVars
<1>2. /\ status'[m] \in {"delivered", "cancelled"}
      /\ resolution'[m] # 0
      /\ \A x \in Commands \ {m} : status'[x] = status[x] /\ resolution'[x] = resolution[x]
  BY <1>1 DEF IInv, TypeOK
<1>3. \A x \in Commands : RowTold(x)
  BY <1>1, <1>2 DEF RowTold
<1>4. QED
  BY <1>1, <1>3, TellStep

\* The empty outbox is an empty lane.
LEMMA LaneInit == Init => Lane!Init
BY DEF Init, Lane!Init, Outcome, NoSnapshot

\* Every step of the outbox is a step of the lane, or invisible in it.
LEMMA LaneStep == IInv /\ [Next]_vars => [Lane!Next]_(Lane!vars)
<1>1. SUFFICES ASSUME IInv, [Next]_vars
               PROVE  Lane!Next \/ UNCHANGED Lane!vars
  OBVIOUS
<1>2. TypeOK'
  BY <1>1, NextInv DEF IInv
<1>3. CASE Operate
  <2> USE ControlAssumption
  <2>1. ASSUME NEW m \in Commands, NEW snap \in Snapshot, Enqueue(m, snap)
        PROVE  Lane!Next
    BY <1>1, <2>1, EnterStep DEF Lane!Next
  <2>2. ASSUME NEW m \in Commands, NEW v \in 0..MaxControl, NEW a \in Agents,
               NEW av \in 0..MaxAutomation, EnqueueAutomation(m, v, a, av)
        PROVE  Lane!Next
    <3>1. v \in Nat /\ av \in Nat
      OBVIOUS
    <3>2. [NoSnapshot EXCEPT !.control_version = v, !.automation_agent = a,
                             !.automation_version = av] \in Snapshot
      BY <3>1 DEF NoSnapshot, Snapshot
    <3>3. QED
      BY <2>1, <2>2, <3>2 DEF EnqueueAutomation
  <2>3. ASSUME NEW m \in Commands, NEW admin \in Admins, NEW v \in 0..MaxControl,
               RecordOperatorMessage(m, admin, v)
        PROVE  Lane!Next
    <3>1. v \in Nat
      OBVIOUS
    <3>2. [NoSnapshot EXCEPT !.sender_admin = admin, !.control_version = v]
             \in Snapshot
      BY <3>1 DEF NoSnapshot, Snapshot
    <3>3. QED
      BY <2>1, <2>3, <3>2 DEF RecordOperatorMessage
  <2>4. ASSUME NEW m \in Commands, NEW v \in {0, 1},
               NEW reference \in Commands \cup {None}, Resolve(m, v, reference)
        PROVE  Lane!Next
    BY <1>1, <1>2, <2>4, ResolveTells DEF Lane!Next
  <2>5. CASE UNCHANGED <<next_sequence, rowVars, providerVars>>
    BY <2>5, LaneStutters DEF rowVars, providerVars
  <2>6. QED
    BY <1>3, <2>2, <2>3, <2>4, <2>5
       DEF Operate, ControlTransition, AutomationAssign, ConfigureRoute
<1>4. ASSUME NEW w \in Workers, Claim(w)
      PROVE  Lane!Next
  BY <1>1, <1>2, <1>4, ClaimTells DEF Lane!Next
<1>5. ASSUME NEW w \in Workers, StartCall(w)
      PROVE  Lane!Next
  <2>1. job[w] \in Commands
    BY <1>1, <1>5 DEF IInv, JobsKnown, StartCall
  <2>2. QED
    BY <1>1, <1>5, <2>1, AskStep DEF Lane!Next
<1>6. ASSUME NEW w \in Workers, Dispatch(w) \/ RecordOutcome(w) \/ WorkerFails(w)
      PROVE  Lane!Next \/ UNCHANGED Lane!vars
  <2>1. Lane!Tell => Lane!Next
    BY DEF Lane!Next
  <2>2. QED
    BY <1>1, <1>2, <1>5, <1>6, <2>1, DispatchTells DEF Dispatch, RecordOutcome
<1>7. ASSUME NEW m \in Commands, ProviderSends(m)
      PROVE  Lane!Next
  BY <1>1, <1>7, ActStep DEF Lane!Next
<1>8. ASSUME NEW m \in Commands, ClaimAges(m)
      PROVE  UNCHANGED Lane!vars
  BY <1>8, LaneStutters DEF ClaimAges, providerVars
<1>9. CASE UNCHANGED vars
  BY <1>9, LaneStutters DEF vars, rowVars, providerVars
<1>10. QED
  BY <1>1, <1>3, <1>4, <1>6, <1>7, <1>8, <1>9 DEF Next

\* The outbox with its workers, crashes, timeouts and operators is, for every
\* instance, the ordered lane that asks the provider once and never guesses.
THEOREM OutboxIsALane == Spec => ImplementsLane
BY Invariance, LaneInit, LaneStep, PTL DEF Spec, ImplementsLane, Lane!Spec
=============================================================================
