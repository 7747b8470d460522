-------------------------- MODULE FollowUpsProofs --------------------------
(***************************************************************************)
(* Proofs about the follow-ups, for any set of tasks, workers, operators   *)
(* and agents, any limits and any bound.                                   *)
(***************************************************************************)
EXTENDS FollowUps, ConversationControlProofs, SequenceTheorems, FiniteSetTheorems,
        WellFoundedInduction, TLAPS

Over == {"completed", "cancelled"}

-----------------------------------------------------------------------------
(* The inductive invariant.                                                *)

\* An outbound message exists exactly for the tasks that name it, and one event
\* names it; a task that waits for its claim or its enqueueing has none.
EvidenceFits ==
  \A t \in Tasks :
    /\ events.evidence[t] = IF task[t].outbound THEN 1 ELSE 0
    /\ task[t].outbound <=> om[t].status # "none"
    /\ task[t].status \in {"none", "scheduled", "in_progress"} => ~task[t].outbound

\* A task is attempted once it is due.
AttemptedWhenDue ==
  \A t \in Tasks : task[t].attempts > 0 => task[t].due <= now /\ task[t].status # "none"

\* A completed task was delivered under a consent.
CompletedSent ==
  \A t \in Tasks : task[t].status = "completed" =>
    om[t].status \in Definitive /\ task[t].executed_consent

\* A worker whose enqueueing failed still knows its task.
FailedClaims == \A w \in Workers : claim[w].failed => claim[w].task # None

\* The scope was consented to once.
ScopeRecorded == consents # <<>>

\* There have been finitely many claims.
FiniteClaims == IsFiniteSet(events.claims)

IInv ==
  /\ TypeOK
  /\ EvidenceFits
  /\ AttemptedWhenDue
  /\ CompletedSent
  /\ FailedClaims
  /\ ScopeRecorded
  /\ FiniteClaims
  /\ ConsentGoverns
  /\ LaneInOrder

-----------------------------------------------------------------------------
(* What a step may do to a task.                                           *)

\* r becomes q: the place in the lane is settled once, what is over stays so,
\* and a task is live only under consent.
RowStep(t) ==
  LET r == task[t]
      q == task'[t] IN
  /\ q \in Task /\ RowChecks(q)
  /\ r.status = "none" =>
       \/ q = r
       \/ q.status = "scheduled" /\ q.due > now /\ q.attempts = 0
  /\ r.status # "none" => q.status # "none" /\ q.due = r.due /\ q.created = r.created
  /\ r.status \in Over => q.status = r.status
  /\ q.status \in Live => r.status \in Live \/ Consented
  /\ q.attempts # r.attempts /\ r.status # "none" =>
       q.due <= now /\ \A u \in Tasks : task[u].status \in Active => ~Before(task, u, t)
  /\ r.executed_consent /\ r.status # "none" => q.executed_consent
  /\ q.status = "completed" => om[t].status \in Definitive /\ q.executed_consent
  /\ q.status \in {"none", "scheduled", "in_progress"} => ~q.outbound

\* A message only moves on, and exists exactly when its task names it.
MessageStep(t) ==
  /\ om'[t] \in OutboundMessage
  /\ om[t].status \in Definitive => om'[t].status \in Definitive
  /\ om[t].status # "none" => om'[t].status # "none"
  /\ task'[t].outbound <=> om'[t].status # "none"
  /\ events'.evidence[t] = IF task'[t].outbound THEN 1 ELSE 0

TaskStep == \A t \in Tasks : RowStep(t) /\ MessageStep(t)

-----------------------------------------------------------------------------
(* Steps on tasks keep the invariant.                                       *)

\* A step that leaves a task and its message alone.
LEMMA RowKept ==
  ASSUME IInv, NEW t \in Tasks, task'[t] = task[t]
  PROVE  RowStep(t)
<1>1. task[t] \in Task /\ RowChecks(task[t])
  BY DEF IInv, TypeOK
<1>2. task[t].status \in {"none", "scheduled", "in_progress"} => ~task[t].outbound
  BY DEF IInv, EvidenceFits
<1>3. task[t].status = "completed" => om[t].status \in Definitive /\ task[t].executed_consent
  BY DEF IInv, CompletedSent
<1>4. QED
  BY <1>1, <1>2, <1>3 DEF RowStep

\* A message left as it is makes an allowed step.
LEMMA MessageKept ==
  ASSUME IInv, NEW t \in Tasks, om'[t] = om[t], events'.evidence[t] = events.evidence[t],
         task'[t].outbound = task[t].outbound
  PROVE  MessageStep(t)
<1>1. om[t] \in OutboundMessage
  BY DEF IInv, TypeOK
<1>2. /\ events.evidence[t] = IF task[t].outbound THEN 1 ELSE 0
      /\ task[t].outbound <=> om[t].status # "none"
  BY DEF IInv, EvidenceFits
<1>3. QED
  BY <1>1, <1>2 DEF MessageStep

\* The lane keeps its order.
LEMMA LaneKeeps ==
  ASSUME IInv, \A t \in Tasks : RowStep(t)
  PROVE  LaneInOrder'
<1> SUFFICES ASSUME NEW t \in Tasks, NEW u \in Tasks, task'[t].attempts > 0,
                    task'[u].status # "none", Before(task', u, t)
             PROVE  task'[u].status \in Over
  BY DEF LaneInOrder, Over, Before
<1>1. RowStep(t) /\ RowStep(u)
  OBVIOUS
<1>2. /\ task[t] \in Task /\ task[u] \in Task /\ task'[t] \in Task /\ task'[u] \in Task
      /\ now \in Nat /\ Tasks \subseteq Nat
  BY <1>1, FollowUpAssumption DEF RowStep, IInv, TypeOK
<1>3. /\ task[t].attempts \in Nat /\ task[t].due \in Nat /\ task[u].due \in Nat
      /\ task'[u].due \in Nat /\ task'[t].due \in Nat
  BY <1>2 DEF Task
<1>4. task[t].status # "none"
  BY <1>1, <1>3 DEF RowStep, IInv, AttemptedWhenDue
<1>5. /\ task'[t].due = task[t].due /\ task'[t].created = task[t].created
      /\ task'[t].due <= now
  BY <1>1, <1>3, <1>4 DEF RowStep, IInv, AttemptedWhenDue
<1>6. task'[u].due <= task'[t].due
  BY <1>3 DEF Before
<1>7. task[u].status # "none"
  BY <1>1, <1>2, <1>3, <1>5, <1>6 DEF RowStep
<1>8. task'[u].due = task[u].due /\ task'[u].created = task[u].created
  BY <1>1, <1>7 DEF RowStep
<1>9. Before(task, u, t)
  BY <1>5, <1>8 DEF Before
<1>10. task[u].status \in Over
  <2>1. CASE task[t].attempts > 0
    BY <1>7, <1>9, <2>1 DEF IInv, LaneInOrder, Over
  <2>2. CASE ~(task[t].attempts > 0)
    <3>1. task[u].status \notin Active
      BY <1>1, <1>4, <1>9, <2>2 DEF RowStep
    <3>2. QED
      BY <1>2, <1>7, <3>1 DEF Task, Statuses, Active, Over
  <2>3. QED
    BY <2>1, <2>2
<1>11. QED
  BY <1>1, <1>10 DEF RowStep, Over

\* A task is live only under consent.
LEMMA LiveNeedsConsent ==
  ASSUME IInv, \A t \in Tasks : RowStep(t), LiveTasks' # {}
  PROVE  Consented
<1>1. PICK t \in Tasks : task'[t].status \in Live
  BY DEF LiveTasks
<1>2. task[t].status \in Live \/ Consented
  BY <1>1 DEF RowStep
<1>3. LiveTasks # {} => Consented
  BY DEF IInv, ConsentGoverns, ScopeRecorded
<1>4. QED
  BY <1>2, <1>3 DEF LiveTasks

\* What follows for the tasks as a whole.
LEMMA TaskStepKeeps ==
  ASSUME IInv, TaskStep, now' \in Nat, now <= now'
  PROVE  /\ EvidenceFits' /\ AttemptedWhenDue' /\ CompletedSent' /\ LaneInOrder'
         /\ \A t \in Tasks : /\ task'[t] \in Task /\ RowChecks(task'[t])
                             /\ events'.evidence[t] <= 1
                             /\ om'[t] \in OutboundMessage
<1>1. LaneInOrder'
  BY LaneKeeps DEF TaskStep
<1>2. EvidenceFits'
  BY DEF TaskStep, RowStep, MessageStep, EvidenceFits
<1>3. ASSUME NEW t \in Tasks, task'[t].attempts > 0
      PROVE  task'[t].due <= now' /\ task'[t].status # "none"
  <2>1. RowStep(t) /\ task[t] \in Task
    BY DEF TaskStep, IInv, TypeOK
  <2>2. task[t].attempts \in Nat /\ task[t].due \in Nat /\ now \in Nat
    BY <2>1 DEF Task, IInv, TypeOK
  <2>3. task[t].status # "none"
    BY <1>3, <2>1, <2>2 DEF RowStep, IInv, AttemptedWhenDue
  <2>4. task'[t].due = task[t].due /\ task'[t].due <= now /\ task'[t].status # "none"
    BY <1>3, <2>1, <2>2, <2>3 DEF RowStep, IInv, AttemptedWhenDue
  <2>5. QED
    BY <2>2, <2>4
<1>4. AttemptedWhenDue'
  BY <1>3 DEF AttemptedWhenDue
<1>5. CompletedSent'
  BY DEF TaskStep, RowStep, MessageStep, CompletedSent
<1>6. \A t \in Tasks : events'.evidence[t] <= 1
  BY DEF TaskStep, MessageStep
<1>7. QED
  BY <1>1, <1>2, <1>4, <1>5, <1>6 DEF TaskStep, RowStep, MessageStep

\* The types of everything but the rows of tasks and messages.
OtherTypes ==
  /\ conv \in [Conversations -> Conversation]
  /\ now \in 0..MaxNow
  /\ task = [t \in Tasks |-> task[t]]
  /\ om = [t \in Tasks |-> om[t]]
  /\ events \in [claims : SUBSET (Tasks \X Agents \X (0..MaxNow) \X Nat),
                 evidence : [Tasks -> Nat]]
  /\ FiniteClaims
  /\ policy \in [Agents -> [version : Nat, limits : Limits]]
  /\ consents \in Seq({"grant", "revoke"})
  /\ opp \in [agent : Agents, operator : Admins \cup {NoAdmin}, open : BOOLEAN,
              version : Nat]
  /\ claim \in [Workers -> ClaimedFollowUp]
  /\ calling \subseteq Tasks
  /\ {route, purged} \subseteq BOOLEAN
  /\ refused \subseteq {"cancel", "requeue", "revoke", "reassign", "retention"}
  /\ changes \in 0..MaxChanges

\* The types the invariant gives.
LEMMA IInvTypes ==
  ASSUME IInv
  PROVE  /\ OtherTypes
         /\ \A t \in Tasks : task[t] \in Task /\ om[t] \in OutboundMessage
         /\ now \in Nat
<1>1. now \in Nat
  BY FollowUpAssumption DEF IInv, TypeOK
<1>2. task = [t \in Tasks |-> task[t]] /\ om = [t \in Tasks |-> om[t]]
  BY DEF IInv, TypeOK
<1>3. QED
  BY <1>1, <1>2 DEF IInv, TypeOK, OtherTypes

\* The provider call goes on under what it was authorized by.
Fenced == \A t \in calling : DispatchAuthorized(t) /\ MessageFence(t)

\* A step on tasks keeps the invariant when the consent covers what is live and
\* the calls keep their fence.
LEMMA StepKeeps ==
  ASSUME IInv, TaskStep, OtherTypes', now <= now', FailedClaims', ScopeRecorded',
         LiveTasks' # {} => Consented', Fenced'
  PROVE  IInv'
<1>1. now' \in Nat
  BY FollowUpAssumption DEF OtherTypes, FiniteClaims
<1>2. /\ EvidenceFits' /\ AttemptedWhenDue' /\ CompletedSent' /\ LaneInOrder'
      /\ \A t \in Tasks : /\ task'[t] \in Task /\ RowChecks(task'[t])
                          /\ events'.evidence[t] <= 1
                          /\ om'[t] \in OutboundMessage
  BY <1>1, TaskStepKeeps
<1>3. task' \in [Tasks -> Task] /\ om' \in [Tasks -> OutboundMessage]
  BY <1>2 DEF OtherTypes, FiniteClaims
<1>4. \A t \in Tasks : RowChecks(task[t])'
  BY <1>2 DEF RowChecks, StampOf
<1>5. TypeOK'
  BY <1>2, <1>3, <1>4 DEF OtherTypes, FiniteClaims, TypeOK
<1>6. ConsentGoverns'
  BY DEF ConsentGoverns, Fenced
<1>7. QED
  BY <1>2, <1>5, <1>6 DEF IInv, OtherTypes

\* A transaction that waited for the dispatcher and leaves the consent alone.
LEMMA FreeStepKeeps ==
  ASSUME IInv, TaskStep, OtherTypes', FailedClaims', Free,
         UNCHANGED <<calling, now, consents>>
  PROVE  IInv'
<1>1. ScopeRecorded' /\ Fenced'
  BY DEF IInv, ScopeRecorded, Fenced, Free
<1>2. LiveTasks' # {} => Consented'
  BY LiveNeedsConsent DEF TaskStep, Consented
<1>3. now <= now'
  BY IInvTypes
<1>4. QED
  BY <1>1, <1>2, <1>3, StepKeeps

\* A step that leaves tasks and messages alone.
LEMMA QuietTasks ==
  ASSUME IInv, UNCHANGED <<task, om, events>>
  PROVE  TaskStep
BY RowKept, MessageKept DEF TaskStep

\* A refused command leaves everything but its trace.
LEMMA RefuseKeeps ==
  ASSUME IInv, NEW kind \in {"cancel", "requeue", "revoke", "reassign", "retention"},
         Refuse(kind), changes' \in 0..MaxChanges, Free
  PROVE  IInv' /\ TaskStep
<1>1. TaskStep
  BY QuietTasks DEF Refuse
<1>2. OtherTypes'
  BY IInvTypes DEF OtherTypes, FiniteClaims, Refuse
<1>3. FailedClaims'
  BY DEF IInv, FailedClaims, Refuse
<1>4. QED
  BY <1>1, <1>2, <1>3, FreeStepKeeps DEF Refuse

-----------------------------------------------------------------------------
(* Rows.                                                                    *)

Stamps == {"completed_at", "cancelled_at", "review_required_at"}

\* q is the task r in another status: its place, its attempts and its message
\* are the same.
SameTask(q, r) ==
  /\ q.due = r.due /\ q.created = r.created
  /\ q.attempts = r.attempts /\ q.max_attempts = r.max_attempts
  /\ q.outbound = r.outbound /\ q.executed_consent = r.executed_consent

\* The row a change of status leaves is a task.
LEMMA MovedRow ==
  ASSUME NEW r \in Task, NEW to \in Statuses
  PROVE  LET q == Moved(r, to) IN
         /\ q \in Task /\ SameTask(q, r)
         /\ q.status = to /\ q.stamps = r.stamps
         /\ q.lease_owner = None /\ q.lease_expires = None
<1> DEFINE a == [r EXCEPT !.status = to]
           b == [a EXCEPT !.version = r.version + 1]
           q == [b EXCEPT !.lease_owner = None, !.lease_expires = None]
<1>1. /\ a \in Task /\ SameTask(a, r) /\ a.status = to /\ a.stamps = r.stamps
      /\ a.version = r.version /\ r.version \in Nat
  BY DEF Task, SameTask
<1>2. q = Moved(r, to)
  BY <1>1 DEF Moved
<1> HIDE DEF a
<1>3. /\ b \in Task /\ SameTask(b, a) /\ b.status = a.status /\ b.stamps = a.stamps
  BY <1>1 DEF Task, SameTask
<1> HIDE DEF b
<1>4. /\ q \in Task /\ SameTask(q, b) /\ q.status = b.status /\ q.stamps = b.stamps
      /\ q.lease_owner = None /\ q.lease_expires = None
  BY <1>3 DEF Task, SameTask
<1> HIDE DEF q
<1>5. QED
  BY <1>1, <1>2, <1>3, <1>4 DEF SameTask

\* The row a new time stamp leaves is a task.
LEMMA StampedRow ==
  ASSUME NEW r \in Task, NEW to \in Statuses, NEW s \in SUBSET Stamps
  PROVE  LET q == [Moved(r, to) EXCEPT !.stamps = s] IN
         /\ q \in Task /\ SameTask(q, r)
         /\ q.status = to /\ q.stamps = s
         /\ q.lease_owner = None /\ q.lease_expires = None
<1> DEFINE b == Moved(r, to)
           q == [b EXCEPT !.stamps = s]
<1>1. /\ b \in Task /\ SameTask(b, r) /\ b.status = to
      /\ b.lease_owner = None /\ b.lease_expires = None
  BY MovedRow
<1> HIDE DEF b
<1>2. /\ q \in Task /\ SameTask(q, b) /\ q.status = b.status /\ q.stamps = s
      /\ q.lease_owner = b.lease_owner /\ q.lease_expires = b.lease_expires
  BY <1>1 DEF Task, SameTask, Stamps
<1> HIDE DEF q
<1>3. QED
  BY <1>1, <1>2 DEF SameTask, b, q

\* A task leaves the queue for a person or for good.
LEMMA TakenOut ==
  ASSUME IInv, NEW t \in Tasks, task'[t] \in Task, RowChecks(task'[t]),
         SameTask(task'[t], task[t]),
         task[t].status \in Active, task'[t].status \in {"cancelled", "review_required"}
  PROVE  RowStep(t)
<1>1. task[t].status # "none" /\ task[t].status \notin Over
  BY DEF Active, Over
<1>2. QED
  BY <1>1 DEF RowStep, SameTask, Live

\* The rows a person's command takes out of the queue.
LEMMA ToReviewRow ==
  ASSUME NEW r \in Task, RowChecks(r), r.status \in Live
  PROVE  /\ ToReview(r) \in Task /\ RowChecks(ToReview(r)) /\ SameTask(ToReview(r), r)
         /\ ToReview(r).status = "review_required"
<1>1. r.stamps \in SUBSET Stamps /\ r.stamps = {}
  BY DEF Task, Stamps, RowChecks, StampOf, Live
<1>2. ToReview(r) = [Moved(r, "review_required") EXCEPT
                       !.stamps = r.stamps \cup {"review_required_at"}]
  BY DEF ToReview, Moved
<1>3. /\ "review_required" \in Statuses
      /\ r.stamps \cup {"review_required_at"} \in SUBSET Stamps
  BY <1>1 DEF Statuses, Stamps
<1>4. /\ ToReview(r) \in Task /\ SameTask(ToReview(r), r)
      /\ ToReview(r).status = "review_required"
      /\ ToReview(r).stamps = r.stamps \cup {"review_required_at"}
      /\ ToReview(r).lease_owner = None /\ ToReview(r).lease_expires = None
  BY <1>2, <1>3, StampedRow
<1>5. QED
  BY <1>1, <1>4 DEF RowChecks, StampOf, SameTask

\* No event of a row that has a message can be repeated: the flush checks it.
LEMMA WithEventSame ==
  ASSUME IInv, NEW ts \in SUBSET Tasks, \A t \in ts : EventFits(t)
  PROVE  WithEvent(ts) = events
<1>1. \A t \in ts : ~task[t].outbound
  BY DEF EventFits, IInv, EvidenceFits
<1>2. events.evidence = [t \in Tasks |-> IF t \in ts /\ task[t].outbound
                                          THEN events.evidence[t] + 1 ELSE events.evidence[t]]
  BY <1>1 DEF IInv, TypeOK
<1>3. QED
  BY <1>2 DEF WithEvent, IInv, TypeOK

\* A row that a transaction takes out of the queue.
LEMMA TakenRow ==
  ASSUME IInv, NEW t \in Tasks, task[t].status \in Active,
         NEW to \in {"cancelled", "review_required"}, NEW stamp \in Stamps,
         task'[t] = [Moved(task[t], to) EXCEPT !.stamps = @ \cup {stamp}],
         RowChecks(task'[t])
  PROVE  RowStep(t) /\ task'[t].outbound = task[t].outbound /\ task'[t].status = to
<1> DEFINE s == task[t].stamps \cup {stamp}
<1>1. task[t] \in Task
  BY IInvTypes
<1>2. Moved(task[t], to).stamps = task[t].stamps
  BY <1>1 DEF Moved, Task
<1>3. task'[t] = [Moved(task[t], to) EXCEPT !.stamps = s]
  BY <1>2
<1>4. s \in SUBSET Stamps /\ to \in Statuses
  BY <1>1 DEF Task, Stamps, Statuses
<1> HIDE DEF s
<1>5. task'[t] \in Task /\ SameTask(task'[t], task[t]) /\ task'[t].status = to
  BY <1>1, <1>3, <1>4, StampedRow
<1>6. QED
  BY <1>5, TakenOut DEF SameTask

-----------------------------------------------------------------------------
(* The commands of people.                                                  *)

\* People's commands are counted.
LEMMA CountedType == ASSUME IInv, Counted PROVE changes' \in 0..MaxChanges
BY FollowUpAssumption DEF Counted, IInv, TypeOK

\* The records of the scope.
LEMMA RecordTypes ==
  ASSUME IInv, NEW action \in {"grant", "revoke"}, NEW overtaken \in BOOLEAN,
         Record(action, overtaken)
  PROVE  /\ consents' \in Seq({"grant", "revoke"}) /\ consents' # <<>>
         /\ Consented' = Consented \/ Consented' = (action = "grant")
<1> DEFINE A == {"grant", "revoke"}
           n == Len(consents)
<1>1. consents \in Seq(A) /\ consents # <<>>
  BY DEF IInv, TypeOK, ScopeRecorded
<1>2. n \in Nat /\ n > 0 /\ consents[n] \in A
  BY <1>1
<1>3. CASE overtaken
  <2> DEFINE head == SubSeq(consents, 1, n - 1)
             pair == <<action, consents[n]>>
  <2>1. consents' = head \o pair
    BY <1>2, <1>3 DEF Record
  <2>2. head \in Seq(A) /\ Len(head) = n - 1
    <3>1. \A s \in Seq(A) : \A k \in 1..Len(s) :
            SubSeq(s, 1, k - 1) \in Seq(A) /\ Len(SubSeq(s, 1, k - 1)) = k - 1
      OBVIOUS
    <3>2. n \in 1..Len(consents)
      BY <1>2
    <3>3. QED
      BY <1>1, <3>1, <3>2
  <2>3. pair \in Seq(A) /\ Len(pair) = 2 /\ pair[2] = consents[n]
    BY <1>2
  <2> HIDE DEF head, pair
  <2>4. head \o pair \in Seq(A) /\ Len(head \o pair) = n + 1
        /\ (head \o pair)[n + 1] = consents[n]
    <3> HIDE DEF A, n
    <3>1. /\ head \o pair \in Seq(A)
          /\ Len(head \o pair) = Len(head) + Len(pair)
          /\ \A i \in 1..(Len(head) + Len(pair)) :
               (head \o pair)[i] = IF i <= Len(head) THEN head[i] ELSE pair[i - Len(head)]
      BY <2>2, <2>3, ConcatProperties, Zenon
    <3>2. /\ Len(head) + Len(pair) = n + 1 /\ n + 1 \in 1..(Len(head) + Len(pair))
          /\ ~(n + 1 <= Len(head)) /\ n + 1 - Len(head) = 2
      BY <1>2, <2>2, <2>3
    <3>3. QED
      BY <2>3, <3>1, <3>2
  <2>5. consents' # <<>>
    BY <1>2, <2>1, <2>4
  <2>6. Consented' = Consented
    BY <1>1, <2>1, <2>4, <2>5 DEF Consented
  <2>7. QED
    BY <2>1, <2>4, <2>5, <2>6
<1>4. CASE ~overtaken
  <2>1. consents' = Append(consents, action)
    BY <1>4 DEF Record
  <2>2. consents' \in Seq(A) /\ Len(consents') = n + 1 /\ consents'[n + 1] = action
        /\ consents' # <<>>
    BY <1>1, <1>2, <2>1
  <2>3. Consented' = (action = "grant")
    BY <2>2 DEF Consented
  <2>4. QED
    BY <2>2, <2>3
<1>5. QED
  BY <1>3, <1>4

\* The visitor consents.
LEMMA GrantConsentKeeps ==
  ASSUME IInv, NEW overtaken \in BOOLEAN, GrantConsent(overtaken)
  PROVE  IInv' /\ TaskStep
<1>1. TaskStep
  BY QuietTasks DEF GrantConsent
<1>2. /\ consents' \in Seq({"grant", "revoke"}) /\ consents' # <<>>
      /\ Consented' = Consented \/ Consented' = TRUE
  BY RecordTypes DEF GrantConsent
<1>3. OtherTypes'
  BY <1>2, IInvTypes, CountedType DEF OtherTypes, FiniteClaims, GrantConsent
<1>4. FailedClaims' /\ ScopeRecorded' /\ Fenced' /\ now <= now'
  BY <1>2, IInvTypes
     DEF IInv, FailedClaims, ScopeRecorded, Fenced, GrantConsent, Free
<1>5. LiveTasks' # {} => Consented'
  BY <1>1, <1>2, LiveNeedsConsent DEF TaskStep
<1>6. QED
  BY <1>1, <1>3, <1>4, <1>5, StepKeeps

\* The consent is revoked: nothing stays live.
LEMMA RevokeKeeps ==
  ASSUME IInv, NEW overtaken \in BOOLEAN, Counted, Revoke(overtaken)
  PROVE  IInv' /\ TaskStep
<1>1. changes' \in 0..MaxChanges
  BY CountedType
<1>2. CASE ~Flushes(LiveTasks, Quarantine)
  BY <1>1, <1>2, RefuseKeeps DEF Revoke
<1>3. CASE Flushes(LiveTasks, Quarantine)
  <2>1. /\ Record("revoke", overtaken) /\ task' = Quarantine /\ events' = WithEvent(LiveTasks)
        /\ UNCHANGED <<conv, now, policy, opp, claim, om, calling, route, purged, refused>>
        /\ Free
    BY <1>3 DEF Revoke
  <2>2. LiveTasks \in SUBSET Tasks /\ \A t \in LiveTasks : EventFits(t)
    BY <1>3 DEF Flushes, LiveTasks
  <2>3. events' = events
    BY <2>1, <2>2, WithEventSame
  <2>4. ASSUME NEW t \in Tasks
        PROVE  /\ RowStep(t) /\ task'[t].outbound = task[t].outbound
               /\ task'[t].status \notin Live
    <3>1. CASE task[t].status = "scheduled"
      <4>1. /\ task'[t] = [Moved(task[t], "cancelled") EXCEPT !.stamps = @ \cup {"cancelled_at"}]
            /\ task[t].status \in Active /\ t \in LiveTasks
        BY <2>1, <3>1 DEF Quarantine, Active, LiveTasks, Live
      <4>2. RowChecks(task'[t])
        BY <1>3, <2>1, <4>1 DEF Flushes
      <4>3. QED
        BY <4>1, <4>2, TakenRow DEF Stamps, Live
    <3>2. CASE task[t].status \in {"dispatch_queued", "in_progress"}
      <4>1. /\ task'[t] = [Moved(task[t], "review_required") EXCEPT
                             !.stamps = @ \cup {"review_required_at"}]
            /\ task[t].status \in Active /\ t \in LiveTasks
        BY <2>1, <3>2 DEF Quarantine, Active, LiveTasks, Live
      <4>2. RowChecks(task'[t])
        BY <1>3, <2>1, <4>1 DEF Flushes
      <4>3. QED
        BY <4>1, <4>2, TakenRow DEF Stamps, Live
    <3>3. CASE task[t].status \notin Live
      <4>1. task'[t] = task[t]
        BY <2>1, <3>3 DEF Quarantine, Live
      <4>2. QED
        BY <3>3, <4>1, RowKept
    <3>4. QED
      BY <3>1, <3>2, <3>3 DEF Live
  <2>5. TaskStep
    BY <2>1, <2>3, <2>4, MessageKept DEF TaskStep
  <2>6. consents' \in Seq({"grant", "revoke"}) /\ consents' # <<>>
    BY <2>1, RecordTypes
  <2>7. task' = [t \in Tasks |-> task'[t]]
    BY <2>1 DEF Quarantine
  <2>8. OtherTypes'
    BY <1>1, <2>1, <2>3, <2>6, <2>7, IInvTypes DEF OtherTypes, FiniteClaims
  <2>9. FailedClaims' /\ ScopeRecorded' /\ Fenced' /\ now <= now'
    BY <2>1, <2>6, IInvTypes DEF IInv, FailedClaims, ScopeRecorded, Fenced, Free
  <2>10. LiveTasks' = {}
    BY <2>4 DEF LiveTasks
  <2>11. QED
    BY <2>5, <2>8, <2>9, <2>10, StepKeeps
<1>4. QED
  BY <1>2, <1>3

\* The rows that hold a call's authorization are the same after the step.
SameFence(t) ==
  /\ t \in calling
  /\ task'[t].status = task[t].status /\ task'[t].agent = task[t].agent
  /\ task'[t].control = task[t].control /\ task'[t].automation = task[t].automation
  /\ om'[t].control = om[t].control /\ om'[t].automation = om[t].automation

\* A transaction that need not wait for the dispatcher.
LEMMA LockedStepKeeps ==
  ASSUME IInv, TaskStep, OtherTypes', FailedClaims', now <= now',
         UNCHANGED <<conv, opp, consents>>,
         \A t \in calling' : SameFence(t)
  PROVE  IInv'
<1>1. Fenced'
  BY DEF IInv, ConsentGoverns, Fenced, SameFence, DispatchAuthorized, TaskAndTarget,
         SourceCurrent, Consented, MessageFence
<1>2. ScopeRecorded'
  BY DEF IInv, ScopeRecorded
<1>3. LiveTasks' # {} => Consented'
  BY LiveNeedsConsent DEF TaskStep, Consented
<1>4. QED
  BY <1>1, <1>2, <1>3, StepKeeps

\* The clock.
LEMMA TickKeeps == ASSUME IInv, Tick PROVE IInv' /\ TaskStep
<1>1. TaskStep
  BY QuietTasks DEF Tick
<1>2. now' \in 0..MaxNow /\ now <= now'
  BY FollowUpAssumption DEF Tick, IInv, TypeOK
<1>3. OtherTypes' /\ FailedClaims'
  BY <1>2, IInvTypes DEF OtherTypes, FiniteClaims, Tick, IInv, FailedClaims
<1>4. \A t \in calling' : SameFence(t)
  BY DEF Tick, SameFence
<1>5. QED
  BY <1>1, <1>2, <1>3, <1>4, LockedStepKeeps DEF Tick

\* A new policy version; a call in progress does not depend on it.
LEMMA ConfigurePolicyKeeps ==
  ASSUME IInv, Counted, NEW agent \in Agents, NEW limits \in Limits, NEW expected,
         ConfigurePolicy(agent, expected, limits)
  PROVE  IInv' /\ TaskStep
<1>1. TaskStep
  BY QuietTasks DEF ConfigurePolicy
<1>2. policy' \in [Agents -> [version : Nat, limits : Limits]]
  BY DEF ConfigurePolicy, IInv, TypeOK
<1>3. OtherTypes' /\ FailedClaims'
  BY <1>2, IInvTypes, CountedType DEF OtherTypes, FiniteClaims, ConfigurePolicy, IInv, FailedClaims
<1>4. \A t \in calling' : SameFence(t)
  BY DEF ConfigurePolicy, SameFence
<1>5. now <= now'
  BY IInvTypes DEF ConfigurePolicy
<1>6. QED
  BY <1>1, <1>3, <1>4, <1>5, LockedStepKeeps DEF ConfigurePolicy

\* The opportunity, the conversations and the route change while no call is on.
LEMMA CloseOpportunityKeeps ==
  ASSUME IInv, Counted, NEW actor, NEW agent, NEW expected,
         CloseOpportunity(actor, agent, expected)
  PROVE  IInv' /\ TaskStep
<1>1. TaskStep
  BY QuietTasks DEF CloseOpportunity
<1>2. opp' \in [agent : Agents, operator : Admins \cup {NoAdmin}, open : BOOLEAN,
                version : Nat]
  <2> DEFINE o == [opp EXCEPT !.open = FALSE]
  <2>1. /\ o \in [agent : Agents, operator : Admins \cup {NoAdmin}, open : BOOLEAN,
                   version : Nat]
        /\ o.version = opp.version /\ opp.version \in Nat
    BY DEF IInv, TypeOK
  <2>2. opp' = [o EXCEPT !.version = opp.version + 1]
    BY DEF CloseOpportunity
  <2> HIDE DEF o
  <2>3. QED
    BY <2>1, <2>2
<1>3. OtherTypes' /\ FailedClaims'
  BY <1>2, IInvTypes, CountedType DEF OtherTypes, FiniteClaims, CloseOpportunity, IInv, FailedClaims
<1>4. QED
  BY <1>1, <1>3, FreeStepKeeps DEF CloseOpportunity

\* ControlChanges keeps the invariant.
LEMMA ControlChangesKeeps ==
  ASSUME IInv, NEW c \in {Source, Delivery}, NEW actor \in Admins, ControlChanges(c, actor)
  PROVE  IInv' /\ TaskStep
<1>1. TaskStep
  BY QuietTasks DEF ControlChanges
<1>2. conv' \in [Conversations -> Conversation]
  <2>1. c \in Conversations /\ conv \in [Conversations -> Conversation]
    BY FollowUpAssumption DEF IInv, TypeOK
  <2>2. CASE \E target \in Takeovers :
               Transition(c, actor, target, NoAdmin, conv[c].control_version)
    BY <2>1, <2>2, TransitionType, FollowUpAssumption
  <2>3. CASE \E agent \in Agents : Assign(c, agent, conv[c].automation_version)
    BY <2>1, <2>3, AssignType
  <2>4. QED
    BY <2>2, <2>3 DEF ControlChanges
<1>3. OtherTypes' /\ FailedClaims'
  BY <1>2, IInvTypes, CountedType DEF OtherTypes, FiniteClaims, ControlChanges, IInv, FailedClaims
<1>4. QED
  BY <1>1, <1>3, FreeStepKeeps DEF ControlChanges

\* SwitchRoute keeps the invariant.
LEMMA SwitchRouteKeeps == ASSUME IInv, SwitchRoute PROVE IInv' /\ TaskStep
<1>1. TaskStep
  BY QuietTasks DEF SwitchRoute
<1>2. route' \in BOOLEAN
  BY DEF SwitchRoute, IInv, TypeOK
<1>3. OtherTypes' /\ FailedClaims'
  BY <1>2, IInvTypes, CountedType DEF OtherTypes, FiniteClaims, SwitchRoute, IInv, FailedClaims
<1>4. QED
  BY <1>1, <1>3, FreeStepKeeps DEF SwitchRoute

\* One task is scheduled, behind every task that was attempted.
LEMMA ScheduleKeeps ==
  ASSUME IInv, Counted, NEW t \in Tasks, NEW agent, NEW actor, NEW due,
         Schedule(t, agent, actor, due)
  PROVE  IInv' /\ TaskStep
<1> DEFINE p == policy[opp.agent]
           q == [status |-> "scheduled", version |-> 0, due |-> due, created |-> now,
                 available |-> due, attempts |-> 0, max_attempts |-> p.limits.attempts,
                 control |-> conv[Source].control_version,
                 automation |-> conv[Source].automation_version,
                 policy_version |-> p.version,
                 agent |-> opp.agent, operator |-> opp.operator,
                 lease_owner |-> None, lease_expires |-> None,
                 stamps |-> {}, outbound |-> FALSE, executed_consent |-> FALSE]
<1>1. /\ Free /\ task[t].status = "none" /\ due \in (now + 1)..(now + MaxDue) /\ Consented
      /\ task' = [task EXCEPT ![t] = q]
      /\ UNCHANGED <<conv, now, events, policy, consents, opp, claim, om, calling, route,
                     purged, refused>>
  BY DEF Schedule
<1>2. /\ now \in Nat /\ due \in Nat /\ due > now
      /\ opp.agent \in Agents /\ opp.operator \in Admins \cup {NoAdmin}
      /\ p.version \in Nat /\ p.limits \in Limits
  <2>1. now \in Nat /\ MaxDue \in Nat
    BY IInvTypes, FollowUpAssumption
  <2>2. QED
    BY <1>1, <2>1 DEF IInv, TypeOK
<1>3. p.limits.attempts \in Nat /\ p.limits.attempts > 0
  BY <1>2, FollowUpAssumption DEF LimitsFit
<1>4. conv[Source].control_version \in Nat /\ conv[Source].automation_version \in Nat
  BY FollowUpAssumption DEF IInv, TypeOK, Conversation
<1> HIDE DEF p
<1>6. q \in Task
  BY <1>2, <1>3, <1>4 DEF Task, Statuses
<1>7. /\ q.status = "scheduled" /\ q.due = due /\ q.attempts = 0 /\ q.outbound = FALSE
      /\ q.stamps = {} /\ q.lease_owner = None /\ q.lease_expires = None
      /\ q.max_attempts = p.limits.attempts
  OBVIOUS
<1> HIDE DEF q
<1>8. RowChecks(q)
  BY <1>3, <1>7 DEF RowChecks, StampOf
<1>9. task'[t] = q /\ \A u \in Tasks : u # t => task'[u] = task[u]
  BY <1>1, IInvTypes DEF OtherTypes, FiniteClaims
<1>10. RowStep(t)
  BY <1>1, <1>2, <1>6, <1>7, <1>8, <1>9 DEF RowStep, Over, Live
<1>11. ~task[t].outbound
  BY <1>1 DEF IInv, EvidenceFits
<1>12. TaskStep
  <2>1. ASSUME NEW u \in Tasks PROVE RowStep(u) /\ MessageStep(u)
    <3>1. task'[u].outbound = task[u].outbound
      BY <1>7, <1>9, <1>11, IInvTypes DEF Task
    <3>2. MessageStep(u)
      BY <1>1, <3>1, MessageKept
    <3>3. QED
      BY <1>9, <1>10, <3>2, RowKept
  <2>2. QED
    BY <2>1 DEF TaskStep
<1>13. task' = [u \in Tasks |-> task'[u]]
  BY <1>1, IInvTypes DEF OtherTypes, FiniteClaims
<1>14. OtherTypes' /\ FailedClaims'
  BY <1>1, <1>13, IInvTypes, CountedType DEF OtherTypes, FiniteClaims, IInv, FailedClaims
<1>15. QED
  BY <1>1, <1>12, <1>14, FreeStepKeeps

\* A command on one task, flushed or refused.
LEMMA CommandKeeps ==
  ASSUME IInv, Counted, Free, NEW t \in Tasks, NEW row, NEW kind \in {"cancel", "requeue"},
         CommandOn(t, row, kind), row \in Task, row.outbound = task[t].outbound,
         task' = [task EXCEPT ![t] = row] /\ RowChecks(row) /\ EventFits(t) => RowStep(t)
  PROVE  IInv' /\ TaskStep
<1>1. changes' \in 0..MaxChanges
  BY CountedType
<1> DEFINE rows == [task EXCEPT ![t] = row]
<1>2. rows[t] = row /\ (\A u \in Tasks : u # t => rows[u] = task[u])
      /\ rows = [u \in Tasks |-> rows[u]]
  BY IInvTypes DEF OtherTypes, FiniteClaims
<1>3. CASE ~Flushes({t}, rows)
  BY <1>1, <1>3, RefuseKeeps DEF CommandOn
<1>4. CASE Flushes({t}, rows)
  <2>1. /\ task' = rows /\ events' = WithEvent({t})
        /\ UNCHANGED <<conv, now, policy, consents, opp, claim, om, calling, route,
                       purged, refused>>
    BY <1>4 DEF CommandOn
  <2>2. RowChecks(row) /\ EventFits(t)
    BY <1>2, <1>4 DEF Flushes
  <2>3. events' = events
    BY <2>1, <2>2, WithEventSame
  <2>4. RowStep(t)
    BY <2>1, <2>2
  <2>5. ASSUME NEW u \in Tasks PROVE RowStep(u) /\ MessageStep(u)
    <3>1. task'[u].outbound = task[u].outbound
      BY <1>2, <2>1
    <3>2. MessageStep(u)
      BY <2>1, <2>3, <3>1, MessageKept
    <3>3. QED
      BY <1>2, <2>1, <2>4, <3>2, RowKept
  <2>6. TaskStep
    BY <2>5 DEF TaskStep
  <2>7. OtherTypes' /\ FailedClaims'
    BY <1>1, <1>2, <2>1, <2>3, IInvTypes DEF OtherTypes, FiniteClaims, IInv, FailedClaims
  <2>8. QED
    BY <2>1, <2>6, <2>7, FreeStepKeeps
<1>5. QED
  BY <1>3, <1>4

\* A follow-up is cancelled by a person.
LEMMA CancelKeeps ==
  ASSUME IInv, Counted, NEW t \in Tasks, NEW agent, NEW actor, NEW expected,
         NEW from \in SUBSET {"scheduled", "review_required"},
         Cancel(t, agent, actor, expected, from)
  PROVE  IInv' /\ TaskStep
<1> DEFINE row == [Moved(task[t], "cancelled") EXCEPT !.stamps = @ \cup {"cancelled_at"}]
<1>1. Free /\ task[t].status \in Active /\ CommandOn(t, row, "cancel")
  BY DEF Cancel, Active
<1>2. row = [Moved(task[t], "cancelled") EXCEPT !.stamps = task[t].stamps \cup {"cancelled_at"}]
  BY IInvTypes DEF Moved, Task
<1>3. task[t].stamps \cup {"cancelled_at"} \in SUBSET Stamps /\ "cancelled" \in Statuses
      /\ task[t] \in Task
  BY IInvTypes DEF Task, Stamps, Statuses
<1>4. row \in Task /\ SameTask(row, task[t]) /\ row.status = "cancelled"
  BY <1>2, <1>3, StampedRow
<1> HIDE DEF row
<1>5. ASSUME task' = [task EXCEPT ![t] = row], RowChecks(row) PROVE RowStep(t)
  <2>1. task'[t] = row
    BY <1>5, IInvTypes DEF OtherTypes, FiniteClaims
  <2>2. QED
    BY <1>1, <1>4, <1>5, <2>1, TakenOut
<1>6. row.outbound = task[t].outbound
  BY <1>4 DEF SameTask
<1>7. QED
  BY <1>1, <1>4, <1>5, <1>6, CommandKeeps

\* A follow-up under review is scheduled again.
LEMMA RequeueKeeps ==
  ASSUME IInv, Counted, NEW t \in Tasks, NEW agent, NEW actor, NEW expected,
         Requeue(t, agent, actor, expected)
  PROVE  IInv' /\ TaskStep
<1> DEFINE p == policy[opp.agent]
           r == task[t]
           at == IF r.due > now THEN r.due ELSE now
           a == [Moved(r, "scheduled") EXCEPT !.stamps = r.stamps \ {"review_required_at"}]
           b == [a EXCEPT !.control = conv[Source].control_version,
                          !.automation = conv[Source].automation_version]
           c == [b EXCEPT !.policy_version = p.version, !.agent = opp.agent]
           row == [c EXCEPT !.operator = opp.operator, !.available = at]
<1>1. r \in Task /\ now \in Nat
  BY IInvTypes
<1>2. Moved(r, "scheduled").stamps = r.stamps
  BY <1>1 DEF Moved, Task
<1>3. /\ Free /\ r.status = "review_required" /\ Consented
      /\ CommandOn(t, row, "requeue")
  BY <1>2 DEF Requeue
<1>4. r.stamps \ {"review_required_at"} \in SUBSET Stamps /\ "scheduled" \in Statuses
  BY <1>1 DEF Task, Stamps, Statuses
<1>5. a \in Task /\ SameTask(a, r) /\ a.status = "scheduled"
  BY <1>1, <1>4, StampedRow
<1>6. /\ conv[Source].control_version \in Nat /\ conv[Source].automation_version \in Nat
      /\ opp.agent \in Agents /\ opp.operator \in Admins \cup {NoAdmin}
  BY FollowUpAssumption DEF IInv, TypeOK, Conversation
<1>7. p.version \in Nat
  BY <1>6 DEF IInv, TypeOK
<1>8. at \in Nat
  BY <1>1 DEF Task
<1> HIDE DEF a, p, at
<1>9. b \in Task /\ SameTask(b, a) /\ b.status = a.status
  BY <1>5, <1>6 DEF Task, SameTask
<1> HIDE DEF b
<1>10. c \in Task /\ SameTask(c, b) /\ c.status = b.status
  BY <1>6, <1>7, <1>9 DEF Task, SameTask
<1> HIDE DEF c
<1>11. row \in Task /\ SameTask(row, c) /\ row.status = c.status
  BY <1>6, <1>8, <1>10 DEF Task, SameTask
<1> HIDE DEF row
<1>12. SameTask(row, r) /\ row.status = "scheduled"
  BY <1>5, <1>9, <1>10, <1>11 DEF SameTask
<1>13. ASSUME task' = [task EXCEPT ![t] = row], RowChecks(row), EventFits(t)
       PROVE  RowStep(t)
  <2>1. task'[t] = row
    BY <1>13, IInvTypes DEF OtherTypes, FiniteClaims
  <2>2. ~r.outbound
    BY <1>13 DEF EventFits, IInv, EvidenceFits
  <2>3. QED
    BY <1>3, <1>11, <1>12, <1>13, <2>1, <2>2 DEF RowStep, SameTask, Over
<1>14. row.outbound = task[t].outbound
  BY <1>12 DEF SameTask
<1>15. QED
  BY <1>3, <1>11, <1>13, <1>14, CommandKeeps

\* The opportunity changes hands: what is live waits for a person.
LEMMA ReassignKeeps ==
  ASSUME IInv, Counted, NEW actor, NEW agent, NEW to \in Agents,
         NEW operator \in Admins \cup {NoAdmin}, NEW expected,
         Reassign(actor, agent, to, operator, expected)
  PROVE  IInv' /\ TaskStep
<1>1. changes' \in 0..MaxChanges
  BY CountedType
<1>2. CASE ~Flushes(LiveTasks, ReassignedTasks)
  BY <1>1, <1>2, RefuseKeeps DEF Reassign
<1>3. CASE Flushes(LiveTasks, ReassignedTasks)
  <2> DEFINE o == [opp EXCEPT !.agent = to, !.operator = operator]
             Opportunity == [agent : Agents, operator : Admins \cup {NoAdmin},
                             open : BOOLEAN, version : Nat]
  <2>1. /\ task' = ReassignedTasks /\ events' = WithEvent(LiveTasks)
        /\ opp' = [o EXCEPT !.version = opp.version + 1]
        /\ UNCHANGED <<conv, now, policy, consents, claim, om, calling, route, purged,
                       refused>>
        /\ Free
    BY <1>3 DEF Reassign
  <2>2. opp' \in Opportunity
    <3>1. o \in Opportunity /\ opp.version \in Nat
      BY DEF IInv, TypeOK
    <3> HIDE DEF o
    <3>2. QED
      BY <2>1, <3>1
  <2>3. LiveTasks \in SUBSET Tasks /\ \A t \in LiveTasks : EventFits(t)
    BY <1>3 DEF Flushes, LiveTasks
  <2>4. events' = events
    BY <2>1, <2>3, WithEventSame
  <2>5. ASSUME NEW t \in Tasks
        PROVE  RowStep(t) /\ task'[t].outbound = task[t].outbound
    <3>1. CASE t \in LiveTasks
      <4>1. /\ task'[t] = [Moved(task[t], "review_required") EXCEPT
                             !.stamps = @ \cup {"review_required_at"}]
            /\ task[t].status \in Active
        BY <2>1, <3>1 DEF ReassignedTasks, Active, LiveTasks, Live
      <4>2. RowChecks(task'[t])
        BY <1>3, <2>1, <3>1 DEF Flushes
      <4>3. QED
        BY <4>1, <4>2, TakenRow DEF Stamps
    <3>2. CASE t \notin LiveTasks
      <4>1. task'[t] = task[t]
        BY <2>1, <3>2 DEF ReassignedTasks
      <4>2. QED
        BY <4>1, RowKept
    <3>3. QED
      BY <3>1, <3>2
  <2>6. TaskStep
    BY <2>1, <2>4, <2>5, MessageKept DEF TaskStep
  <2>7. task' = [t \in Tasks |-> task'[t]]
    BY <2>1 DEF ReassignedTasks
  <2>8. OtherTypes' /\ FailedClaims'
    BY <1>1, <2>1, <2>2, <2>4, <2>7, IInvTypes DEF OtherTypes, FiniteClaims, IInv, FailedClaims
  <2>9. QED
    BY <2>1, <2>6, <2>8, FreeStepKeeps
<1>4. QED
  BY <1>2, <1>3

\* Retention reaches the source conversation.
LEMMA PurgeKeeps == ASSUME IInv, Purge PROVE IInv' /\ TaskStep
<1> DEFINE moved == {t \in Retained : task[t].status # "review_required"}
<1>1. changes' \in 0..MaxChanges /\ Free
  BY CountedType DEF Purge
<1>2. CASE ~Flushes(moved, RetentionReview)
  BY <1>1, <1>2, RefuseKeeps DEF Purge
<1>3. CASE Flushes(moved, RetentionReview)
  <2>1. /\ task' = RetentionReview /\ events' = WithEvent(moved)
        /\ purged' \in BOOLEAN
        /\ UNCHANGED <<conv, now, policy, consents, opp, claim, om, calling, route, refused>>
    BY <1>3 DEF Purge
  <2>2. moved \in SUBSET Tasks /\ \A t \in moved : EventFits(t)
    BY <1>3 DEF Flushes, Retained
  <2>3. events' = events
    BY <2>1, <2>2, WithEventSame
  <2>4. ASSUME NEW t \in Tasks
        PROVE  RowStep(t) /\ task'[t].outbound = task[t].outbound
    <3>1. CASE t \in moved
      <4>1. ~task[t].outbound
        BY <2>2, <3>1 DEF EventFits, IInv, EvidenceFits
      <4>2. om[t].status = "none"
        BY <4>1 DEF IInv, EvidenceFits
      <4>3. task[t].status # "completed" /\ ~Uncertain(t)
        BY <4>2 DEF Uncertain, IInv, CompletedSent, Definitive
      <4>4. task[t].status \in Active
        BY <3>1, <4>3 DEF Retained
      <4>5. /\ task'[t] = [Moved(task[t], "review_required") EXCEPT
                             !.stamps = {"review_required_at"}]
            /\ RowChecks(task'[t])
        BY <1>3, <2>1, <3>1 DEF RetentionReview, Flushes
      <4>6. task[t] \in Task /\ {"review_required_at"} \in SUBSET Stamps
            /\ "review_required" \in Statuses
        BY IInvTypes DEF Stamps, Statuses
      <4>7. task'[t] \in Task /\ SameTask(task'[t], task[t])
            /\ task'[t].status = "review_required"
        BY <4>5, <4>6, StampedRow
      <4>8. QED
        BY <4>4, <4>5, <4>7, TakenOut DEF SameTask
    <3>2. CASE t \notin moved
      <4>1. task'[t] = task[t]
        BY <2>1, <3>2 DEF RetentionReview
      <4>2. QED
        BY <4>1, RowKept
    <3>3. QED
      BY <3>1, <3>2
  <2>5. TaskStep
    BY <2>1, <2>3, <2>4, MessageKept DEF TaskStep
  <2>6. task' = [t \in Tasks |-> task'[t]]
    BY <2>1 DEF RetentionReview
  <2>7. OtherTypes' /\ FailedClaims'
    BY <1>1, <2>1, <2>3, <2>6, IInvTypes DEF OtherTypes, FiniteClaims, IInv, FailedClaims
  <2>8. QED
    BY <1>1, <2>1, <2>5, <2>7, FreeStepKeeps
<1>4. QED
  BY <1>2, <1>3

-----------------------------------------------------------------------------
(* The outbox.                                                              *)

MessageStatuses == {"queued", "dispatching"} \cup Definitive \cup Undelivered

\* A message that was not delivered moves on and keeps the epochs it was queued
\* under.
LEMMA MessageMoves ==
  ASSUME IInv, NEW t \in Tasks, NEW from \in {"queued", "dispatching", "delivery_unknown"},
         NEW to \in MessageStatuses, Message(t, from, to), UNCHANGED events,
         \A u \in Tasks : task'[u].outbound = task[u].outbound
  PROVE  /\ om' = [u \in Tasks |-> om'[u]]
         /\ \A u \in Tasks : MessageStep(u) /\ om'[u].control = om[u].control
                             /\ om'[u].automation = om[u].automation
<1> DEFINE m == [[om[t] EXCEPT !.status = to] EXCEPT !.held = (to = "dispatching")]
<1>1. om[t] \in OutboundMessage /\ om = [u \in Tasks |-> om[u]]
  BY IInvTypes DEF OtherTypes, FiniteClaims
<1>2. om[t].status = from /\ om' = [om EXCEPT ![t] = m]
  BY <1>1 DEF Message
<1>3. m \in OutboundMessage
  BY <1>1 DEF OutboundMessage, MessageStatuses
<1>4. m.status = to /\ m.control = om[t].control /\ m.automation = om[t].automation
  BY <1>1 DEF OutboundMessage
<1> HIDE DEF m
<1>5. om'[t] = m /\ (\A u \in Tasks : u # t => om'[u] = om[u])
      /\ om' = [u \in Tasks |-> om'[u]]
  BY <1>1, <1>2
<1>6. MessageStep(t)
  <2>1. /\ events.evidence[t] = IF task[t].outbound THEN 1 ELSE 0
        /\ task[t].outbound <=> om[t].status # "none"
    BY DEF IInv, EvidenceFits
  <2>2. from \notin Definitive /\ from # "none" /\ to # "none"
    BY DEF Definitive, Undelivered, MessageStatuses
  <2>3. QED
    BY <1>2, <1>3, <1>4, <1>5, <2>1, <2>2 DEF MessageStep
<1>7. QED
  BY <1>4, <1>5, <1>6, MessageKept

\* A step of the outbox that leaves the tasks alone.
LEMMA MessageOnly ==
  ASSUME IInv, NEW t \in Tasks, NEW from \in {"queued", "dispatching", "delivery_unknown"},
         NEW to \in MessageStatuses, Message(t, from, to), changes' \in 0..MaxChanges,
         UNCHANGED <<conv, now, task, events, policy, consents, opp, claim, calling,
                     route, purged, refused>>
  PROVE  IInv' /\ TaskStep
<1>1. /\ om' = [u \in Tasks |-> om'[u]]
      /\ \A u \in Tasks : MessageStep(u) /\ om'[u].control = om[u].control
                          /\ om'[u].automation = om[u].automation
  BY MessageMoves
<1>2. TaskStep
  BY <1>1, RowKept DEF TaskStep
<1>3. OtherTypes' /\ FailedClaims' /\ now <= now'
  BY <1>1, IInvTypes DEF OtherTypes, FiniteClaims, IInv, FailedClaims
<1>4. calling \subseteq Tasks
  BY IInvTypes DEF OtherTypes, FiniteClaims
<1>5. \A u \in calling' : SameFence(u)
  BY <1>1, <1>4 DEF SameFence
<1>6. QED
  BY <1>2, <1>3, <1>5, LockedStepKeeps

\* ResolveDelivery keeps the invariant.
LEMMA ResolveDeliveryKeeps ==
  ASSUME IInv, NEW t \in Tasks, NEW outcome \in {"delivered", "cancelled"},
         ResolveDelivery(t, outcome)
  PROVE  IInv' /\ TaskStep
BY MessageOnly, CountedType DEF ResolveDelivery, MessageStatuses, Definitive, Undelivered

\* ClaimMessage keeps the invariant.
LEMMA ClaimMessageKeeps ==
  ASSUME IInv, NEW t \in Tasks, ClaimMessage(t)
  PROVE  IInv' /\ TaskStep
<1> DEFINE to == IF MessageFence(t) THEN "dispatching" ELSE "cancelled"
<1>1. to \in MessageStatuses /\ Message(t, "queued", to)
  BY DEF ClaimMessage, MessageStatuses, Undelivered
<1>2. changes' \in 0..MaxChanges
  BY IInvTypes DEF ClaimMessage, OtherTypes
<1> HIDE DEF to
<1>3. QED
  BY <1>1, <1>2, MessageOnly DEF ClaimMessage

\* BlockDispatch keeps the invariant.
LEMMA BlockDispatchKeeps ==
  ASSUME IInv, NEW t \in Tasks, BlockDispatch(t)
  PROVE  IInv' /\ TaskStep
<1>1. changes' \in 0..MaxChanges
  BY IInvTypes DEF BlockDispatch, OtherTypes
<1>2. QED
  BY <1>1, MessageOnly DEF BlockDispatch, MessageStatuses, Undelivered

\* RecoverDispatch keeps the invariant.
LEMMA RecoverDispatchKeeps ==
  ASSUME IInv, NEW t \in Tasks, RecoverDispatch(t)
  PROVE  IInv' /\ TaskStep
<1>1. changes' \in 0..MaxChanges
  BY IInvTypes DEF RecoverDispatch, OtherTypes
<1>2. QED
  BY <1>1, MessageOnly DEF RecoverDispatch, MessageStatuses, Undelivered

\* The provider call begins under what it was authorized by ...
LEMMA StartDispatchKeeps ==
  ASSUME IInv, NEW t \in Tasks, StartDispatch(t)
  PROVE  IInv' /\ TaskStep
<1>1. TaskStep
  BY QuietTasks DEF StartDispatch
<1>2. OtherTypes' /\ FailedClaims' /\ now <= now'
  BY IInvTypes DEF OtherTypes, FiniteClaims, StartDispatch, IInv, FailedClaims
<1>3. ScopeRecorded' /\ (LiveTasks' # {} => Consented')
  BY <1>1, LiveNeedsConsent DEF TaskStep, StartDispatch, IInv, ScopeRecorded, Consented
<1>4. calling' = {t}
  BY DEF StartDispatch, Free
<1>5. Fenced'
  BY <1>4 DEF Fenced, StartDispatch, DispatchAuthorized, TaskAndTarget, SourceCurrent,
              Consented, MessageFence
<1>6. QED
  BY <1>1, <1>2, <1>3, <1>5, StepKeeps

\* ... and ends with its outcome and the consent it ran under ...
LEMMA EndDispatchKeeps ==
  ASSUME IInv, NEW t \in Tasks, NEW outcome \in {"accepted", "failed", "delivery_unknown"},
         EndDispatch(t, outcome)
  PROVE  IInv' /\ TaskStep
<1> DEFINE q == [task[t] EXCEPT !.executed_consent = TRUE]
<1>1. /\ t \in calling /\ Message(t, "dispatching", outcome) /\ task' = [task EXCEPT ![t] = q]
      /\ calling' = calling \ {t}
      /\ UNCHANGED <<conv, now, events, policy, consents, opp, claim, route, purged, refused,
                     changes>>
  BY DEF EndDispatch
<1>2. task[t] \in Task /\ RowChecks(task[t])
  BY DEF IInv, TypeOK
<1>3. q \in Task
  BY <1>2 DEF Task
<1>4. /\ q.status = task[t].status /\ q.executed_consent = TRUE
      /\ q.due = task[t].due /\ q.created = task[t].created
      /\ q.attempts = task[t].attempts /\ q.outbound = task[t].outbound
  BY <1>2 DEF Task
<1>5. /\ q.agent = task[t].agent /\ q.control = task[t].control
      /\ q.automation = task[t].automation
  BY <1>2 DEF Task
<1>6. RowChecks(q)
  BY <1>2 DEF Task, RowChecks
<1> HIDE DEF q
<1>7. task'[t] = q /\ (\A u \in Tasks : u # t => task'[u] = task[u])
      /\ task' = [u \in Tasks |-> task'[u]]
  BY <1>1, IInvTypes DEF OtherTypes, FiniteClaims
<1>8. task[t].status \in {"dispatch_queued", "in_progress"} /\ om[t].status = "dispatching"
  BY <1>1 DEF IInv, ConsentGoverns, DispatchAuthorized, TaskAndTarget, Message
<1>9. task[t].status = "dispatch_queued"
  BY <1>8 DEF IInv, EvidenceFits
<1>10. RowStep(t)
  BY <1>3, <1>4, <1>6, <1>7, <1>9 DEF RowStep, Over, Live
<1>11. \A u \in Tasks : task'[u].outbound = task[u].outbound
  BY <1>4, <1>7
<1>12. outcome \in MessageStatuses
  BY DEF MessageStatuses, Definitive, Undelivered
<1>13. /\ om' = [u \in Tasks |-> om'[u]]
       /\ \A u \in Tasks : MessageStep(u) /\ om'[u].control = om[u].control
                           /\ om'[u].automation = om[u].automation
  BY <1>1, <1>11, <1>12, MessageMoves
<1>14. TaskStep
  BY <1>7, <1>10, <1>13, RowKept DEF TaskStep
<1>15. OtherTypes' /\ FailedClaims' /\ now <= now'
  BY <1>1, <1>7, <1>13, IInvTypes DEF OtherTypes, FiniteClaims, IInv, FailedClaims
<1>16. \A u \in calling' : SameFence(u)
  <2>1. calling \subseteq Tasks
    BY IInvTypes DEF OtherTypes, FiniteClaims
  <2>2. QED
    BY <1>1, <1>4, <1>5, <1>7, <1>13, <2>1 DEF SameFence
<1>17. QED
  BY <1>1, <1>14, <1>15, <1>16, LockedStepKeeps

\* ... or is lost with its dispatcher.
LEMMA DispatcherDiesKeeps ==
  ASSUME IInv, NEW t \in Tasks, DispatcherDies(t)
  PROVE  IInv' /\ TaskStep
<1> DEFINE m == [om[t] EXCEPT !.held = FALSE]
<1>1. om' = [om EXCEPT ![t] = m] /\ calling' = calling \ {t}
      /\ UNCHANGED <<conv, now, task, events, policy, consents, opp, claim, route, purged,
                     refused, changes>>
  BY DEF DispatcherDies
<1>2. om[t] \in OutboundMessage /\ om = [u \in Tasks |-> om[u]]
  BY IInvTypes DEF OtherTypes, FiniteClaims
<1>3. /\ m \in OutboundMessage /\ m.status = om[t].status
      /\ m.control = om[t].control /\ m.automation = om[t].automation
  BY <1>2 DEF OutboundMessage
<1> HIDE DEF m
<1>4. om'[t] = m /\ (\A u \in Tasks : u # t => om'[u] = om[u])
      /\ om' = [u \in Tasks |-> om'[u]]
  BY <1>1, <1>2
<1>5. MessageStep(t)
  BY <1>1, <1>3, <1>4 DEF MessageStep, IInv, EvidenceFits
<1>6. TaskStep
  BY <1>1, <1>4, <1>5, RowKept, MessageKept DEF TaskStep
<1>7. OtherTypes' /\ FailedClaims' /\ now <= now'
  BY <1>1, <1>4, IInvTypes DEF OtherTypes, FiniteClaims, IInv, FailedClaims
<1>8. \A u \in calling' : SameFence(u)
  <2>1. calling \subseteq Tasks
    BY IInvTypes DEF OtherTypes, FiniteClaims
  <2>2. QED
    BY <1>1, <1>3, <1>4, <2>1 DEF SameFence
<1>9. QED
  BY <1>1, <1>6, <1>7, <1>8, LockedStepKeeps

-----------------------------------------------------------------------------
(* The worker.                                                              *)

\* The rows after recover_expired_leases: an expired claim goes into review,
\* where it still holds its lane.
LEMMA RecoveredRow ==
  ASSUME IInv, NEW t \in Tasks
  PROVE  /\ Recovered[t] \in Task /\ RowChecks(Recovered[t])
         /\ SameTask(Recovered[t], task[t])
         /\ \/ Recovered[t] = task[t]
            \/ task[t].status = "in_progress" /\ Recovered[t].status = "review_required"
<1>1. task[t] \in Task /\ RowChecks(task[t])
  BY DEF IInv, TypeOK
<1>2. CASE task[t].status = "in_progress" /\ task[t].lease_expires <= now
  <2>1. Recovered[t] = ToReview(task[t])
    BY <1>2 DEF Recovered
  <2>2. QED
    BY <1>1, <1>2, <2>1, ToReviewRow DEF Live
<1>3. CASE ~(task[t].status = "in_progress" /\ task[t].lease_expires <= now)
  <2>1. Recovered[t] = task[t]
    BY <1>3 DEF Recovered
  <2>2. QED
    BY <1>1, <2>1 DEF SameTask
<1>4. QED
  BY <1>2, <1>3

\* A recovered task makes an allowed step.
LEMMA RecoveredStep ==
  ASSUME IInv, NEW t \in Tasks, task'[t] = Recovered[t]
  PROVE  RowStep(t) /\ task'[t].outbound = task[t].outbound
<1>1. CASE Recovered[t] = task[t]
  BY <1>1, RowKept
<1>2. CASE task[t].status = "in_progress" /\ Recovered[t].status = "review_required"
  BY <1>2, RecoveredRow, TakenOut DEF Active, SameTask
<1>3. QED
  BY <1>1, <1>2, RecoveredRow

\* A transaction of the worker that changes the row of t and recovers the rest.
LEMMA WorkerKeeps ==
  ASSUME IInv, Free, NEW t \in Tasks, NEW row,
         task' = [Recovered EXCEPT ![t] = row],
         RowStep(t), row.outbound = task[t].outbound,
         claim' \in [Workers -> ClaimedFollowUp], FailedClaims',
         events' \in [claims : SUBSET (Tasks \X Agents \X (0..MaxNow) \X Nat),
                      evidence : [Tasks -> Nat]],
         events'.evidence = events.evidence, FiniteClaims',
         UNCHANGED <<conv, now, policy, consents, opp, om, calling, route, purged, refused,
                     changes>>
  PROVE  IInv' /\ TaskStep
<1>1. task'[t] = row /\ (\A u \in Tasks : u # t => task'[u] = Recovered[u])
      /\ task' = [u \in Tasks |-> task'[u]]
  BY DEF Recovered
<1>2. ASSUME NEW u \in Tasks PROVE RowStep(u) /\ task'[u].outbound = task[u].outbound
  BY <1>1, RecoveredStep
<1>3. TaskStep
  BY <1>2, MessageKept DEF TaskStep
<1>4. OtherTypes'
  BY <1>1, IInvTypes DEF OtherTypes, FiniteClaims
<1>5. QED
  BY <1>3, <1>4, FreeStepKeeps

\* The outcome of a dispatch decides its task.
LEMMA RunReconcileKeeps ==
  ASSUME IInv, NEW w \in Workers, NEW t \in Tasks, RunReconcile(w, t)
  PROVE  IInv' /\ TaskStep
<1> DEFINE r == task[t]
           row == Reconciled(t)
<1>1. /\ Free /\ r.status = "dispatch_queued" /\ task' = [Recovered EXCEPT ![t] = row]
      /\ UNCHANGED <<conv, now, events, policy, consents, opp, claim, om, calling, route,
                     purged, refused, changes>>
  BY DEF RunReconcile, Reconcilable
<1>2. r \in Task /\ RowChecks(r)
  BY DEF IInv, TypeOK
<1>3. task'[t] = row
  BY <1>1 DEF Recovered
<1>4. RowStep(t) /\ row.outbound = r.outbound
  <2>1. CASE om[t].status \in Definitive /\ r.executed_consent
    <3> DEFINE a == [r EXCEPT !.status = "completed"]
               b == [a EXCEPT !.version = r.version + 1]
               q == [b EXCEPT !.stamps = r.stamps \cup {"completed_at"}]
    <3>1. /\ a \in Task /\ SameTask(a, r) /\ a.status = "completed" /\ r.version \in Nat
          /\ a.lease_owner = r.lease_owner /\ a.lease_expires = r.lease_expires
          /\ a.version = r.version /\ a.stamps = r.stamps
      BY <1>2 DEF Task, SameTask, Statuses
    <3>2. b.stamps = r.stamps
      BY <3>1 DEF Task
    <3>3. row = q
      BY <2>1, <3>1, <3>2 DEF Reconciled
    <3> HIDE DEF a
    <3>4. /\ b \in Task /\ SameTask(b, a) /\ b.status = a.status
          /\ b.lease_owner = a.lease_owner /\ b.lease_expires = a.lease_expires
      BY <3>1 DEF Task, SameTask
    <3> HIDE DEF b
    <3>5. r.stamps = {} /\ r.lease_owner = None /\ r.lease_expires = None
          /\ r.attempts <= r.max_attempts
      BY <1>1, <1>2 DEF RowChecks, StampOf
    <3>6. /\ q \in Task /\ SameTask(q, b) /\ q.status = b.status
          /\ q.lease_owner = b.lease_owner /\ q.lease_expires = b.lease_expires
          /\ q.stamps = {"completed_at"}
      BY <3>4, <3>5 DEF Task, SameTask
    <3> HIDE DEF q
    <3>7. SameTask(row, r) /\ row.status = "completed" /\ row \in Task
      BY <3>1, <3>3, <3>4, <3>6 DEF SameTask
    <3>8. RowChecks(row)
      BY <3>1, <3>3, <3>4, <3>5, <3>6, <3>7 DEF RowChecks, StampOf, SameTask
    <3> HIDE DEF row
    <3>9. QED
      BY <1>1, <1>3, <2>1, <3>7, <3>8 DEF RowStep, SameTask, Over, Live
  <2>2. CASE ~(om[t].status \in Definitive /\ r.executed_consent)
    <3>1. row = ToReview(r)
      BY <2>2 DEF Reconciled
    <3>2. row \in Task /\ RowChecks(row) /\ SameTask(row, r)
          /\ row.status = "review_required"
      BY <1>1, <1>2, <3>1, ToReviewRow DEF Live
    <3> HIDE DEF row
    <3>3. QED
      BY <1>1, <1>3, <3>2, TakenOut DEF Active, SameTask
  <2>3. QED
    BY <2>1, <2>2
<1>5. claim' \in [Workers -> ClaimedFollowUp] /\ FailedClaims'
      /\ events' \in [claims : SUBSET (Tasks \X Agents \X (0..MaxNow) \X Nat),
                      evidence : [Tasks -> Nat]]
      /\ FiniteClaims'
  BY <1>1 DEF IInv, TypeOK, FailedClaims, FiniteClaims
<1> HIDE DEF row
<1>6. QED
  BY <1>1, <1>4, <1>5, WorkerKeeps

\* A moment of a local day.
LEMMA LocalTimeType ==
  ASSUME NEW at \in Nat
  PROVE  LocalTime(at) \in 0..(DayLength - 1)
<1>1. DayLength \in Nat /\ DayLength > 0 /\ ZoneOffset \in Int
  BY FollowUpAssumption
<1>2. \A x \in Int, d \in Nat : d > 0 => x % d \in 0..(d - 1)
  OBVIOUS
<1>3. at + ZoneOffset \in Int
  BY <1>1
<1>4. QED
  BY <1>1, <1>2, <1>3 DEF LocalTime

\* Quiet hours end later than now.
LEMMA QuietHoursEndLater ==
  ASSUME NEW limits \in Limits, NEW at \in Nat, QuietHoursEnd(limits, at) # None
  PROVE  QuietHoursEnd(limits, at) \in Nat /\ QuietHoursEnd(limits, at) > at
<1> DEFINE D == 0..(DayLength - 1)
           start == limits.quiet[1]
           end == limits.quiet[2]
           local == LocalTime(at)
<1>1. limits.quiet # None
  BY DEF QuietHoursEnd
<1>2. start \in D /\ end \in D /\ start # end /\ local \in D /\ DayLength \in Nat
  BY <1>1, FollowUpAssumption, LocalTimeType DEF LimitsFit
<1>3. QuietHoursEnd(limits, at) =
        CASE start < end /\ local \in start..end - 1 -> at - local + end
          [] start > end /\ local >= start -> at - local + DayLength + end
          [] start > end /\ local < end -> at - local + end
          [] OTHER -> None
  BY <1>1 DEF QuietHoursEnd
<1> HIDE DEF start, end, local
<1>4. CASE start < end /\ local \in start..end - 1
  <2>1. QuietHoursEnd(limits, at) = at - local + end
    BY <1>2, <1>3, <1>4
  <2>2. QED
    BY <1>2, <1>4, <2>1
<1>5. CASE start > end /\ local >= start
  <2>1. QuietHoursEnd(limits, at) = at - local + DayLength + end
    BY <1>2, <1>3, <1>5
  <2>2. QED
    BY <1>2, <1>5, <2>1
<1>6. CASE start > end /\ local < end
  <2>1. QuietHoursEnd(limits, at) = at - local + end
    BY <1>2, <1>3, <1>6
  <2>2. QED
    BY <1>2, <1>6, <2>1
<1>7. QED
  BY <1>3, <1>4, <1>5, <1>6

\* A deferred task becomes available later than now.
LEMMA DeferredLater ==
  ASSUME IInv, NEW agent, NEW limits \in Limits, DeferredUntil(agent, limits) # None
  PROVE  DeferredUntil(agent, limits) \in Nat /\ DeferredUntil(agent, limits) > now
<1> DEFINE quiet == QuietHoursEnd(limits, now)
           late == {c \in LaneClaims : \A d \in LaneClaims : d <= c}
           spaced == {c \in late : c + limits.interval > now}
           full == Cardinality(ClaimsToday(agent, now)) >= limits.daily
<1>1. now \in Nat /\ limits.interval \in Nat
  BY IInvTypes, FollowUpAssumption DEF LimitsFit
<1>2. DeferredUntil(agent, limits) =
        CASE quiet # None -> quiet
          [] quiet = None /\ spaced # {} -> (CHOOSE c \in spaced : TRUE) + limits.interval
          [] quiet = None /\ spaced = {} /\ full -> DayStart(now) + DayLength
          [] OTHER -> None
  BY DEF DeferredUntil
<1>3. \A c \in spaced : c \in Nat /\ c + limits.interval > now
  <2>1. events.claims \subseteq Tasks \X Agents \X (0..MaxNow) \X Nat
    BY DEF IInv, TypeOK
  <2>2. \A e \in events.claims : e[3] \in Nat
    BY <2>1, FollowUpAssumption
  <2>3. QED
    BY <2>2 DEF LaneClaims
<1>4. CASE quiet # None
  BY <1>1, <1>2, <1>4, QuietHoursEndLater
<1> HIDE DEF spaced, full, quiet
<1>5. CASE quiet = None /\ spaced # {}
  <2>1. DeferredUntil(agent, limits) = (CHOOSE c \in spaced : TRUE) + limits.interval
    BY <1>2, <1>5
  <2>2. (CHOOSE c \in spaced : TRUE) \in spaced
    BY <1>5
  <2>3. QED
    BY <1>1, <1>3, <2>1, <2>2
<1>6. CASE quiet = None /\ spaced = {} /\ full
  <2>1. DeferredUntil(agent, limits) = DayStart(now) + DayLength
    BY <1>2, <1>6
  <2>2. LocalTime(now) \in 0..(DayLength - 1) /\ DayLength \in Nat
    BY <1>1, LocalTimeType, FollowUpAssumption
  <2>3. QED
    BY <1>1, <2>1, <2>2 DEF DayStart
<1>7. QED
  BY <1>2, <1>4, <1>5, <1>6

\* The head of the lane is as it was, and nothing undecided is before it.
LEMMA HeadRow ==
  ASSUME IInv, NEW t \in Heads(Recovered)
  PROVE  /\ t \in Tasks /\ Recovered[t] = task[t] /\ task[t].status = "scheduled"
         /\ task[t].due <= now
         /\ \A u \in Tasks : task[u].status \in Active => ~Before(task, u, t)
<1>1. t \in Tasks /\ Recovered[t].status = "scheduled" /\ Recovered[t].due <= now
      /\ \A u \in Tasks : Recovered[u].status \in Active => ~Before(Recovered, u, t)
  BY DEF Heads
<1>2. Recovered[t] = task[t]
  BY <1>1, RecoveredRow
<1>3. ASSUME NEW u \in Tasks, task[u].status \in Active PROVE ~Before(task, u, t)
  <2>1. Recovered[u].status \in Active /\ SameTask(Recovered[u], task[u])
    BY <1>3, RecoveredRow DEF Active
  <2>2. ~Before(Recovered, u, t)
    BY <1>1, <2>1
  <2>3. QED
    BY <1>2, <2>1, <2>2 DEF Before, SameTask
<1>4. QED
  BY <1>1, <1>2, <1>3

\* A head that is not claimed is deferred or left to a person.
LEMMA SidelinedStep ==
  ASSUME IInv, NEW t \in Tasks, task[t].status = "scheduled", task'[t] = Sidelined(task[t])
  PROVE  RowStep(t) /\ Sidelined(task[t]).outbound = task[t].outbound
<1> DEFINE r == task[t]
           limits == policy[r.agent].limits
           until == DeferredUntil(r.agent, limits)
<1>1. r \in Task /\ RowChecks(r)
  BY DEF IInv, TypeOK
<1>2. CASE PolicyAllows(r) /\ until # None
  <2> DEFINE a == [r EXCEPT !.available = until]
             q == [a EXCEPT !.version = r.version + 1]
  <2>1. limits \in Limits
    BY <1>1 DEF Task, IInv, TypeOK
  <2>2. until \in Nat
    BY <1>2, <2>1, DeferredLater
  <2> HIDE DEF until
  <2>3. /\ a \in Task /\ SameTask(a, r) /\ a.status = r.status /\ r.version \in Nat
        /\ a.stamps = r.stamps /\ a.version = r.version
        /\ a.lease_owner = r.lease_owner /\ a.lease_expires = r.lease_expires
    BY <1>1, <2>2 DEF Task, SameTask
  <2>4. Sidelined(r) = q
    BY <1>2, <2>3 DEF Sidelined, until
  <2> HIDE DEF a
  <2>5. /\ q \in Task /\ SameTask(q, a) /\ q.status = a.status /\ q.stamps = a.stamps
        /\ q.lease_owner = a.lease_owner /\ q.lease_expires = a.lease_expires
    BY <2>3 DEF Task, SameTask
  <2> HIDE DEF q
  <2>6. SameTask(q, r) /\ q.status = r.status
    BY <2>3, <2>5 DEF SameTask
  <2>7. RowChecks(q)
    BY <1>1, <2>3, <2>5, <2>6 DEF RowChecks, SameTask
  <2>8. ~r.outbound
    BY DEF IInv, EvidenceFits
  <2>9. QED
    BY <2>4, <2>5, <2>6, <2>7, <2>8 DEF RowStep, SameTask, Live, Over
<1>3. CASE ~(PolicyAllows(r) /\ until # None)
  <2>1. Sidelined(r) = ToReview(r)
    BY <1>3 DEF Sidelined
  <2>2. task'[t] \in Task /\ RowChecks(task'[t]) /\ SameTask(task'[t], r)
        /\ task'[t].status = "review_required"
    BY <1>1, <2>1, ToReviewRow DEF Live
  <2>3. QED
    BY <2>2, TakenOut DEF Active, SameTask
<1>4. QED
  BY <1>2, <1>3

\* The row of a claim.
ClaimedRow(r, w) ==
  [r EXCEPT !.status = "in_progress", !.version = @ + 1, !.attempts = @ + 1,
            !.lease_owner = w, !.lease_expires = now + LeaseTicks]

\* A claimed task makes an allowed step.
LEMMA ClaimedStep ==
  ASSUME IInv, NEW w \in Workers, NEW t \in Tasks, task[t].status = "scheduled",
         task[t].attempts < task[t].max_attempts, task[t].due <= now,
         \A u \in Tasks : task[u].status \in Active => ~Before(task, u, t),
         task'[t] = ClaimedRow(task[t], w)
  PROVE  RowStep(t) /\ ClaimedRow(task[t], w).outbound = task[t].outbound
<1> DEFINE r == task[t]
           a == [r EXCEPT !.status = "in_progress"]
           b == [a EXCEPT !.version = r.version + 1]
           c == [b EXCEPT !.attempts = r.attempts + 1]
           q == [c EXCEPT !.lease_owner = w, !.lease_expires = now + LeaseTicks]
<1>1. r \in Task /\ RowChecks(r)
  BY DEF IInv, TypeOK
<1>2. /\ a \in Task /\ a.version = r.version /\ SameTask(a, r) /\ a.status = "in_progress"
      /\ a.stamps = r.stamps /\ r.version \in Nat /\ r.attempts \in Nat
      /\ r.max_attempts \in Nat
  BY <1>1 DEF Task, SameTask, Statuses
<1>3. b.attempts = r.attempts
  BY <1>2 DEF Task
<1>4. ClaimedRow(r, w) = q
  BY <1>2, <1>3 DEF ClaimedRow
<1> HIDE DEF a
<1>5. b \in Task /\ SameTask(b, a) /\ b.status = a.status /\ b.stamps = a.stamps
  BY <1>2 DEF Task, SameTask
<1> HIDE DEF b
<1>6. /\ c \in Task /\ c.attempts = r.attempts + 1 /\ c.max_attempts = b.max_attempts
      /\ c.due = b.due /\ c.created = b.created /\ c.outbound = b.outbound
      /\ c.executed_consent = b.executed_consent
      /\ c.status = b.status /\ c.stamps = b.stamps
  BY <1>2, <1>5 DEF Task
<1> HIDE DEF c
<1>7. now \in Nat /\ LeaseTicks \in Nat /\ now + LeaseTicks \in Nat
  BY IInvTypes, FollowUpAssumption
<1>8. /\ q \in Task /\ SameTask(q, c) /\ q.status = c.status /\ q.stamps = c.stamps
      /\ q.lease_owner = w /\ q.lease_expires = now + LeaseTicks
  BY <1>6, <1>7 DEF Task, SameTask
<1> HIDE DEF q
<1>9. /\ q.status = "in_progress" /\ q.stamps = r.stamps /\ q.due = r.due
      /\ q.created = r.created /\ q.outbound = r.outbound /\ q.attempts = r.attempts + 1
      /\ q.max_attempts = r.max_attempts /\ q.executed_consent = r.executed_consent
  BY <1>2, <1>5, <1>6, <1>8 DEF SameTask
<1>10. q.attempts <= q.max_attempts
  BY <1>2, <1>9
<1>11. q.lease_owner # None /\ q.lease_expires # None
  BY <1>7, <1>8, FollowUpAssumption
<1>12. RowChecks(q)
  BY <1>1, <1>9, <1>10, <1>11 DEF RowChecks, StampOf
<1>13. ~r.outbound
  BY DEF IInv, EvidenceFits
<1>14. QED
  BY <1>4, <1>8, <1>9, <1>12, <1>13 DEF RowStep, Over, Live

\* The worker recovers, then claims the head of the lane or takes it out of the way.
LEMMA RunClaimKeeps ==
  ASSUME IInv, NEW w \in Workers, RunClaim(w)
  PROVE  IInv' /\ TaskStep
<1>1. /\ Free
      /\ UNCHANGED <<conv, now, policy, consents, opp, om, calling, route, purged, refused,
                     changes>>
  BY DEF RunClaim
<1>2. CASE task' = Recovered /\ UNCHANGED <<events, claim>>
  <2>1. task' = [t \in Tasks |-> task'[t]]
    BY <1>2 DEF Recovered
  <2>2. \A t \in Tasks : RowStep(t) /\ task'[t].outbound = task[t].outbound
    BY <1>2, RecoveredStep
  <2>3. TaskStep
    BY <1>1, <1>2, <2>2, MessageKept DEF TaskStep
  <2>4. OtherTypes' /\ FailedClaims'
    BY <1>1, <1>2, <2>1, IInvTypes DEF OtherTypes, FiniteClaims, IInv, FailedClaims
  <2>5. QED
    BY <1>1, <2>3, <2>4, FreeStepKeeps
<1>3. ASSUME NEW t \in Heads(Recovered), UNCHANGED <<events, claim>>,
             task' = [Recovered EXCEPT ![t] = Sidelined(Recovered[t])]
      PROVE  IInv' /\ TaskStep
  <2>1. t \in Tasks /\ Recovered[t] = task[t] /\ task[t].status = "scheduled"
    BY HeadRow
  <2> DEFINE row == Sidelined(task[t])
  <2>2. task' = [Recovered EXCEPT ![t] = row] /\ task'[t] = row
    BY <1>3, <2>1 DEF Recovered
  <2>3. RowStep(t) /\ row.outbound = task[t].outbound
    BY <2>1, <2>2, SidelinedStep
  <2>4. claim' \in [Workers -> ClaimedFollowUp] /\ FailedClaims'
        /\ events' \in [claims : SUBSET (Tasks \X Agents \X (0..MaxNow) \X Nat),
                        evidence : [Tasks -> Nat]]
        /\ events'.evidence = events.evidence /\ FiniteClaims'
    BY <1>3 DEF IInv, TypeOK, FailedClaims, FiniteClaims
  <2> HIDE DEF row
  <2>5. QED
    BY <1>1, <2>1, <2>2, <2>3, <2>4, WorkerKeeps
<1>4. ASSUME NEW t \in Heads(Recovered), Claimable(Recovered[t]),
             task' = [Recovered EXCEPT ![t] = ClaimedRow(Recovered[t], w)],
             events' = [events EXCEPT !.claims =
               @ \cup {<<t, Recovered[t].agent, now, Recovered[t].attempts + 1>>}],
             claim' = [claim EXCEPT ![w] =
               [task |-> t, version |-> Recovered[t].version + 1,
                expires |-> now + LeaseTicks, failed |-> FALSE]]
      PROVE  IInv' /\ TaskStep
  <2>1. /\ t \in Tasks /\ Recovered[t] = task[t] /\ task[t].status = "scheduled"
        /\ task[t].due <= now
        /\ \A u \in Tasks : task[u].status \in Active => ~Before(task, u, t)
    BY HeadRow
  <2>2. task[t].attempts < task[t].max_attempts
    BY <1>4, <2>1 DEF Claimable
  <2> DEFINE row == ClaimedRow(task[t], w)
             e == <<t, task[t].agent, now, task[t].attempts + 1>>
             c == [task |-> t, version |-> task[t].version + 1,
                   expires |-> now + LeaseTicks, failed |-> FALSE]
  <2>3. task' = [Recovered EXCEPT ![t] = row] /\ task'[t] = row
    BY <1>4, <2>1 DEF Recovered
  <2>4. RowStep(t) /\ row.outbound = task[t].outbound
    BY <2>1, <2>2, <2>3, ClaimedStep
  <2>5. /\ task[t].attempts + 1 \in Nat /\ task[t].version + 1 \in Nat
        /\ task[t].agent \in Agents /\ now \in 0..MaxNow /\ now + LeaseTicks \in Nat
    <3>1. task[t] \in Task /\ now \in Nat /\ now \in 0..MaxNow
      BY <2>1, IInvTypes DEF OtherTypes, FiniteClaims
    <3>2. task[t].attempts \in Nat /\ task[t].version \in Nat /\ task[t].agent \in Agents
      BY <3>1 DEF Task
    <3>3. LeaseTicks \in Nat
      BY FollowUpAssumption
    <3>4. QED
      BY <3>1, <3>2, <3>3
  <2>6. e \in Tasks \X Agents \X (0..MaxNow) \X Nat
    BY <2>1, <2>5
  <2>7. events' = [events EXCEPT !.claims = events.claims \cup {e}]
    BY <1>4, <2>1
  <2> HIDE DEF e
  <2>8. /\ events' \in [claims : SUBSET (Tasks \X Agents \X (0..MaxNow) \X Nat),
                        evidence : [Tasks -> Nat]]
        /\ events'.evidence = events.evidence /\ events'.claims = events.claims \cup {e}
    BY <2>6, <2>7 DEF IInv, TypeOK
  <2>9. FiniteClaims'
    BY <2>8, FS_AddElement DEF IInv, FiniteClaims
  <2>10. c \in ClaimedFollowUp /\ c.failed = FALSE
    BY <2>1, <2>5 DEF ClaimedFollowUp
  <2>11. claim' = [claim EXCEPT ![w] = c]
    BY <1>4, <2>1
  <2> HIDE DEF c, row
  <2>12. claim' \in [Workers -> ClaimedFollowUp] /\ FailedClaims'
    BY <2>10, <2>11 DEF IInv, TypeOK, FailedClaims
  <2>13. QED
    BY <1>1, <2>1, <2>3, <2>4, <2>8, <2>9, <2>12, WorkerKeeps
<1>5. QED
  BY <1>2, <1>3, <1>4 DEF RunClaim, ClaimedRow

\* The worker forgets its claim.
LEMMA ForgetTypes ==
  ASSUME IInv, NEW w \in Workers, Forget(w)
  PROVE  claim' \in [Workers -> ClaimedFollowUp] /\ FailedClaims'
<1>1. NoClaim \in ClaimedFollowUp /\ NoClaim.failed = FALSE
  BY DEF NoClaim, ClaimedFollowUp
<1>2. QED
  BY <1>1 DEF Forget, IInv, TypeOK, FailedClaims

\* A claim the worker still owns goes to a person; one it lost is left alone.
LEMMA ClaimToReview ==
  ASSUME IInv, NEW w \in Workers, claim[w].task # None, Free, Forget(w),
         task' = IF Owns(w) THEN [task EXCEPT ![claim[w].task] = ToReview(task[claim[w].task])]
                 ELSE task,
         UNCHANGED <<conv, now, events, policy, consents, opp, om, calling, route, purged,
                     refused, changes>>
  PROVE  IInv' /\ TaskStep
<1> DEFINE t == claim[w].task
           row == ToReview(task[t])
<1>1. t \in Tasks
  BY DEF IInv, TypeOK, ClaimedFollowUp
<1>2. task' = [u \in Tasks |-> task'[u]]
  BY IInvTypes DEF OtherTypes, FiniteClaims
<1>3. ASSUME NEW u \in Tasks PROVE RowStep(u) /\ task'[u].outbound = task[u].outbound
  <2>1. CASE Owns(w) /\ u = t
    <3>1. task'[u] = ToReview(task[u]) /\ task[u].status = "in_progress"
      BY <1>1, <2>1, IInvTypes DEF OtherTypes, FiniteClaims, Owns
    <3>2. task[u] \in Task /\ RowChecks(task[u])
      BY DEF IInv, TypeOK
    <3>3. task'[u] \in Task /\ RowChecks(task'[u]) /\ SameTask(task'[u], task[u])
          /\ task'[u].status = "review_required"
      BY <3>1, <3>2, ToReviewRow DEF Live
    <3>4. QED
      BY <3>1, <3>3, TakenOut DEF Active, SameTask
  <2>2. CASE ~(Owns(w) /\ u = t)
    <3>1. task'[u] = task[u]
      BY <1>1, <2>2, IInvTypes DEF OtherTypes, FiniteClaims
    <3>2. QED
      BY <3>1, RowKept
  <2>3. QED
    BY <2>1, <2>2
<1>4. TaskStep
  BY <1>3, MessageKept DEF TaskStep
<1>5. claim' \in [Workers -> ClaimedFollowUp] /\ FailedClaims'
  BY ForgetTypes
<1>6. OtherTypes'
  BY <1>2, <1>5, IInvTypes DEF OtherTypes, FiniteClaims
<1>7. QED
  BY <1>4, <1>5, <1>6, FreeStepKeeps

\* The claim is handed to the outbox.
LEMMA EnqueueClaimKeeps ==
  ASSUME IInv, NEW w \in Workers, EnqueueClaim(w)
  PROVE  IInv' /\ TaskStep
<1> DEFINE t == claim[w].task
           r == task[t]
           allowed == /\ Owns(w) /\ r.lease_expires > now /\ ExecutionAllowed(r)
                      /\ DeliveryResolved(r)
<1>1. /\ t # None /\ Free /\ Forget(w)
      /\ UNCHANGED <<conv, now, policy, consents, opp, calling, route, purged, refused,
                     changes>>
  BY DEF EnqueueClaim
<1>2. t \in Tasks
  BY <1>1 DEF IInv, TypeOK, ClaimedFollowUp
<1>3. CASE ~allowed
  <2>1. /\ task' = IF Owns(w) THEN [task EXCEPT ![t] = ToReview(r)] ELSE task
        /\ UNCHANGED <<om, events>>
    BY <1>3 DEF EnqueueClaim
  <2>2. QED
    BY <1>1, <2>1, ClaimToReview
<1>4. CASE allowed
  <2> DEFINE b == Moved(r, "dispatch_queued")
             q == [b EXCEPT !.outbound = TRUE]
             m == [status |-> "queued", control |-> conv[Delivery].control_version,
                   automation |-> conv[Delivery].automation_version, held |-> FALSE]
  <2>1. /\ om' = Enqueued(t) /\ task' = [task EXCEPT ![t] = q]
        /\ events' = [events EXCEPT !.evidence[t] = @ + 1]
    BY <1>4 DEF EnqueueClaim
  <2>2. r \in Task /\ RowChecks(r) /\ r.status = "in_progress"
    BY <1>2, <1>4 DEF IInv, TypeOK, Owns
  <2>3. /\ b \in Task /\ SameTask(b, r) /\ b.status = "dispatch_queued"
        /\ b.stamps = r.stamps /\ b.lease_owner = None /\ b.lease_expires = None
    BY <2>2, MovedRow DEF Statuses
  <2> HIDE DEF b
  <2>4. /\ q \in Task /\ q.outbound = TRUE
        /\ q.status = b.status /\ q.stamps = b.stamps /\ q.lease_owner = b.lease_owner
        /\ q.lease_expires = b.lease_expires
        /\ q.due = b.due /\ q.created = b.created /\ q.attempts = b.attempts
        /\ q.max_attempts = b.max_attempts /\ q.executed_consent = b.executed_consent
    BY <2>3 DEF Task
  <2> HIDE DEF q
  <2>5. RowChecks(q)
    BY <2>2, <2>3, <2>4 DEF RowChecks, StampOf, SameTask
  <2>6. task'[t] = q /\ (\A u \in Tasks : u # t => task'[u] = task[u])
        /\ task' = [u \in Tasks |-> task'[u]]
    BY <1>2, <2>1, IInvTypes DEF OtherTypes, FiniteClaims
  <2>7. RowStep(t)
    BY <1>2, <2>2, <2>3, <2>4, <2>5, <2>6 DEF RowStep, SameTask, Over, Live
  <2>8. ~r.outbound /\ om[t].status = "none" /\ events.evidence[t] = 0
    BY <1>2, <2>2 DEF IInv, EvidenceFits
  <2>9. om' = [om EXCEPT ![t] = m]
    BY <2>1, <2>8 DEF Enqueued
  <2>10. m \in OutboundMessage /\ m.status = "queued"
    BY FollowUpAssumption DEF IInv, TypeOK, Conversation, OutboundMessage
  <2> HIDE DEF m
  <2>11. om'[t] = m /\ (\A u \in Tasks : u # t => om'[u] = om[u])
         /\ om' = [u \in Tasks |-> om'[u]]
    BY <1>2, <2>9, IInvTypes DEF OtherTypes, FiniteClaims
  <2>12. /\ events' \in [claims : SUBSET (Tasks \X Agents \X (0..MaxNow) \X Nat),
                         evidence : [Tasks -> Nat]]
         /\ events'.evidence[t] = 1 /\ events'.claims = events.claims
         /\ \A u \in Tasks : u # t => events'.evidence[u] = events.evidence[u]
    <3> DEFINE e == [events.evidence EXCEPT ![t] = events.evidence[t] + 1]
    <3>1. events' = [events EXCEPT !.evidence = e]
      BY <2>1
    <3>2. events.evidence \in [Tasks -> Nat]
      BY DEF IInv, TypeOK
    <3>3. e \in [Tasks -> Nat] /\ e[t] = 1
          /\ \A u \in Tasks : u # t => e[u] = events.evidence[u]
      BY <1>2, <2>8, <3>2
    <3> HIDE DEF e
    <3>4. QED
      BY <3>1, <3>3 DEF IInv, TypeOK
  <2>13. MessageStep(t)
    BY <2>4, <2>6, <2>8, <2>10, <2>11, <2>12 DEF MessageStep, Definitive
  <2>14. ASSUME NEW u \in Tasks PROVE RowStep(u) /\ MessageStep(u)
    BY <2>6, <2>7, <2>11, <2>12, <2>13, RowKept, MessageKept
  <2>15. TaskStep
    BY <2>14 DEF TaskStep
  <2>16. claim' \in [Workers -> ClaimedFollowUp] /\ FailedClaims'
    BY <1>1, ForgetTypes
  <2>17. OtherTypes'
    BY <1>1, <2>6, <2>11, <2>12, <2>16, IInvTypes DEF OtherTypes, FiniteClaims
  <2>18. QED
    BY <1>1, <2>15, <2>16, <2>17, FreeStepKeeps
<1>5. QED
  BY <1>3, <1>4

\* The enqueueing is rolled back, and the claim is fenced.
LEMMA MarkClaimErrorKeeps ==
  ASSUME IInv, NEW w \in Workers, MarkClaimError(w)
  PROVE  IInv' /\ TaskStep
<1>1. claim[w].task # None
  BY DEF MarkClaimError, IInv, FailedClaims
<1>2. QED
  BY <1>1, ClaimToReview DEF MarkClaimError

\* Only the worker's memory changes.
LEMMA MemoryKeeps ==
  ASSUME IInv, claim' \in [Workers -> ClaimedFollowUp], FailedClaims',
         UNCHANGED <<conv, now, task, events, policy, consents, opp, om, calling, route,
                     purged, refused, changes>>
  PROVE  IInv' /\ TaskStep
<1>1. TaskStep
  BY QuietTasks
<1>2. OtherTypes' /\ now <= now'
  BY IInvTypes DEF OtherTypes, FiniteClaims
<1>3. \A t \in calling' : SameFence(t)
  BY DEF SameFence
<1>4. QED
  BY <1>1, <1>2, <1>3, LockedStepKeeps

\* EnqueueFails keeps the invariant.
LEMMA EnqueueFailsKeeps ==
  ASSUME IInv, NEW w \in Workers, EnqueueFails(w)
  PROVE  IInv' /\ TaskStep
<1> DEFINE c == [claim[w] EXCEPT !.failed = TRUE]
<1>1. claim[w] \in ClaimedFollowUp /\ claim[w].task # None
  BY DEF EnqueueFails, IInv, TypeOK
<1>2. c \in ClaimedFollowUp /\ c.task = claim[w].task
  BY <1>1 DEF ClaimedFollowUp
<1>3. claim' = [claim EXCEPT ![w] = c]
  BY DEF EnqueueFails
<1> HIDE DEF c
<1>4. claim' \in [Workers -> ClaimedFollowUp] /\ FailedClaims'
  BY <1>1, <1>2, <1>3 DEF IInv, TypeOK, FailedClaims
<1>5. QED
  BY <1>4, MemoryKeeps DEF EnqueueFails

\* WorkerDies keeps the invariant.
LEMMA WorkerDiesKeeps ==
  ASSUME IInv, NEW w \in Workers, WorkerDies(w)
  PROVE  IInv' /\ TaskStep
BY ForgetTypes, MemoryKeeps DEF WorkerDies

-----------------------------------------------------------------------------
(* The limits of a claim.                                                   *)

\* Arithmetic on the hours of a day.
LEMMA Modulo ==
  ASSUME NEW d \in Nat, d > 0
  PROVE  /\ \A x \in 0..(d - 1) : x % d = x
         /\ \A x \in d..(2 * d - 1) : x % d = x - d
         /\ \A x \in (0 - d)..(0 - 1) : x % d = x + d
OBVIOUS

\* _quiet_hours_end finds every quiet hour, those past midnight too.
LEMMA QuietHoursFound ==
  ASSUME NEW limits \in Limits, NEW at \in Nat, QuietHoursEnd(limits, at) = None
  PROVE  LocalTime(at) \notin QuietHours(limits)
<1> SUFFICES ASSUME limits.quiet # None, LocalTime(at) \in QuietHours(limits)
             PROVE  FALSE
  BY DEF QuietHours
<1> DEFINE D == 0..(DayLength - 1)
           start == limits.quiet[1]
           end == limits.quiet[2]
           local == LocalTime(at)
<1>1. start \in D /\ end \in D /\ start # end /\ local \in D /\ DayLength \in Nat
      /\ DayLength > 0
  BY FollowUpAssumption, LocalTimeType DEF LimitsFit
<1>2. QuietHoursEnd(limits, at) =
        CASE start < end /\ local \in start..end - 1 -> at - local + end
          [] start > end /\ local >= start -> at - local + DayLength + end
          [] start > end /\ local < end -> at - local + end
          [] OTHER -> None
  BY DEF QuietHoursEnd
<1>3. PICK k \in 0..(end - start - 1) % DayLength : local = (start + k) % DayLength
  BY DEF QuietHours
<1>4. None \notin Nat
  BY FollowUpAssumption
<1> HIDE DEF start, end, local
<1>5. CASE start < end
  <2>1. (end - start - 1) % DayLength = end - start - 1
    <3>1. end - start - 1 \in D
      BY <1>1, <1>5
    <3>2. QED
      BY <1>1, <3>1, Modulo
  <2>2. k \in Nat /\ start + k <= end - 1
    BY <1>1, <1>3, <1>5, <2>1
  <2>3. local = start + k
    <3>1. start + k \in D
      BY <1>1, <2>2
    <3>2. QED
      BY <1>1, <1>3, <3>1, Modulo
  <2>4. local \in start..end - 1
    BY <1>1, <2>2, <2>3
  <2>5. QuietHoursEnd(limits, at) = at - local + end /\ at - local + end \in Nat
    BY <1>1, <1>2, <1>5, <2>4
  <2>6. QED
    BY <1>4, <2>5
<1>6. CASE start > end
  <2>1. (end - start - 1) % DayLength = end - start - 1 + DayLength
    <3>1. end - start - 1 \in (0 - DayLength)..(0 - 1)
      BY <1>1, <1>6
    <3>2. QED
      BY <1>1, <3>1, Modulo
  <2>2. k \in Nat /\ start + k <= end - 1 + DayLength
    BY <1>1, <1>3, <1>6, <2>1
  <2>3. CASE start + k < DayLength
    <3>1. local = start + k
      BY <1>1, <1>3, <2>2, <2>3, Modulo
    <3>2. local >= start
      BY <1>1, <2>2, <3>1
    <3>3. QuietHoursEnd(limits, at) = at - local + DayLength + end
      BY <1>1, <1>2, <1>6, <3>2
    <3>4. at - local + DayLength + end \in Nat
      BY <1>1
    <3>5. QED
      BY <1>4, <3>3, <3>4
  <2>4. CASE start + k >= DayLength
    <3>1. start + k \in DayLength..(2 * DayLength - 1)
      BY <1>1, <2>2, <2>4
    <3>2. local = start + k - DayLength
      BY <1>1, <1>3, <3>1, Modulo
    <3>3. local < end
      BY <1>1, <2>2, <3>2
    <3>4. QuietHoursEnd(limits, at) = at - local + end
      BY <1>1, <1>2, <1>6, <3>3
    <3>5. at - local + end \in Nat
      BY <1>1, <3>3
    <3>6. QED
      BY <1>4, <3>4, <3>5
  <2>5. QED
    BY <1>1, <2>2, <2>3, <2>4
<1>7. QED
  BY <1>1, <1>5, <1>6

\* A bounded set of moments has a latest one.
LEMMA LatestExists ==
  ASSUME NEW m \in Nat, NEW S \in SUBSET (0..m), S # {}
  PROVE  \E c \in S : \A d \in S : d <= c
<1> DEFINE T == {m - c : c \in S}
<1>1. T \subseteq Nat /\ T # {}
  <2>1. \A c \in S : m - c \in Nat
    OBVIOUS
  <2>2. PICK c \in S : TRUE
    OBVIOUS
  <2>3. QED
    BY <2>1, <2>2
<1> DEFINE R == OpToRel(<, Nat)
<1>2. \A x \in Nat, y \in Nat : y < x => <<y, x>> \in R
  BY DEF OpToRel
<1>3. IsWellFoundedOn(R, Nat)
  BY NatLessThanWellFounded
<1> HIDE DEF R, T
<1>4. PICK x \in T : \A y \in T : ~(<<y, x>> \in R)
  BY <1>1, <1>3, WFMin
<1>5. PICK c \in S : x = m - c
  BY DEF T
<1>6. ASSUME NEW d \in S PROVE d <= c
  <2>1. m - d \in T /\ m - d \in Nat /\ x \in Nat
    BY <1>1 DEF T
  <2>2. ~(m - d < x)
    BY <1>2, <1>4, <2>1
  <2>3. QED
    BY <1>5, <2>2
<1>7. QED
  BY <1>6

\* What _deferred_until vouches for when it lets a task run.
LEMMA NotDeferred ==
  ASSUME IInv, NEW agent, NEW limits \in Limits, DeferredUntil(agent, limits) = None
  PROVE  /\ LocalTime(now) \notin QuietHours(limits)
         /\ \A c \in LaneClaims : now - c >= limits.interval
         /\ Cardinality(ClaimsToday(agent, now)) < limits.daily
         /\ IsFiniteSet(ClaimsToday(agent, now))
<1> DEFINE quiet == QuietHoursEnd(limits, now)
           late == {c \in LaneClaims : \A d \in LaneClaims : d <= c}
           spaced == {c \in late : c + limits.interval > now}
           full == Cardinality(ClaimsToday(agent, now)) >= limits.daily
<1>1. /\ now \in Nat /\ limits.interval \in Nat /\ limits.daily \in Nat
      /\ None \notin Nat /\ MaxNow \in Nat /\ DayLength \in Nat
  BY IInvTypes, FollowUpAssumption DEF LimitsFit
<1>2. DeferredUntil(agent, limits) =
        CASE quiet # None -> quiet
          [] quiet = None /\ spaced # {} -> (CHOOSE c \in spaced : TRUE) + limits.interval
          [] quiet = None /\ spaced = {} /\ full -> DayStart(now) + DayLength
          [] OTHER -> None
  BY DEF DeferredUntil
<1>3. LaneClaims \in SUBSET (0..MaxNow)
  <2>1. events.claims \subseteq Tasks \X Agents \X (0..MaxNow) \X Nat
    BY DEF IInv, TypeOK
  <2>2. \A e \in events.claims : e[3] \in 0..MaxNow
    BY <2>1
  <2>3. QED
    BY <2>2 DEF LaneClaims
<1>4. quiet = None
  BY <1>2
<1>5. spaced = {}
  <2>1. ASSUME spaced # {} PROVE FALSE
    <3>1. PICK c \in spaced : c = CHOOSE d \in spaced : TRUE
      BY <2>1
    <3>2. c \in 0..MaxNow
      BY <1>3
    <3>3. DeferredUntil(agent, limits) = c + limits.interval
      <4> HIDE DEF spaced, quiet, full
      <4>1. QED
        BY <1>2, <1>4, <2>1, <3>1
    <3>4. QED
      BY <1>1, <3>2, <3>3
  <2>2. QED
    BY <2>1
<1>6. ~full
  <2>1. LocalTime(now) \in 0..(DayLength - 1)
    BY <1>1, LocalTimeType
  <2>2. DayStart(now) + DayLength \in Nat
    BY <1>1, <2>1 DEF DayStart
  <2> HIDE DEF spaced, quiet, full
  <2>3. QED
    BY <1>1, <1>2, <1>4, <1>5, <2>2
<1>7. \A c \in LaneClaims : now - c >= limits.interval
  <2>1. SUFFICES ASSUME NEW c \in LaneClaims PROVE now - c >= limits.interval
    OBVIOUS
  <2>2. PICK l \in LaneClaims : \A d \in LaneClaims : d <= l
    BY <1>1, <1>3, LatestExists
  <2>3. ~(l + limits.interval > now)
    BY <1>5, <2>2
  <2>4. c \in Nat /\ l \in Nat /\ c <= l
    BY <1>1, <1>3, <2>2
  <2>5. QED
    BY <1>1, <2>3, <2>4
<1>8. IsFiniteSet(ClaimsToday(agent, now)) /\ Cardinality(ClaimsToday(agent, now)) \in Nat
  <2>1. ClaimsToday(agent, now) \subseteq events.claims /\ IsFiniteSet(events.claims)
    BY DEF ClaimsToday, IInv, FiniteClaims
  <2>2. IsFiniteSet(ClaimsToday(agent, now))
    BY <2>1, FS_Subset
  <2>3. QED
    BY <2>2, FS_CardinalityType
<1>9. LocalTime(now) \notin QuietHours(limits)
  BY <1>1, <1>4, QuietHoursFound
<1>10. QED
  BY <1>1, <1>6, <1>7, <1>8, <1>9

\* Only a claim writes a claim.
LEMMA OnlyClaimsClaim ==
  ASSUME IInv, Next, events'.claims # events.claims
  PROVE  \E w \in Workers : RunClaim(w)
<1>1. ASSUME NEW ts PROVE WithEvent(ts).claims = events.claims
  BY DEF WithEvent, IInv, TypeOK
<1>2. ~Operate
  <2>1. ASSUME NEW kind, Refuse(kind) PROVE FALSE
    BY <2>1 DEF Refuse
  <2>2. ASSUME NEW t \in Tasks, NEW row, NEW kind, CommandOn(t, row, kind) PROVE FALSE
    BY <1>1, <2>1, <2>2 DEF CommandOn
  <2>3. ASSUME NEW t \in Tasks, NEW agent, NEW actor, NEW expected, NEW from,
               Cancel(t, agent, actor, expected, from)
        PROVE  FALSE
    BY <2>2, <2>3 DEF Cancel
  <2>4. ASSUME NEW t \in Tasks, NEW agent, NEW actor, NEW expected,
               Requeue(t, agent, actor, expected)
        PROVE  FALSE
    BY <2>2, <2>4 DEF Requeue
  <2>5. ASSUME NEW actor, NEW agent, NEW to, NEW operator, NEW expected,
               Reassign(actor, agent, to, operator, expected)
        PROVE  FALSE
    BY <1>1, <2>1, <2>5 DEF Reassign
  <2>6. ASSUME NEW overtaken, Revoke(overtaken) PROVE FALSE
    BY <1>1, <2>1, <2>6 DEF Revoke
  <2>7. ASSUME Purge PROVE FALSE
    BY <1>1, <2>1, <2>7 DEF Purge
  <2>8. ASSUME NEW t \in Tasks, NEW agent, NEW actor, NEW due,
               CreateFollowUp(t, agent, actor, due)
        PROVE  FALSE
    BY <2>8 DEF CreateFollowUp, Schedule
  <2>9. ASSUME NEW t \in Tasks, NEW agent, NEW actor, NEW expected, NEW resolution,
               \/ CancelFollowUp(t, agent, actor, expected)
               \/ ResolveReview(t, agent, actor, expected, resolution)
        PROVE  FALSE
    BY <2>3, <2>4, <2>9 DEF CancelFollowUp, ResolveReview
  <2>10. ASSUME NEW actor, NEW agent, NEW expected, NEW limits,
                UpdateAutomationPolicy(actor, agent, expected, limits)
         PROVE  FALSE
    BY <2>10 DEF UpdateAutomationPolicy, ConfigurePolicy
  <2>11. ASSUME NEW actor, NEW agent, NEW to, NEW operator, NEW expected,
                \/ ReassignOpportunity(actor, agent, to, operator, expected)
                \/ TransitionOpportunity(actor, agent, expected)
         PROVE  FALSE
    BY <2>5, <2>11 DEF ReassignOpportunity, TransitionOpportunity, CloseOpportunity
  <2>12. ASSUME NEW actor, NEW overtaken,
                RevokeFollowUpConsent(actor, overtaken) \/ GrantConsent(overtaken)
         PROVE  FALSE
    BY <2>6, <2>12 DEF RevokeFollowUpConsent, GrantConsent
  <2>13. ASSUME NEW c, NEW actor, NEW t, NEW outcome,
                ControlChanges(c, actor) \/ SwitchRoute \/ ResolveDelivery(t, outcome)
         PROVE  FALSE
    BY <2>13 DEF ControlChanges, SwitchRoute, ResolveDelivery
  <2>14. QED
    BY <2>7, <2>8, <2>9, <2>10, <2>11, <2>12, <2>13 DEF Operate
<1>3. ASSUME NEW w \in Workers, EnqueueClaim(w) PROVE FALSE
  <2>1. events' = events \/ \E e : events' = [events EXCEPT !.evidence = e]
    BY <1>3 DEF EnqueueClaim
  <2>2. QED
    BY <2>1 DEF IInv, TypeOK
<1>4. QED
  BY <1>2, <1>3
     DEF Next, WorkerStep, RunOnce, RunReconcile, EnqueueFails, MarkClaimError, WorkerDies,
         OutboxStep, ClaimMessage, StartDispatch, BlockDispatch, EndDispatch,
         RecoverDispatch, DispatcherDies, Tick

\* The claim a worker takes is within the limits of the policy.
LEMMA ClaimWithinLimits ==
  ASSUME IInv, NEW w \in Workers, RunClaim(w), NEW e \in events'.claims \ events.claims
  PROVE  LET limits == policy[e[2]].limits IN
         /\ LocalTime(now) \notin QuietHours(limits)
         /\ \A c \in LaneClaims : now - c >= limits.interval
         /\ Cardinality({d \in events'.claims :
              d[2] = e[2] /\ DayStart(d[3]) = DayStart(now)}) <= limits.daily
<1>1. PICK t \in Heads(Recovered) :
        /\ Claimable(Recovered[t])
        /\ events' = [events EXCEPT !.claims =
             events.claims \cup {<<t, Recovered[t].agent, now, Recovered[t].attempts + 1>>}]
  BY DEF RunClaim
<1>2. t \in Tasks /\ Recovered[t] = task[t]
  BY HeadRow
<1> DEFINE agent == task[t].agent
           limits == policy[agent].limits
           today == ClaimsToday(agent, now)
<1>3. events'.claims = events.claims \cup {e} /\ e = <<t, agent, now, task[t].attempts + 1>>
  BY <1>1, <1>2 DEF IInv, TypeOK
<1>4. e[2] = agent /\ e[3] = now
  BY <1>3
<1>5. limits \in Limits
  <2>1. task[t] \in Task
    BY <1>2, IInvTypes
  <2>2. agent \in Agents
    BY <2>1 DEF Task
  <2>3. QED
    BY <2>2 DEF IInv, TypeOK
<1>6. DeferredUntil(agent, limits) = None
  BY <1>1, <1>2 DEF Claimable
<1>7. /\ LocalTime(now) \notin QuietHours(limits)
      /\ \A c \in LaneClaims : now - c >= limits.interval
      /\ Cardinality(today) < limits.daily /\ IsFiniteSet(today)
  BY <1>5, <1>6, NotDeferred
<1>8. {d \in events'.claims : d[2] = e[2] /\ DayStart(d[3]) = DayStart(now)}
        = today \cup {e}
  BY <1>3, <1>4 DEF ClaimsToday
<1>9. Cardinality(today \cup {e}) <= limits.daily
  <2>1. Cardinality(today) \in Nat /\ limits.daily \in Nat
    BY <1>5, <1>7, FS_CardinalityType, FollowUpAssumption DEF LimitsFit
  <2>2. \/ Cardinality(today \cup {e}) = Cardinality(today) + 1
        \/ Cardinality(today \cup {e}) = Cardinality(today)
    BY <1>7, FS_AddElement
  <2>3. QED
    BY <1>7, <2>1, <2>2
<1>10. QED
  BY <1>4, <1>7, <1>8, <1>9

-----------------------------------------------------------------------------
(* The theorems.                                                            *)

\* The invariant holds at the start.
LEMMA InitHolds == Init => IInv
<1> SUFFICES ASSUME Init PROVE IInv
  OBVIOUS
<1>1. conv \in [Conversations -> Conversation]
  BY InitialType DEF Init
<1>2. NoTask \in Task /\ RowChecks(NoTask)
  <2>1. RoutingAgent[Source] \in Agents
    BY ControlAssumption, FollowUpAssumption
  <2>2. NoTask \in Task
    BY <2>1 DEF NoTask, Task, Statuses
  <2>3. QED
    BY <2>2 DEF NoTask, RowChecks, StampOf
<1>3. NoMessage \in OutboundMessage /\ NoClaim \in ClaimedFollowUp
  BY DEF NoMessage, OutboundMessage, NoClaim, ClaimedFollowUp
<1>4. /\ task = [t \in Tasks |-> NoTask] /\ om = [t \in Tasks |-> NoMessage]
      /\ claim = [w \in Workers |-> NoClaim] /\ calling = {}
      /\ events = [claims |-> {}, evidence |-> [t \in Tasks |-> 0]]
      /\ consents = <<"grant">>
  BY DEF Init
<1>5. /\ NoTask.status = "none" /\ NoTask.outbound = FALSE /\ NoTask.attempts = 0
      /\ NoMessage.status = "none" /\ NoClaim.failed = FALSE
  BY DEF NoTask, NoMessage, NoClaim
<1>6. opp \in [agent : Agents, operator : Admins \cup {NoAdmin}, open : BOOLEAN,
               version : Nat]
  <2>1. RoutingAgent[Source] \in Agents
    BY ControlAssumption, FollowUpAssumption
  <2>2. QED
    BY <2>1 DEF Init
<1>7. policy \in [Agents -> [version : Nat, limits : Limits]]
  BY DEF Init
<1>8. events \in [claims : SUBSET (Tasks \X Agents \X (0..MaxNow) \X Nat),
                  evidence : [Tasks -> Nat]]
      /\ FiniteClaims
      /\ \A t \in Tasks : events.evidence[t] = 0
  BY <1>4, FS_EmptySet DEF FiniteClaims
<1>9. consents \in Seq({"grant", "revoke"}) /\ consents # <<>>
  BY <1>4
<1>10. now \in 0..MaxNow /\ changes \in 0..MaxChanges
  BY FollowUpAssumption DEF Init
<1>11. {route, purged} \subseteq BOOLEAN
       /\ refused \subseteq {"cancel", "requeue", "revoke", "reassign", "retention"}
  BY DEF Init
<1> HIDE DEF Init
<1>12. TypeOK
  <2>1. task \in [Tasks -> Task] /\ om \in [Tasks -> OutboundMessage]
        /\ claim \in [Workers -> ClaimedFollowUp]
    BY <1>2, <1>3, <1>4
  <2>2. \A t \in Tasks : RowChecks(task[t]) /\ events.evidence[t] <= 1
    BY <1>2, <1>4, <1>8
  <2>3. QED
    BY <1>1, <1>4, <1>6, <1>7, <1>8, <1>9, <1>10, <1>11, <2>1, <2>2 DEF TypeOK
<1>13. EvidenceFits /\ AttemptedWhenDue /\ CompletedSent /\ FailedClaims /\ ScopeRecorded
  BY <1>4, <1>5, <1>8, <1>9
     DEF EvidenceFits, AttemptedWhenDue, CompletedSent, FailedClaims, ScopeRecorded
<1>14. ConsentGoverns /\ LaneInOrder
  BY <1>4, <1>5 DEF ConsentGoverns, LiveTasks, Live, LaneInOrder
<1>15. QED
  BY <1>8, <1>12, <1>13, <1>14 DEF IInv

\* Every command of a person.
LEMMA OperateKeeps == ASSUME IInv, Operate PROVE IInv' /\ TaskStep
<1>1. ASSUME NEW actor \in Admins, NEW agent \in Agents, NEW t \in Tasks,
             NEW due, CreateFollowUp(t, agent, actor, due)
      PROVE  IInv' /\ TaskStep
  BY <1>1, ScheduleKeeps DEF CreateFollowUp, Commanded
<1>2. ASSUME NEW actor \in Admins, NEW agent \in Agents, NEW t \in Tasks,
             CancelFollowUp(t, agent, actor, task[t].version)
      PROVE  IInv' /\ TaskStep
  BY <1>2, CancelKeeps DEF CancelFollowUp, Commanded
<1>3. ASSUME NEW actor \in Admins, NEW agent \in Agents, NEW t \in Tasks,
             NEW resolution \in {"requeue", "cancel"},
             ResolveReview(t, agent, actor, task[t].version, resolution)
      PROVE  IInv' /\ TaskStep
  BY <1>3, CancelKeeps, RequeueKeeps DEF ResolveReview, Commanded
<1>4. ASSUME NEW actor \in Admins, NEW agent \in Agents, NEW limits \in Limits,
             UpdateAutomationPolicy(actor, agent, policy[agent].version, limits)
      PROVE  IInv' /\ TaskStep
  BY <1>4, ConfigurePolicyKeeps DEF UpdateAutomationPolicy, Commanded
<1>5. ASSUME NEW actor \in Admins, NEW agent \in Agents, NEW to \in Agents,
             NEW operator \in Admins \cup {NoAdmin},
             ReassignOpportunity(actor, agent, to, operator, opp.version)
      PROVE  IInv' /\ TaskStep
  BY <1>5, ReassignKeeps DEF ReassignOpportunity, Commanded
<1>6. ASSUME NEW actor \in Admins, NEW agent \in Agents,
             TransitionOpportunity(actor, agent, opp.version)
      PROVE  IInv' /\ TaskStep
  BY <1>6, CloseOpportunityKeeps DEF TransitionOpportunity, Commanded
<1>7. ASSUME NEW actor \in Admins, NEW overtaken \in BOOLEAN,
             RevokeFollowUpConsent(actor, overtaken)
      PROVE  IInv' /\ TaskStep
  BY <1>7, RevokeKeeps DEF RevokeFollowUpConsent, Commanded
<1>8. QED
  BY <1>1, <1>2, <1>3, <1>4, <1>5, <1>6, <1>7, ControlChangesKeeps, GrantConsentKeeps,
     SwitchRouteKeeps, ResolveDeliveryKeeps, PurgeKeeps DEF Operate

\* Every step of the system.
LEMMA NextKeeps == ASSUME IInv, Next PROVE IInv' /\ TaskStep
<1>1. ASSUME NEW w \in Workers, WorkerStep(w) PROVE IInv' /\ TaskStep
  BY <1>1, RunClaimKeeps, RunReconcileKeeps, EnqueueClaimKeeps, EnqueueFailsKeeps,
     MarkClaimErrorKeeps, WorkerDiesKeeps DEF WorkerStep, RunOnce
<1>2. ASSUME NEW t \in Tasks, OutboxStep(t) \/ DispatcherDies(t) PROVE IInv' /\ TaskStep
  BY <1>2, ClaimMessageKeeps, StartDispatchKeeps, BlockDispatchKeeps, EndDispatchKeeps,
     RecoverDispatchKeeps, DispatcherDiesKeeps DEF OutboxStep
<1>3. QED
  BY <1>1, <1>2, OperateKeeps, TickKeeps DEF Next

\* A step that changes nothing keeps the invariant.
LEMMA StutterKeeps == ASSUME IInv, UNCHANGED vars PROVE IInv' /\ TaskStep
<1>1. claim' \in [Workers -> ClaimedFollowUp] /\ FailedClaims'
  BY DEF vars, IInv, TypeOK, FailedClaims
<1>2. QED
  BY <1>1, MemoryKeeps DEF vars

\* The inductive invariant holds in every reachable state.
THEOREM Invariance == Spec => []IInv
<1>1. IInv /\ [Next]_vars => IInv'
  BY NextKeeps, StutterKeeps
<1>2. QED
  BY <1>1, InitHolds, PTL DEF Spec

\* Rows keep the shapes and the CHECK constraints of their tables, and one event
\* at most names a follow-up's outbound message, whoever writes it.
THEOREM TypeCorrect == Spec => []TypeOK
<1>1. IInv => TypeOK
  BY DEF IInv
<1>2. QED
  BY <1>1, Invariance, PTL

\* After a revocation nothing of the scope is waiting, claimed or queued, and a
\* provider call goes on under the consent, the epochs and the owner it was
\* authorized by, whatever commits meanwhile.
THEOREM ConsentKept == Spec => []ConsentGoverns
<1>1. IInv => ConsentGoverns
  BY DEF IInv
<1>2. QED
  BY <1>1, Invariance, PTL

\* A follow-up is attempted only when every earlier one of its lane is over.
THEOREM LaneOrdered == Spec => []LaneInOrder
<1>1. IInv => LaneInOrder
  BY DEF IInv
<1>2. QED
  BY <1>1, Invariance, PTL

\* A completed follow-up was sent under a consent, and what is over stays as it
\* was decided.
THEOREM DecidedForGood == Spec => OverForGood
<1> DEFINE Sent == \A t \in Tasks : task[t].status = "completed" =>
                     om[t].status \in Definitive /\ task[t].executed_consent
           Stays == \A t \in Tasks : task[t].status \in {"completed", "cancelled"} =>
                      task'[t].status = task[t].status
<1>1. IInv => Sent
  BY DEF IInv, CompletedSent
<1>2. IInv /\ [Next]_vars => [Stays]_vars
  BY NextKeeps DEF TaskStep, RowStep, Over
<1>3. QED
  BY <1>1, <1>2, Invariance, PTL DEF Spec, OverForGood

\* A claim is taken outside quiet hours, the interval after the last claim of the
\* lane and within the day's allowance of its agent.
THEOREM LimitsKept == Spec => ClaimsWithinLimits
<1> DEFINE Within ==
             \A e \in events'.claims \ events.claims :
               LET limits == policy[e[2]].limits IN
               /\ LocalTime(now) \notin QuietHours(limits)
               /\ \A c \in LaneClaims : now - c >= limits.interval
               /\ Cardinality({d \in events'.claims :
                    d[2] = e[2] /\ DayStart(d[3]) = DayStart(now)}) <= limits.daily
<1>1. ASSUME IInv, [Next]_vars PROVE [Within]_vars
  <2>1. CASE UNCHANGED vars
    BY <2>1
  <2>2. CASE Next
    <3>1. SUFFICES ASSUME NEW e \in events'.claims \ events.claims
                   PROVE  LET limits == policy[e[2]].limits IN
                     /\ LocalTime(now) \notin QuietHours(limits)
                     /\ \A c \in LaneClaims : now - c >= limits.interval
                     /\ Cardinality({d \in events'.claims :
                          d[2] = e[2] /\ DayStart(d[3]) = DayStart(now)}) <= limits.daily
      OBVIOUS
    <3>2. PICK w \in Workers : RunClaim(w)
      BY <1>1, <2>2, OnlyClaimsClaim
    <3>3. QED
      BY <1>1, <3>2, ClaimWithinLimits
  <2>3. QED
    BY <1>1, <2>1, <2>2
<1>2. QED
  BY <1>1, Invariance, PTL DEF Spec, ClaimsWithinLimits
=============================================================================
