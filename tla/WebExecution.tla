---------------------------- MODULE WebExecution ----------------------------
(***************************************************************************)
(* The web channel: a visitor's message becomes an execution that a worker *)
(* claims under a lease, runs through the agent loop and answers.          *)
(* services/web_chat_v2.py, services/web_execution_queue.py,               *)
(* services/web_execution_runner.py, services/conversation_events.py and   *)
(* workers/web_executions.py, with the epochs of ConversationControl.      *)
(*                                                                         *)
(* A transaction is one step.  Two are not atomic in the code and are not  *)
(* here: accept_message reads the control mode without a lock before it    *)
(* writes, and the agent loop's guard commits before the tool it guards.   *)
(*                                                                         *)
(* A message is one client_message_id, with its one execution.  events[c]  *)
(* is the public event log of c: an event's sequence is its position.      *)
(***************************************************************************)
EXTENDS ConversationControl, Sequences, FiniteSets

CONSTANTS
  Messages,      \* client message ids
  ConvOf,        \* ConvOf[m]: the conversation of message m
  Workers,
  None,          \* SQL NULL
  FreshSession,  \* a session id no conversation uses yet
  MaxReplies,    \* bound on the operator replies of a conversation
  MaxEpochs      \* bound on its changes of control and of agent together

ASSUME WebAssumption ==
  /\ ConvOf \in [Messages -> Conversations]
  /\ None \notin Messages \cup Workers
  /\ FreshSession \notin Conversations
  /\ MaxReplies \in Nat
  /\ MaxEpochs \in Nat

VARIABLES
  accepting,      \* accept_message past its unlocked read of the mode
  message,        \* status of the visitor's chat_messages row
  execution,      \* status of the chat_executions row
  snapshot,       \* the epochs the execution was queued under
  queue_sequence, \* sequence of the accepted event, 0 without execution
  lease_owner,
  lease,          \* "live", or "expired" once lease_expires_at is past
  events,
  pc,             \* where each worker is in run_once
  job             \* the claim each worker holds in memory

rowVars == <<message, execution, snapshot, queue_sequence, lease_owner, lease>>
workerVars == <<pc, job>>
vars == <<conv, accepting, rowVars, events, workerVars>>

ExecutionStatuses ==
  {"none", "queued", "running", "completed", "failed", "blocked", "cancelled"}

\* Faulty variant: a running execution does not hold back the next one.
BlockingForgetsRunning == {"queued"}

\* _blocking_statuses of the queue.
Blocking == {"queued", "running"}

Epoch ==
  [control_version : Nat, automation_agent : Agents \cup {None},
   automation_version : Nat]

Event(type, of) == [type |-> type, of |-> of]
EventTypes == {"accepted", "running", "cancelled", "completed", "failed", "blocked",
               "contact", "control", "operator", "closed"}
Events == [type : EventTypes, of : Messages \cup Modes \cup Admins \cup {None}]

TypeOK ==
  /\ conv \in [Conversations -> Conversation]
  /\ accepting \in [Conversations -> {None} \cup [message : Messages, mode : Modes]]
  /\ message \in [Messages -> {"none", "accepted", "completed"}]
  /\ execution \in [Messages -> ExecutionStatuses]
  /\ snapshot \in [Messages -> Epoch]
  /\ queue_sequence \in [Messages -> Nat]
  /\ lease_owner \in [Messages -> Workers \cup {None}]
  /\ lease \in [Messages -> {"live", "expired", "null"}]
  /\ events \in [Conversations -> Seq(Events)]
  /\ pc \in [Workers -> {"idle", "claimed", "preparing", "running", "guarded",
                         "blocking", "failing"}]
  /\ job \in [Workers -> Messages \cup {None}]

Init ==
  /\ ControlInit
  /\ accepting = [c \in Conversations |-> None]
  /\ message = [m \in Messages |-> "none"]
  /\ execution = [m \in Messages |-> "none"]
  /\ snapshot = [m \in Messages |-> [control_version |-> 0, automation_agent |-> None,
                                     automation_version |-> 0]]
  /\ queue_sequence = [m \in Messages |-> 0]
  /\ lease_owner = [m \in Messages |-> None]
  /\ lease = [m \in Messages |-> "null"]
  /\ events = [c \in Conversations |-> <<>>]
  /\ pc = [w \in Workers |-> "idle"]
  /\ job = [w \in Workers |-> None]

-----------------------------------------------------------------------------
\* publish: the next sequence of the conversation, under its row lock.
Publish(c, type, of) == events' = [events EXCEPT ![c] = Append(@, Event(type, of))]

\* assert_execution_current / _assert_automation of an execution.
Current(m) ==
  LET c == conv[ConvOf[m]] IN
  /\ c.control_mode = "automated"
  /\ c.control_version = snapshot[m].control_version
  /\ c.automation_agent = snapshot[m].automation_agent
  /\ c.automation_version = snapshot[m].automation_version

\* e was queued before m in m's conversation.
Earlier(e, m) ==
  /\ ConvOf[e] = ConvOf[m]
  /\ queue_sequence[e] # 0
  /\ queue_sequence[e] < queue_sequence[m]

\* One event for each message of S in c, in queue order, naming its new status.
Notices(c, S, status) ==
  LET settled == {m \in S : ConvOf[m] = c}
      place(m) == Cardinality({n \in settled : queue_sequence[n] <= queue_sequence[m]})
      ordered == [i \in 1..Cardinality(settled) |-> CHOOSE m \in settled : place(m) = i]
  IN  [i \in 1..Cardinality(settled) |-> Event(status[ordered[i]], ordered[i])]

-----------------------------------------------------------------------------
(* The visitor.                                                            *)

\* accept_message up to _find_existing_acceptance: the advisory lock of the
\* session is taken, the conversation is read without FOR UPDATE.  A repeated
\* client_message_id is answered from the stored message.
AcceptReads(m) ==
  LET c == ConvOf[m] IN
  /\ accepting[c] = None
  /\ conv[c].control_mode # "closed"
  /\ message[m] = "none"
  /\ accepting' = [accepting EXCEPT
       ![c] = [message |-> m, mode |-> conv[c].control_mode]]
  /\ UNCHANGED <<conv, rowVars, events, workerVars>>

\* WebExecutionQueueService.enqueue, which looks at the mode again.
AcceptQueues(c) ==
  /\ accepting[c] # None
  /\ accepting[c].mode = "automated"
  /\ conv[c].control_mode = "automated"
  /\ LET m == accepting[c].message IN
       /\ message' = [message EXCEPT ![m] = "accepted"]
       /\ execution' = [execution EXCEPT ![m] = "queued"]
       /\ snapshot' = [snapshot EXCEPT
            ![m] = [control_version |-> conv[c].control_version,
                    automation_agent |-> conv[c].automation_agent,
                    automation_version |-> conv[c].automation_version]]
       /\ queue_sequence' = [queue_sequence EXCEPT ![m] = Len(events[c]) + 1]
       /\ Publish(c, "accepted", m)
  /\ accepting' = [accepting EXCEPT ![c] = None]
  /\ UNCHANGED <<conv, lease_owner, lease, workerVars>>

\* A takeover came between: the visitor gets an error and nothing is stored.
AcceptRefused(c) ==
  /\ accepting[c] # None
  /\ accepting[c].mode = "automated"
  /\ conv[c].control_mode # "automated"
  /\ accepting' = [accepting EXCEPT ![c] = None]
  /\ UNCHANGED <<conv, rowVars, events, workerVars>>

\* _accept_for_operator, on the mode read before.
AcceptForOperator(c) ==
  /\ accepting[c] # None
  /\ accepting[c].mode \in {"human", "paused"}
  /\ message' = [message EXCEPT ![accepting[c].message] = "completed"]
  /\ Publish(c, "accepted", accepting[c].message)
  /\ accepting' = [accepting EXCEPT ![c] = None]
  /\ UNCHANGED <<conv, execution, snapshot, queue_sequence, lease_owner, lease,
                 workerVars>>

\* reset_session and _close_session.  A replacement session that is closed
\* rolls everything back.
ResetSession(c, next) ==
  LET open == {m \in Messages : ConvOf[m] = c /\ execution[m] \in {"queued", "running"}}
      status == [m \in Messages |-> IF m \notin open THEN execution[m]
                                  ELSE IF execution[m] = "running" THEN "blocked"
                                  ELSE "cancelled"] IN
  /\ accepting[c] = None
  /\ conv[c].control_mode # "closed"
  /\ next # c
  /\ next # FreshSession => /\ accepting[next] = None
                            /\ conv[next].control_mode # "closed"
  /\ conv' = [conv EXCEPT ![c].control_mode = "closed",
                          ![c].control_version = conv[c].control_version + 1,
                          ![c].assigned_admin = NoAdmin]
  /\ execution' = status
  /\ lease_owner' = [m \in Messages |-> IF m \in open THEN None ELSE lease_owner[m]]
  /\ lease' = [m \in Messages |-> IF m \in open THEN "null" ELSE lease[m]]
  /\ events' = [events EXCEPT
       ![c] = @ \o Notices(c, open, status) \o <<Event("closed", None)>>]
  /\ UNCHANGED <<accepting, message, snapshot, queue_sequence, workerVars>>

-----------------------------------------------------------------------------
(* Operators.                                                              *)

\* The bound on what operators change.
Changes(c) == conv[c].control_version + conv[c].automation_version

ControlTransition(c, actor, target, requested, expected) ==
  /\ Changes(c) < MaxEpochs
  /\ Transition(c, actor, target, requested, expected)
  /\ Publish(c, "control", target)
  /\ UNCHANGED <<accepting, rowVars, workerVars>>

AutomationAssign(c, agent, expected) ==
  /\ Changes(c) < MaxEpochs
  /\ Assign(c, agent, expected)
  /\ UNCHANGED <<accepting, rowVars, events, workerVars>>

\* record_operator_message on the web channel, under a new key; a repeated key
\* finds its event and publishes nothing.
OperatorReply(c, actor, expected) ==
  /\ expected = conv[c].control_version
  /\ conv[c].control_mode = "human"
  /\ conv[c].assigned_admin = actor
  /\ Len(SelectSeq(events[c], LAMBDA e : e.type = "operator")) < MaxReplies
  /\ Publish(c, "operator", actor)
  /\ UNCHANGED <<conv, accepting, rowVars, workerVars>>

-----------------------------------------------------------------------------
(* claim_next.  R are the stale leases it recovers and S the heads it      *)
(* cancels before it claims or gives up; SKIP LOCKED lets it pass over a   *)
(* row that another transaction holds, so neither needs to be complete.    *)

\* Faulty variant: recovery forgotten.
StaleLeasesIgnored == {}

\* recover_stale_leases
StaleLeases == {m \in Messages : execution[m] = "running" /\ lease[m] = "expired"}

\* What still holds m back once the executions of Settled are terminal.
HeldBack(m, Settled) ==
  \E e \in Messages \ Settled : Earlier(e, m) /\ execution[e] \in Blocking

\* _eligible_statement
EligibleHead(m, Settled) ==
  execution[m] = "queued" /\ m \notin Settled /\ ~HeldBack(m, Settled)

\* Heads whose epoch has moved; cancelling one may expose the next.
CancellableHeads(R, S) ==
  \A m \in S : execution[m] = "queued" /\ ~Current(m) /\ ~HeldBack(m, R \cup S)

\* The rows and events after recovery and cancellation, before a claim.
SweptExecution(R, S) ==
  [m \in Messages |-> CASE m \in R  -> "blocked"
                        [] m \in S  -> "cancelled"
                        [] OTHER    -> execution[m]]
SweptLease(R, field, null) == [m \in Messages |-> IF m \in R THEN null ELSE field[m]]
SweptEvents(R, S) ==
  [c \in Conversations |-> events[c] \o Notices(c, R, SweptExecution(R, S))
                                     \o Notices(c, S, SweptExecution(R, S))]

ClaimHead(w, R, S, head) ==
  /\ pc[w] = "idle"
  /\ CancellableHeads(R, S)
  /\ EligibleHead(head, R \cup S)
  /\ Current(head)
  /\ execution' = [SweptExecution(R, S) EXCEPT ![head] = "running"]
  /\ lease_owner' = [SweptLease(R, lease_owner, None) EXCEPT ![head] = w]
  /\ lease' = [SweptLease(R, lease, "null") EXCEPT ![head] = "live"]
  /\ events' = [SweptEvents(R, S) EXCEPT
       ![ConvOf[head]] = Append(@, Event("running", head))]
  /\ pc' = [pc EXCEPT ![w] = "claimed"]
  /\ job' = [job EXCEPT ![w] = head]
  /\ UNCHANGED <<conv, accepting, message, snapshot, queue_sequence>>

ClaimNothing(w, R, S) ==
  /\ pc[w] = "idle"
  /\ CancellableHeads(R, S)
  /\ R \cup S # {}
  /\ execution' = SweptExecution(R, S)
  /\ lease_owner' = SweptLease(R, lease_owner, None)
  /\ lease' = SweptLease(R, lease, "null")
  /\ events' = SweptEvents(R, S)
  /\ UNCHANGED <<conv, accepting, message, snapshot, queue_sequence, workerVars>>

LeaseExpires(m) ==
  /\ execution[m] = "running"
  /\ lease[m] = "live"
  /\ lease' = [lease EXCEPT ![m] = "expired"]
  /\ UNCHANGED <<conv, accepting, message, execution, snapshot, queue_sequence,
                 lease_owner, events, workerVars>>

-----------------------------------------------------------------------------
(* execute_claim                                                           *)

Owned(w, m) == execution[m] = "running" /\ lease_owner[m] = w

\* revalidate_claim, committed before whatever it guards.
ClaimValid(w, m) == Owned(w, m) /\ lease[m] = "live" /\ Current(m)

Forget(w) ==
  /\ pc' = [pc EXCEPT ![w] = "idle"]
  /\ job' = [job EXCEPT ![w] = None]

\* The worker moves on without a write to the database.
Goto(w, place) ==
  /\ pc' = [pc EXCEPT ![w] = place]
  /\ UNCHANGED <<conv, accepting, rowVars, events, job>>

Abandon(w) ==
  /\ Forget(w)
  /\ UNCHANGED <<conv, accepting, rowVars, events>>

\* The first revalidation.  An expired lease that still is ours, or a moved
\* epoch, is recorded as blocked; a lost claim is dropped.
Begin(w) ==
  /\ pc[w] = "claimed"
  /\ \/ ClaimValid(w, job[w]) /\ Goto(w, "preparing")
     \/ Owned(w, job[w]) /\ ~ClaimValid(w, job[w]) /\ Goto(w, "blocking")
     \/ ~Owned(w, job[w]) /\ Abandon(w)

\* The guard of _run_agent and of every turn and tool of the agent loop.  An
\* expired lease is a lost claim here (WebExecutionLeaseExpiredError is a
\* WebExecutionClaimOwnershipError): nothing is recorded.
Guard(w) ==
  /\ pc[w] \in {"preparing", "running"}
  /\ LET m == job[w]
         ours == Owned(w, m) /\ lease[m] = "live" IN
     \/ ClaimValid(w, m) /\ Goto(w, "guarded")
     \/ ours /\ ~Current(m) /\ Goto(w, "blocking")
     \/ ~ours /\ Abandon(w)

\* AgentRuntimeUnavailable in _prepare; any other exception, anywhere.
PrepareFails(w) == pc[w] = "preparing" /\ Goto(w, "failing")
AgentRaises(w) == pc[w] \in {"preparing", "running", "guarded"} /\ Goto(w, "blocking")

\* A configured HTTP tool acts on another system and leaves no trace in this one:
\* only the guard before it was asked.
HttpTool(w) == pc[w] = "guarded" /\ Goto(w, "running")

\* Faulty variant: the native tool relies on the guard alone.
ContactToolUnfenced(w) ==
  /\ pc[w] = "guarded"
  /\ Event("contact", job[w]) \notin
       {events[ConvOf[job[w]]][i] : i \in DOMAIN events[ConvOf[job[w]]]}
  /\ Publish(ConvOf[job[w]], "contact", job[w])
  /\ pc' = [pc EXCEPT ![w] = "running"]
  /\ UNCHANGED <<conv, accepting, rowVars, job>>

\* The native tool locks the conversation, checks the epochs again and asks
\* once for each execution.
ContactTool(w) ==
  LET m == job[w]
      c == ConvOf[m] IN
  /\ pc[w] = "guarded"
  /\ IF Current(m) /\ \A i \in DOMAIN events[c] : events[c][i] # Event("contact", m)
       THEN Publish(c, "contact", m)
       ELSE UNCHANGED events
  /\ pc' = [pc EXCEPT ![w] = "running"]
  /\ UNCHANGED <<conv, accepting, rowVars, job>>

\* Faulty variants of record_outcome: without its ownership check, without
\* its second look at the epochs.
RecordUnowned(w, outcome) ==
  LET m == job[w] IN
  /\ execution' = [execution EXCEPT ![m] = outcome]
  /\ message' = [message EXCEPT ![m] = "completed"]
  /\ lease_owner' = [lease_owner EXCEPT ![m] = None]
  /\ lease' = [lease EXCEPT ![m] = "null"]
  /\ Publish(ConvOf[m], outcome, m)
  /\ Forget(w)
  /\ UNCHANGED <<conv, accepting, snapshot, queue_sequence>>

RecordUnfenced(w, outcome) ==
  LET m == job[w] IN
  /\ IF Owned(w, m)
       THEN /\ execution' = [execution EXCEPT ![m] = outcome]
            /\ message' = [message EXCEPT ![m] = "completed"]
            /\ lease_owner' = [lease_owner EXCEPT ![m] = None]
            /\ lease' = [lease EXCEPT ![m] = "null"]
            /\ Publish(ConvOf[m], outcome, m)
       ELSE UNCHANGED <<execution, message, lease_owner, lease, events>>
  /\ Forget(w)
  /\ UNCHANGED <<conv, accepting, snapshot, queue_sequence>>

\* record_outcome: ownership, then the epochs under the conversation lock.  A
\* moved epoch turns any outcome into "blocked" and leaves the message open.
Record(w, outcome) ==
  LET m == job[w]
      verdict == IF Current(m) THEN outcome ELSE "blocked" IN
  /\ IF Owned(w, m)
       THEN /\ execution' = [execution EXCEPT ![m] = verdict]
            /\ message' = IF Current(m) THEN [message EXCEPT ![m] = "completed"]
                                        ELSE message
            /\ lease_owner' = [lease_owner EXCEPT ![m] = None]
            /\ lease' = [lease EXCEPT ![m] = "null"]
            /\ Publish(ConvOf[m], verdict, m)
       ELSE UNCHANGED <<execution, message, lease_owner, lease, events>>
  /\ Forget(w)
  /\ UNCHANGED <<conv, accepting, snapshot, queue_sequence>>

\* Faulty variant: the agent loop's own status is stored as it is.
FinishUntranslated(w) ==
  pc[w] = "guarded" /\ \E outcome \in {"completed", "timeout"} : Record(w, outcome)

\* _record_agent_result and _record_terminal.
Finish(w) ==
  \/ pc[w] = "guarded" /\ \E outcome \in {"completed", "failed"} : Record(w, outcome)
  \/ pc[w] = "blocking" /\ Record(w, "blocked")
  \/ pc[w] = "failing" /\ Record(w, "failed")

\* The process dies and another takes its place, or a write fails and the loop of
\* run_forever goes on to its next claim.
WorkerDies(w) == pc[w] # "idle" /\ Abandon(w)

-----------------------------------------------------------------------------
Visit ==
  \/ \E m \in Messages : AcceptReads(m)
  \/ \E c \in Conversations :
       \/ AcceptQueues(c)
       \/ AcceptRefused(c)
       \/ AcceptForOperator(c)
       \/ \E next \in Conversations \cup {FreshSession} : ResetSession(c, next)

Operate ==
  \E c \in Conversations :
    \/ \E actor \in Admins, target \in Modes, requested \in Admins \cup {NoAdmin},
          v \in 0..MaxControl : ControlTransition(c, actor, target, requested, v)
    \/ \E a \in Agents, av \in 0..MaxAutomation : AutomationAssign(c, a, av)
    \/ \E actor \in Admins, v \in 0..MaxControl : OperatorReply(c, actor, v)

Claim(w) ==
  /\ pc[w] = "idle"
  /\ \E R \in SUBSET StaleLeases, S \in SUBSET {m \in Messages : execution[m] = "queued"} :
       \/ \E head \in Messages : ClaimHead(w, R, S, head)
       \/ ClaimNothing(w, R, S)

Execute(w) ==
  \/ Begin(w)
  \/ Guard(w)
  \/ PrepareFails(w)
  \/ AgentRaises(w)
  \/ HttpTool(w)
  \/ ContactTool(w)
  \/ Finish(w)

Next ==
  \/ Visit
  \/ Operate
  \/ \E w \in Workers : Claim(w) \/ Execute(w) \/ WorkerDies(w)
  \/ \E m \in Messages : LeaseExpires(m)

Spec == Init /\ [][Next]_vars

(* The worker loop polls for ever and the clock moves.  The agent loop is    *)
(* bounded by its iterations and timeouts and guards every return, so a      *)
(* worker that keeps passing its guard comes to an outcome (strong fairness).*)
Fairness ==
  /\ WF_vars(\E w \in Workers : Claim(w))
  /\ \A w \in Workers : WF_vars(Begin(w) \/ Guard(w)) /\ SF_vars(Finish(w))
  /\ \A m \in Messages : WF_vars(LeaseExpires(m))

FairSpec == Spec /\ Fairness

-----------------------------------------------------------------------------
(* Properties.  The event log is what the visitor sees.                     *)

Verdicts == {"completed", "failed", "blocked", "cancelled"}

\* The visitor sees event e of conversation c at sequence i.
At(c, i, type, of) == events[c][i] = Event(type, of)

(* The log respects whoever is in control.  What an execution shows (that it *)
(* runs, asks for contact data, answers or fails) lies in the very control   *)
(* epoch in which its message was accepted, although guard, tool and outcome *)
(* are separate transactions; and an operator's words follow a transition    *)
(* to human control and no other (record_outcome "closing the takeover race",*)
(* the native contact tool, record_operator_message).                        *)
TranscriptFollowsControl ==
  \A c \in Conversations : \A i \in DOMAIN events[c] :
    /\ \A m \in Messages :
         events[c][i] \in {Event(t, m) : t \in {"running", "contact", "completed", "failed"}}
           => \E a \in 1..i : /\ At(c, a, "accepted", m)
                              /\ \A j \in a..i : events[c][j].type \notin {"control", "closed"}
    /\ events[c][i].type = "operator"
         => \E a \in 1..i :
              /\ At(c, a, "control", "human")
              /\ \A j \in (a + 1)..i : events[c][j].type \notin {"control", "closed"}

(* What is asked or answered in an agent's name comes from the agent that    *)
(* acts for the conversation at that moment, in the assignment under which   *)
(* the message was queued, even when agents change hands mid-execution       *)
(* (assert_execution_current against ConversationAutomationAssignment).      *)
ActingAgentSpeaks ==
  [][\A m \in Messages : \A i \in DOMAIN events'[ConvOf[m]] :
       /\ i \notin DOMAIN events[ConvOf[m]]
       /\ events'[ConvOf[m]][i] \in {Event("contact", m), Event("completed", m)}
       => /\ conv[ConvOf[m]].automation_agent = snapshot[m].automation_agent
          /\ conv[ConvOf[m]].automation_version = snapshot[m].automation_version]_vars

(* A queued message gets one verdict, the one its row keeps, however many    *)
(* workers, recoveries and session resets touched it: a worker that comes    *)
(* back after its lease was recovered publishes nothing (record_outcome,     *)
(* recover_stale_leases, _close_session).                                    *)
OneVerdict ==
  \A m \in Messages :
    LET c == ConvOf[m]
        seen == {i \in DOMAIN events[c] : \E t \in Verdicts : At(c, i, t, m)} IN
    /\ execution[m] \in Verdicts <=> seen # {}
    /\ \A i \in seen : /\ At(c, i, execution[m], m)
                       /\ seen = {i}
                       /\ queue_sequence[m] \in 1..i
                       /\ At(c, queue_sequence[m], "accepted", m)

(* A conversation is answered in the order it was asked: a worker starts a   *)
(* message only after the visitor has seen the verdict of every message      *)
(* queued before it (_eligible_statement with several workers).              *)
AnsweredInOrder ==
  \A first, then \in Messages :
    Earlier(first, then) =>
      \A i \in DOMAIN events[ConvOf[then]] :
        At(ConvOf[then], i, "running", then) =>
          \E j \in 1..i : \E t \in Verdicts : At(ConvOf[first], j, t, first)

(* Every queued message is decided, although workers die and leases run out: *)
(* once the visitors have written what they will write, nothing is left in   *)
(* the queue or running (claim_next polls, recover_stale_leases).            *)
EveryMessageDecided ==
  (\E m \in Messages : execution[m] = "queued") ~>
    (\A m \in Messages : execution[m] \in Verdicts \cup {"none"})
=============================================================================
