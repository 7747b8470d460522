------------------------ MODULE ChannelInboundProofs ------------------------
(***************************************************************************)
(* Proofs about the inbox of an external channel, for any set of threads,  *)
(* jobs and workers and any bound.                                         *)
(***************************************************************************)
EXTENDS ChannelInbound, ConversationControlProofs, FiniteSetTheorems, TLAPS

LOCAL INSTANCE SequencesExt

-----------------------------------------------------------------------------
(* The inductive invariant.                                                *)

\* The rows of a webhook commit together, and a webhook's created_at is one
\* that no other webhook has.
WebhooksWhole ==
  /\ fifo \in Seq(Jobs)
  /\ \A j \in Jobs : created_at[j] # 0 => created_at[j] \in 1..Len(fifo)
  /\ \A j \in Jobs : created_at[j] = 0 => status[j] = "none"
  /\ \A i, j \in Jobs :
       created_at[i] = created_at[j] /\ status[i] = "none" => status[j] = "none"

\* A job nobody has claimed since it was accepted or queued again.
WaitingRows ==
  \A j \in Jobs :
    status[j] \in {"none", "queued"} =>
      phase[j] = "accepted" /\ attempts[j] < MaxAttempts

PayloadsKept ==
  \A j \in Jobs :
    status[j] \in {"queued", "processing", "review_required"} <=> j \in payload

\* What the phase of a row says about the past of its job.
PhasesHonest ==
  \A j \in Jobs :
    /\ phase[j] \in RequeuePhases => epoch[j] = None
    /\ phase[j] \in ZeroEffectPhases => effects[j] = {}

\* The attempt that acted is the last one there will be.
LastAttemptActed ==
  \A j \in Jobs :
    /\ effects[j] \subseteq {attempts[j]}
    /\ effects[j] # {} => status[j] # "routed_to_human"
    /\ j \in replies => effects[j] # {}

\* What an operator can see of a job whose row says so.
SeenByOperators ==
  \A j \in Jobs :
    /\ epoch[j] # None => j \in recorded
    /\ status[j] = "completed" => j \in replies \cap recorded
    /\ status[j] = "routed_to_human" /\ j \notin Refused => j \in recorded

\* A worker's place in the pipeline tells its stage and what it has done.
PlacesReached(w) ==
  /\ pc[w] # "idle" => attempt[w] # 0
  /\ pc[w] \in {"guard", "advance", "effect"} => stage[w] \in Stages
  /\ pc[w] = "tool" => stage[w] = "agent"
  /\ pc[w] = "recorded" => job[w] \in recorded
  /\ pc[w] \in {"guard", "advance", "effect", "tool", "blocked", "done",
                "completing", "reviewing"}
       => job[w] \in recorded \cup Refused
  /\ pc[w] \in {"done", "completing"} => job[w] \in replies
  /\ pc[w] = "completing" => job[w] \in recorded

\* The row of a running job is its owner's.
OwnersRow(w) ==
  pc[w] # "idle" /\ Owned(w) =>
    /\ attempt[w] = attempts[job[w]]
    /\ pc[w] \in {"claimed", "loaded", "recorded"} => phase[job[w]] = "claimed"
    /\ RowFollowsOwner(w)

\* A worker that may act, owner or not, is the last that may.
LastToAct(w) ==
  pc[w] \in {"effect", "tool"} =>
    /\ attempt[w] = attempts[job[w]]
    /\ phase[job[w]] \notin ZeroEffectPhases
    /\ status[job[w]] # "routed_to_human"

WorkersKnown == \A w \in Workers : PlacesReached(w) /\ OwnersRow(w) /\ LastToAct(w)

RowsKnown ==
  /\ WaitingRows
  /\ PayloadsKept
  /\ PhasesHonest
  /\ LastAttemptActed
  /\ SeenByOperators

IInv ==
  /\ TypeOK
  /\ WebhooksWhole
  /\ RowsKnown
  /\ WorkersKnown

\* What a webhook found committed stays committed.
PresentCommitted ==
  \A i, j \in Jobs : i \in present[j] => status[i] # "none"

FifoInv == PresentCommitted /\ ThreadFifo

-----------------------------------------------------------------------------
(* Workers at places of the pipeline that write nothing to the rows.        *)

\* The stages by name.
LEMMA StageNames ==
  Stages = {"provider", "transcription", "agent", "outbox", "finalize"}
BY DEF Stages, Phase

\* The row variables of a step that leaves them alone.
LEMMA RowsUntouched ==
  ASSUME IInv, UNCHANGED <<rowVars, worldVars>>
  PROVE  WebhooksWhole' /\ RowsKnown'
BY DEF IInv, rowVars, worldVars, WebhooksWhole, RowsKnown, WaitingRows, PayloadsKept,
       PhasesHonest, LastAttemptActed, SeenByOperators

\* Load moves a claimed job into the pipeline.
LEMMA LoadKeeps ==
  ASSUME IInv, NEW w \in Workers, Load(w)
  PROVE  IInv'
<1>1. WebhooksWhole' /\ RowsKnown'
  BY RowsUntouched DEF Load
<1>2. TypeOK'
  BY InboundAssumption, StageNames
     DEF IInv, Load, rowVars, worldVars, TypeOK, EpochOf, Epoch, Conversation
<1>3. WorkersKnown'
  BY StageNames
     DEF IInv, Load, rowVars, worldVars, TypeOK, WorkersKnown, PlacesReached, OwnersRow,
         LastToAct, Owned, RowFollowsOwner, RowsKnown, PhasesHonest, RequeuePhases
<1>4. QED
  BY <1>1, <1>2, <1>3 DEF IInv

\* A guard that passes lets the worker on, one that fails sends it to its end.
LEMMA GuardKeeps ==
  ASSUME IInv, NEW w \in Workers, Guard(w)
  PROVE  IInv'
<1>1. WebhooksWhole' /\ RowsKnown'
  BY RowsUntouched DEF Guard
<1>2. TypeOK'
  BY StageNames
     DEF IInv, Guard, Goto, rowVars, worldVars, TypeOK, PlacesReached, WorkersKnown
<1>3. WorkersKnown'
  BY StageNames
     DEF IInv, Guard, Goto, rowVars, worldVars, TypeOK, WorkersKnown, PlacesReached,
         OwnersRow, LastToAct, Owned, RowFollowsOwner
<1>4. QED
  BY <1>1, <1>2, <1>3 DEF IInv

\* The agent's answer goes on to the outbox.
LEMMA AgentReturnsKeeps ==
  ASSUME IInv, NEW w \in Workers, AgentReturns(w)
  PROVE  IInv'
<1>1. WebhooksWhole' /\ RowsKnown'
  BY RowsUntouched DEF AgentReturns
<1>2. TypeOK'
  BY StageNames
     DEF IInv, AgentReturns, Goto, rowVars, worldVars, TypeOK, PlacesReached, WorkersKnown
<1>3. WorkersKnown'
  BY StageNames
     DEF IInv, AgentReturns, Goto, rowVars, worldVars, TypeOK, WorkersKnown,
         PlacesReached, OwnersRow, LastToAct, Owned, RowFollowsOwner
<1>4. QED
  BY <1>1, <1>2, <1>3 DEF IInv

\* An exception leaves the row for the worker to settle.
LEMMA FailsKeeps ==
  ASSUME IInv, NEW w \in Workers, Fails(w)
  PROVE  IInv'
<1>1. WebhooksWhole' /\ RowsKnown'
  BY RowsUntouched DEF Fails
<1>2. TypeOK'
  BY StageNames
     DEF IInv, Fails, Goto, rowVars, worldVars, TypeOK, PlacesReached, WorkersKnown
<1>3. WorkersKnown'
  BY StageNames
     DEF IInv, Fails, Goto, rowVars, worldVars, TypeOK, WorkersKnown, PlacesReached,
         OwnersRow, LastToAct, Owned, RowFollowsOwner
<1>4. QED
  BY <1>1, <1>2, <1>3 DEF IInv

\* An answered job whose epoch is current was recorded: its phase says it has acted,
\* so its epochs were stored, which needs its message in the conversation.
LEMMA CheckEpochKeeps ==
  ASSUME IInv, NEW w \in Workers, CheckEpoch(w)
  PROVE  IInv'
<1>1. WebhooksWhole' /\ RowsKnown'
  BY RowsUntouched DEF CheckEpoch
<1>2. TypeOK'
  BY StageNames
     DEF IInv, CheckEpoch, Goto, rowVars, worldVars, TypeOK, PlacesReached, WorkersKnown
<1>3. WorkersKnown'
  BY StageNames
     DEF IInv, CheckEpoch, Goto, rowVars, worldVars, TypeOK, WorkersKnown, PlacesReached,
         OwnersRow, LastToAct, Owned, RowFollowsOwner, EpochIsCurrent, RowsKnown,
         LastAttemptActed, PhasesHonest, SeenByOperators, ZeroEffectPhases
<1>4. QED
  BY <1>1, <1>2, <1>3 DEF IInv

\* The worker leaves its job: it owns nothing and may not act.
LEMMA ForgetKeeps ==
  ASSUME IInv, NEW w \in Workers, Forget(w), UNCHANGED <<conv, rowVars, worldVars>>
  PROVE  IInv'
<1>1. WebhooksWhole' /\ RowsKnown'
  BY RowsUntouched
<1>2. TypeOK'
  BY InboundAssumption DEF IInv, Forget, rowVars, worldVars, TypeOK
<1>3. WorkersKnown'
  BY DEF IInv, Forget, rowVars, worldVars, TypeOK, WorkersKnown, PlacesReached,
     OwnersRow, LastToAct, Owned, RowFollowsOwner
<1>4. QED
  BY <1>1, <1>2, <1>3 DEF IInv

\* Recording the message lets operators see more.
LEMMA RecordInboundKeeps ==
  ASSUME IInv, NEW w \in Workers, RecordInbound(w)
  PROVE  IInv'
<1>1. TypeOK'
  BY DEF IInv, RecordInbound, Goto, rowVars, TypeOK
<1>2. WebhooksWhole'
  BY DEF IInv, RecordInbound, rowVars, WebhooksWhole
<1>3. RowsKnown'
  BY DEF IInv, RecordInbound, rowVars, RowsKnown, WaitingRows, PayloadsKept,
     PhasesHonest, LastAttemptActed, SeenByOperators
<1>4. WorkersKnown'
  BY DEF IInv, RecordInbound, Goto, rowVars, TypeOK, WorkersKnown, PlacesReached,
     OwnersRow, LastToAct, Owned, RowFollowsOwner
<1>5. QED
  BY <1>1, <1>2, <1>3, <1>4 DEF IInv

-----------------------------------------------------------------------------
(* Workers that write the phase or act outside.                             *)

\* The owner stores its epochs.  Nobody has acted for the job: its phase is "claimed".
LEMMA InboundRecordedKeeps ==
  ASSUME IInv, NEW w \in Workers, InboundRecorded(w)
  PROVE  IInv'
<1>1. TypeOK'
  BY StageNames
     DEF IInv, InboundRecorded, Goto, worldVars, TypeOK, ZeroEffectPhases
<1>2. WebhooksWhole'
  BY DEF IInv, InboundRecorded, WebhooksWhole
<1>3. job[w] \in Jobs /\ phase[job[w]] = "claimed" /\ status[job[w]] = "processing"
      /\ job[w] \in recorded
  BY DEF IInv, InboundRecorded, TypeOK, WorkersKnown, OwnersRow, PlacesReached, Owned
<1>4. RowsKnown'
  BY <1>3 DEF IInv, InboundRecorded, worldVars, TypeOK, RowsKnown, WaitingRows, PayloadsKept,
     PhasesHonest, LastAttemptActed, SeenByOperators, ZeroEffectPhases, RequeuePhases
<1>5. WorkersKnown'
  BY <1>3, StageNames
     DEF IInv, InboundRecorded, Goto, worldVars, TypeOK, WorkersKnown, PlacesReached,
         OwnersRow, LastToAct, Owned, RowFollowsOwner, RowsKnown, PhasesHonest,
         ZeroEffectPhases
<1>6. QED
  BY <1>1, <1>2, <1>4, <1>5 DEF IInv

\* The owner announces its next effect; from here on it is the last to act.
LEMMA AdvanceKeeps ==
  ASSUME IInv, NEW w \in Workers, Advance(w)
  PROVE  IInv'
<1>1. /\ stage[w] \in Stages
      /\ job[w] \in Jobs
      /\ status[job[w]] = "processing"
      /\ attempt[w] = attempts[job[w]]
  BY DEF IInv, Advance, TypeOK, WorkersKnown, PlacesReached, OwnersRow, Owned
<1>2. Phase[stage[w]] \notin ZeroEffectPhases \cup RequeuePhases \cup {"terminal"}
  BY <1>1 DEF Phase, Stages, ZeroEffectPhases, RequeuePhases
<1>3. TypeOK'
  BY <1>1 DEF IInv, Advance, Goto, worldVars, TypeOK
<1>4. WebhooksWhole'
  BY DEF IInv, Advance, WebhooksWhole
<1>5. RowsKnown'
  BY <1>1, <1>2 DEF IInv, Advance, worldVars, TypeOK, RowsKnown, WaitingRows, PayloadsKept,
     PhasesHonest, LastAttemptActed, SeenByOperators
<1>6. WorkersKnown'
  BY <1>1, <1>2 DEF IInv, Advance, Goto, worldVars, TypeOK, WorkersKnown, PlacesReached,
     OwnersRow, LastToAct, Owned, RowFollowsOwner
<1>7. QED
  BY <1>3, <1>4, <1>5, <1>6 DEF IInv

\* A worker that may act is the job's last attempt, so its effect adds no other.
LEMMA ActKeepsRows ==
  ASSUME IInv, NEW w \in Workers, pc[w] \in {"effect", "tool"}, Act(w),
         replies' \in {replies, replies \cup {job[w]}}, UNCHANGED <<conv, rowVars, recorded>>
  PROVE  /\ WebhooksWhole' /\ RowsKnown'
         /\ effects' \in [Jobs -> SUBSET (1..MaxAttempts)]
         /\ replies' \subseteq Jobs
         /\ \A j \in Jobs \ {job[w]} : effects'[j] = effects[j]
         /\ phase[job[w]] \notin ZeroEffectPhases
<1>1. /\ job[w] \in Jobs
      /\ attempt[w] = attempts[job[w]]
      /\ attempt[w] \in 1..MaxAttempts
      /\ phase[job[w]] \notin ZeroEffectPhases
      /\ status[job[w]] # "routed_to_human"
  BY InboundAssumption DEF IInv, TypeOK, WorkersKnown, PlacesReached, LastToAct
<1>2. /\ effects' \in [Jobs -> SUBSET (1..MaxAttempts)]
      /\ \A j \in Jobs \ {job[w]} : effects'[j] = effects[j]
      /\ effects'[job[w]] = effects[job[w]] \cup {attempts[job[w]]}
  BY <1>1 DEF IInv, TypeOK, Act
<1>3. replies' \subseteq Jobs
  BY <1>1 DEF IInv, TypeOK
<1>4. WebhooksWhole'
  BY DEF IInv, rowVars, WebhooksWhole
<1>5. RowsKnown'
  BY <1>1, <1>2 DEF IInv, rowVars, RowsKnown, WaitingRows, PayloadsKept,
     PhasesHonest, LastAttemptActed, SeenByOperators
<1>6. QED
  BY <1>1, <1>2, <1>3, <1>4, <1>5

\* Marking as read is an effect of the last attempt.
LEMMA MarkAsReadKeeps ==
  ASSUME IInv, NEW w \in Workers, MarkAsRead(w)
  PROVE  IInv'
<1>1. /\ WebhooksWhole' /\ RowsKnown'
      /\ effects' \in [Jobs -> SUBSET (1..MaxAttempts)]
      /\ \A j \in Jobs \ {job[w]} : effects'[j] = effects[j]
      /\ phase[job[w]] \notin ZeroEffectPhases
  BY ActKeepsRows DEF MarkAsRead
<1>2. PICK place \in {"guard", "advance"}, next \in Stages : Goto(w, place, next)
  BY StageNames DEF MarkAsRead
<1>3. TypeOK'
  BY <1>1, <1>2 DEF IInv, MarkAsRead, Goto, rowVars, TypeOK
<1>4. WorkersKnown'
  BY <1>1, <1>2
     DEF IInv, MarkAsRead, Goto, rowVars, TypeOK, WorkersKnown, PlacesReached, OwnersRow,
         LastToAct, Owned, RowFollowsOwner
<1>5. QED
  BY <1>1, <1>3, <1>4 DEF IInv

\* A transcription is an effect of the last attempt.
LEMMA TranscribeKeeps ==
  ASSUME IInv, NEW w \in Workers, Transcribe(w)
  PROVE  IInv'
<1>1. /\ WebhooksWhole' /\ RowsKnown'
      /\ effects' \in [Jobs -> SUBSET (1..MaxAttempts)]
      /\ \A j \in Jobs \ {job[w]} : effects'[j] = effects[j]
      /\ phase[job[w]] \notin ZeroEffectPhases
  BY ActKeepsRows DEF Transcribe
<1>2. TypeOK'
  BY <1>1, StageNames
     DEF IInv, Transcribe, Goto, rowVars, TypeOK
<1>3. PICK place \in {"guard", "advance"}, next \in Stages : Goto(w, place, next)
  BY StageNames DEF Transcribe
<1>4. WorkersKnown'
  BY <1>1, <1>3
     DEF IInv, Transcribe, Goto, rowVars, TypeOK, WorkersKnown, PlacesReached, OwnersRow,
         LastToAct, Owned, RowFollowsOwner
<1>5. QED
  BY <1>1, <1>2, <1>4 DEF IInv

\* A tool call is an effect of the last attempt.
LEMMA ToolKeeps ==
  ASSUME IInv, NEW w \in Workers, Tool(w)
  PROVE  IInv'
<1>1. /\ WebhooksWhole' /\ RowsKnown'
      /\ effects' \in [Jobs -> SUBSET (1..MaxAttempts)]
      /\ \A j \in Jobs \ {job[w]} : effects'[j] = effects[j]
      /\ phase[job[w]] \notin ZeroEffectPhases
  BY ActKeepsRows DEF Tool
<1>2. TypeOK'
  BY <1>1, StageNames
     DEF IInv, Tool, Goto, rowVars, TypeOK
<1>3. WorkersKnown'
  BY <1>1, StageNames
     DEF IInv, Tool, Goto, rowVars, TypeOK, WorkersKnown, PlacesReached, OwnersRow,
         LastToAct, Owned, RowFollowsOwner
<1>4. QED
  BY <1>1, <1>2, <1>3 DEF IInv

\* The answer is committed for a job that was recorded, by the last attempt.
LEMMA ExchangeKeeps ==
  ASSUME IInv, NEW w \in Workers, Exchange(w)
  PROVE  IInv'
<1>1. CASE Current(w)
  <2>1. /\ WebhooksWhole' /\ RowsKnown'
        /\ effects' \in [Jobs -> SUBSET (1..MaxAttempts)]
        /\ replies' \subseteq Jobs
        /\ \A j \in Jobs \ {job[w]} : effects'[j] = effects[j]
        /\ phase[job[w]] \notin ZeroEffectPhases
    BY <1>1, ActKeepsRows DEF Exchange
  <2>2. /\ Goto(w, "done", stage[w])
        /\ replies' = replies \cup {job[w]}
        /\ UNCHANGED <<conv, rowVars, recorded>>
        /\ pc[w] = "effect"
    BY <1>1 DEF Exchange
  <2>3. TypeOK'
    BY <2>1, <2>2 DEF IInv, Goto, rowVars, TypeOK
  <2>4. WorkersKnown'
    BY <2>1, <2>2
       DEF IInv, Goto, rowVars, TypeOK, WorkersKnown, PlacesReached, OwnersRow,
           LastToAct, Owned, RowFollowsOwner
  <2>5. QED
    BY <2>1, <2>3, <2>4 DEF IInv
<1>2. CASE ~Current(w)
  <2>1. WebhooksWhole' /\ RowsKnown'
    BY <1>2, RowsUntouched DEF Exchange, worldVars
  <2>2. TypeOK'
    BY <1>2, StageNames
       DEF IInv, Exchange, Goto, rowVars, TypeOK
  <2>3. WorkersKnown'
    BY <1>2, StageNames
       DEF IInv, Exchange, Goto, rowVars, TypeOK, WorkersKnown, PlacesReached, OwnersRow,
           LastToAct, Owned, RowFollowsOwner
  <2>4. QED
    BY <2>1, <2>2, <2>3 DEF IInv
<1>3. QED
  BY <1>1, <1>2

-----------------------------------------------------------------------------
(* Statuses: claims, recovery, the end of run_once and operators.           *)

\* A job that leaves a worker or the review: MoveTo keeps the rows well formed
\* when the new row says nothing false about the past of the job.
LEMMA MoveToKeepsRows ==
  ASSUME IInv, NEW j \in Jobs,
         NEW to \in {"queued", "completed", "routed_to_human", "ignored", "review_required",
                     "cancelled"},
         NEW p \in {phase[j], "terminal", "accepted"},
         MoveTo(j, to, p), UNCHANGED <<conv, worldVars>>,
         status[j] # "none", j \in payload,
         to \in Terminal => p = "terminal",
         to = "queued" => p = "accepted" /\ attempts[j] < MaxAttempts,
         p = "accepted" => phase[j] \in RequeuePhases,
         to = "completed" => j \in replies \cap recorded,
         to = "routed_to_human" =>
           effects[j] = {} /\ (j \in recorded \/ j \in Refused)
  PROVE  WebhooksWhole' /\ RowsKnown'
<1>1. /\ \A i \in Jobs \ {j} : /\ status'[i] = status[i] /\ phase'[i] = phase[i]
                               /\ i \in payload' <=> i \in payload
      /\ status'[j] = to /\ phase'[j] = p
      /\ j \in payload' <=> to \notin Terminal
  BY DEF IInv, TypeOK, MoveTo
<1>2. WebhooksWhole'
  BY <1>1 DEF IInv, WebhooksWhole, MoveTo
<1>3. WaitingRows' /\ PayloadsKept'
  BY <1>1 DEF IInv, RowsKnown, WaitingRows, PayloadsKept, MoveTo, Terminal
<1>4. PhasesHonest'
  BY <1>1 DEF IInv, RowsKnown, PhasesHonest, MoveTo, worldVars, RequeuePhases, ZeroEffectPhases
<1>5. LastAttemptActed' /\ SeenByOperators'
  BY <1>1 DEF IInv, RowsKnown, LastAttemptActed, SeenByOperators, MoveTo, worldVars
<1>6. QED
  BY <1>2, <1>3, <1>4, <1>5 DEF RowsKnown

\* Nobody owns the moved job any more, and whoever may still act for it is
\* the last that may: a job goes to "accepted" or to a human only from a
\* phase in which nobody acts.
LEMMA MoveToKeepsWorkers ==
  ASSUME IInv, NEW j \in Jobs,
         NEW to \in {"queued", "completed", "routed_to_human", "ignored", "review_required",
                     "cancelled"},
         NEW p \in {phase[j], "terminal", "accepted"},
         MoveTo(j, to, p), UNCHANGED <<conv, worldVars, workerVars>>,
         p = "accepted" \/ to = "routed_to_human" => phase[j] \in ZeroEffectPhases
  PROVE  TypeOK' /\ WorkersKnown'
<1>1. /\ \A i \in Jobs \ {j} : /\ status'[i] = status[i] /\ phase'[i] = phase[i]
                               /\ lease_owner'[i] = lease_owner[i]
      /\ status'[j] = to /\ phase'[j] = p
  BY DEF IInv, TypeOK, MoveTo
<1>2. TypeOK'
  BY <1>1 DEF IInv, TypeOK, MoveTo, worldVars, workerVars, Statuses, ZeroEffectPhases
<1>3. ASSUME NEW w \in Workers
      PROVE  PlacesReached(w)' /\ OwnersRow(w)' /\ LastToAct(w)'
  <2>1. PlacesReached(w)'
    BY DEF IInv, WorkersKnown, PlacesReached, worldVars, workerVars
  <2>2. OwnersRow(w)'
    BY <1>1 DEF IInv, TypeOK, WorkersKnown, OwnersRow, Owned, RowFollowsOwner, MoveTo,
       worldVars, workerVars
  <2>3. LastToAct(w)'
    BY <1>1 DEF IInv, TypeOK, WorkersKnown, LastToAct, MoveTo, worldVars, workerVars,
       ZeroEffectPhases
  <2>4. QED
    BY <2>1, <2>2, <2>3
<1>4. QED
  BY <1>2, <1>3 DEF WorkersKnown

\* An expired lease sends the job to the review with its phase as it was.
LEMMA RecoverLeaseKeeps ==
  ASSUME IInv, NEW w \in Workers, NEW j \in Jobs, RecoverLease(w, j)
  PROVE  IInv'
<1>1. j \in payload
  BY DEF IInv, RowsKnown, PayloadsKept, RecoverLease, Stale
<1>2. QED
  BY <1>1, MoveToKeepsRows, MoveToKeepsWorkers
     DEF IInv, RecoverLease, Stale, Terminal, RequeuePhases, ZeroEffectPhases

\* Only a job that has had no effect is queued again.
LEMMA RequeueKeeps ==
  ASSUME IInv, NEW j \in Jobs, Requeue(j)
  PROVE  IInv'
BY MoveToKeepsRows, MoveToKeepsWorkers
   DEF IInv, Requeue, Terminal, RequeuePhases, ZeroEffectPhases

\* A cancelled job keeps the record of what was done.
LEMMA CancelKeeps ==
  ASSUME IInv, NEW j \in Jobs, Cancel(j)
  PROVE  IInv'
<1>1. j \in payload
  BY DEF IInv, RowsKnown, PayloadsKept, Cancel
<1>2. QED
  BY <1>1, MoveToKeepsRows, MoveToKeepsWorkers DEF IInv, Cancel, Terminal

\* So does an acknowledged one.
LEMMA AcknowledgeKeeps ==
  ASSUME IInv, NEW j \in Jobs, Acknowledge(j)
  PROVE  IInv'
<1>1. j \in payload
  BY DEF IInv, RowsKnown, PayloadsKept, Acknowledge
<1>2. QED
  BY <1>1, MoveToKeepsRows, MoveToKeepsWorkers DEF IInv, Acknowledge, Terminal

\* The owner settles its job.  "routed_to_human" is written only from a phase
\* without effects, by a worker past the recording of the message or for a
\* refused sender; "completed" by one that answered and found the epoch current.
LEMMA SettleKeeps ==
  ASSUME IInv, NEW w \in Workers, Settle(w)
  PROVE  IInv'
<1> DEFINE j == job[w]
           to == Verdict(w)
           p == IF to \in Terminal THEN "terminal" ELSE phase[j]
<1>1. /\ j \in Jobs /\ status[j] = "processing" /\ j \in payload
      /\ to \in {"completed", "routed_to_human", "review_required"}
      /\ p \in {phase[j], "terminal", "accepted"}
  BY DEF IInv, Settle, TypeOK, Owned, RowsKnown, PayloadsKept, Verdict
<1>2. to = "completed" => j \in replies \cap recorded
  BY DEF IInv, Settle, Verdict, WorkersKnown, PlacesReached
<1>3. to = "routed_to_human" => /\ phase[j] \in ZeroEffectPhases
                                /\ j \in recorded \/ j \in Refused
  BY DEF IInv, Settle, Verdict, WorkersKnown, PlacesReached
<1>4. /\ to = "routed_to_human" => effects[j] = {}
      /\ p = "accepted" => phase[j] \in RequeuePhases
      /\ to \in Terminal => p = "terminal"
      /\ MoveTo(j, to, p)
  BY <1>1, <1>3 DEF IInv, RowsKnown, PhasesHonest, RequeuePhases, Settle
<1> HIDE DEF j, to, p
<1>5. WebhooksWhole' /\ RowsKnown'
  BY <1>1, <1>2, <1>3, <1>4, MoveToKeepsRows DEF Settle
<1>6. /\ \A i \in Jobs \ {j} : /\ status'[i] = status[i] /\ phase'[i] = phase[i]
                               /\ lease_owner'[i] = lease_owner[i]
      /\ status'[j] = to /\ phase'[j] = p
      /\ UNCHANGED <<attempts, epoch>>
  BY <1>1, <1>4 DEF IInv, TypeOK, MoveTo
<1>7. TypeOK'
  <2>1. /\ UNCHANGED <<conv, worldVars>>
        /\ UNCHANGED <<fifo, created_at, present, attempts, epoch>>
        /\ payload' \subseteq Jobs
    BY <1>1, <1>4 DEF IInv, TypeOK, Settle, MoveTo
  <2>2. /\ status' \in [Jobs -> Statuses \cup {"none"}]
        /\ phase' \in [Jobs -> ZeroEffectPhases \cup {Phase[s] : s \in Stages} \cup {"terminal"}]
        /\ lease_owner' \in [Jobs -> Workers \cup {None}]
        /\ lease' \in [Jobs -> {"live", "expired", "null"}]
        /\ \A k \in Jobs : status'[k] = "processing" <=> lease_owner'[k] # None
    BY <1>1, <1>4 DEF IInv, TypeOK, MoveTo, Statuses, ZeroEffectPhases
  <2>3. /\ pc' = [pc EXCEPT ![w] = "idle"]
        /\ stage' = [stage EXCEPT ![w] = None]
        /\ job' = [job EXCEPT ![w] = None]
        /\ attempt' = [attempt EXCEPT ![w] = 0]
        /\ seen' = [seen EXCEPT ![w] = None]
    BY DEF Settle, Forget
  <2>4. /\ pc' \in [Workers -> {"idle", "claimed", "loaded", "recorded", "guard", "advance",
                                "effect", "tool", "blocked", "failed", "done", "completing",
                                "reviewing"}]
        /\ stage' \in [Workers -> Stages \cup {None}]
        /\ job' \in [Workers -> Jobs \cup {None}]
        /\ attempt' \in [Workers -> 0..MaxAttempts]
        /\ seen' \in [Workers -> {None} \cup Epoch]
        /\ \A x \in Workers : pc'[x] # "idle" => job'[x] # None
    BY <2>3, InboundAssumption DEF IInv, TypeOK
  <2>5. QED
    BY <2>1, <2>2, <2>4 DEF IInv, TypeOK, worldVars
<1>8. /\ pc'[w] = "idle"
      /\ \A x \in Workers \ {w} : /\ pc'[x] = pc[x] /\ stage'[x] = stage[x]
                                  /\ job'[x] = job[x] /\ attempt'[x] = attempt[x]
                                  /\ seen'[x] = seen[x]
  BY DEF IInv, TypeOK, Settle, Forget
<1>9. ASSUME NEW x \in Workers
      PROVE  PlacesReached(x)' /\ OwnersRow(x)' /\ LastToAct(x)'
  <2>1. PlacesReached(x)'
    BY <1>8 DEF IInv, WorkersKnown, PlacesReached, Settle, worldVars
  <2>2. OwnersRow(x)'
    BY <1>1, <1>6, <1>8 DEF IInv, TypeOK, WorkersKnown, OwnersRow, Owned, RowFollowsOwner,
        Settle,
       worldVars
  <2>3. LastToAct(x)'
    BY <1>1, <1>3, <1>4, <1>6, <1>8 DEF IInv, TypeOK, WorkersKnown, LastToAct, RequeuePhases,
       ZeroEffectPhases
  <2>4. QED
    BY <2>1, <2>2, <2>3
<1>10. QED
  BY <1>5, <1>7, <1>9 DEF IInv, WorkersKnown

\* A claim starts a new attempt of a job that has had no effect and for which
\* nobody may act.
LEMMA ClaimJobKeeps ==
  ASSUME IInv, NEW w \in Workers, NEW j \in Jobs, ClaimJob(w, j)
  PROVE  IInv'
<1>1. /\ phase[j] = "accepted" /\ attempts[j] < MaxAttempts /\ attempts[j] \in Nat
      /\ epoch[j] = None /\ effects[j] = {} /\ j \in payload
  BY InboundAssumption
     DEF IInv, TypeOK, ClaimJob, RowsKnown, WaitingRows, PhasesHonest, PayloadsKept,
         RequeuePhases, ZeroEffectPhases
<1>2. /\ \A i \in Jobs \ {j} : /\ status'[i] = status[i] /\ phase'[i] = phase[i]
                               /\ lease_owner'[i] = lease_owner[i]
                               /\ attempts'[i] = attempts[i]
      /\ status'[j] = "processing" /\ phase'[j] = "claimed"
      /\ lease_owner'[j] = w /\ attempts'[j] = attempts[j] + 1
  BY DEF IInv, TypeOK, ClaimJob
<1>3. /\ pc'[w] = "claimed" /\ job'[w] = j /\ attempt'[w] = attempts[j] + 1
      /\ \A x \in Workers \ {w} : /\ pc'[x] = pc[x] /\ job'[x] = job[x]
                                  /\ attempt'[x] = attempt[x]
  BY DEF IInv, TypeOK, ClaimJob
<1>4. TypeOK'
  BY <1>1, InboundAssumption
     DEF IInv, TypeOK, ClaimJob, worldVars, Statuses, ZeroEffectPhases
<1>5. WebhooksWhole'
  BY <1>2 DEF IInv, WebhooksWhole, ClaimJob
<1>6. RowsKnown'
  BY <1>1, <1>2 DEF IInv, ClaimJob, RowsKnown, WaitingRows, PayloadsKept, PhasesHonest,
     LastAttemptActed, SeenByOperators, RequeuePhases, ZeroEffectPhases, worldVars
<1>7. ASSUME NEW x \in Workers
      PROVE  PlacesReached(x)' /\ OwnersRow(x)' /\ LastToAct(x)'
  <2>1. PlacesReached(x)'
    BY <1>1, <1>3 DEF IInv, WorkersKnown, PlacesReached, ClaimJob, worldVars
  <2>2. OwnersRow(x)'
    BY <1>1, <1>2, <1>3 DEF IInv, TypeOK, WorkersKnown, OwnersRow, Owned, RowFollowsOwner,
       ClaimJob, worldVars, ZeroEffectPhases
  <2>3. LastToAct(x)'
    BY <1>1, <1>2, <1>3 DEF IInv, TypeOK, WorkersKnown, LastToAct, ZeroEffectPhases
  <2>4. QED
    BY <2>1, <2>2, <2>3
<1>8. QED
  BY <1>4, <1>5, <1>6, <1>7 DEF IInv, WorkersKnown

\* The clock passing a lease changes nothing else.
LEMMA LeaseExpiresKeeps ==
  ASSUME IInv, NEW j \in Jobs, LeaseExpires(j)
  PROVE  IInv'
<1>1. TypeOK'
  BY DEF IInv, TypeOK, LeaseExpires, worldVars, workerVars
<1>2. WebhooksWhole' /\ RowsKnown'
  BY DEF IInv, LeaseExpires, worldVars, WebhooksWhole, RowsKnown, WaitingRows, PayloadsKept,
         PhasesHonest, LastAttemptActed, SeenByOperators
<1>3. WorkersKnown'
  BY DEF IInv, LeaseExpires, worldVars, workerVars, WorkersKnown, PlacesReached,
     OwnersRow, LastToAct, Owned, RowFollowsOwner
<1>4. QED
  BY <1>1, <1>2, <1>3 DEF IInv

\* A change of control or of agent leaves the jobs and their workers alone.
LEMMA ConversationsKeep ==
  ASSUME IInv, conv' \in [Conversations -> Conversation],
         UNCHANGED <<rowVars, worldVars, workerVars>>
  PROVE  IInv'
<1>1. WebhooksWhole' /\ RowsKnown'
  BY RowsUntouched
<1>2. TypeOK'
  BY DEF IInv, TypeOK, rowVars, worldVars, workerVars
<1>3. WorkersKnown'
  BY DEF IInv, rowVars, worldVars, workerVars, WorkersKnown, PlacesReached,
     OwnersRow, LastToAct, Owned, RowFollowsOwner
<1>4. QED
  BY <1>1, <1>2, <1>3 DEF IInv

-----------------------------------------------------------------------------
(* Webhooks.                                                                *)

\* An ordering of a finite set lists each of its members once.
LEMMA OrderingEnumerates ==
  ASSUME NEW S, IsFiniteSet(S), NEW s \in SetToSeqs(S)
  PROVE  s \in Seq(S) /\ Len(s) = Cardinality(S) /\ IsInjective(s) /\ Range(s) = S
<1> DEFINE n == Cardinality(S)
<1>1. n \in Nat
  BY FS_CardinalityType
<1>2. s \in [1..n -> S] /\ IsInjective(s)
  BY DEF SetToSeqs, IsInjective
<1>3. s \in Injection(1..n, S)
  BY <1>2 DEF Injection
<1>4. Cardinality(1..n) = n
  BY <1>1, FS_Interval
<1>5. s \in Surjection(1..n, S)
  BY <1>3, <1>4, FS_Injection
<1>6. Range(s) = S
  BY <1>2, <1>5 DEF Surjection, Range
<1>7. QED
  BY <1>1, <1>2, <1>6

\* A batch is put at the end of the queue under a created_at of its own.
LEMMA WebhookBeginsKeeps ==
  ASSUME IInv, NEW batch \in SUBSET Jobs, WebhookBegins(batch)
  PROVE  IInv'
<1>1. IsFiniteSet(batch)
  BY FS_Subset, InboundAssumption
<1>2. PICK ordered \in SetToSeqs(batch) : fifo' = fifo \o ordered
  BY DEF WebhookBegins
<1>3. /\ ordered \in Seq(batch) /\ IsInjective(ordered) /\ Range(ordered) = batch
  BY <1>1, OrderingEnumerates
<1>4. /\ fifo \in Seq(Jobs) /\ ordered \in Seq(Jobs)
      /\ fifo' \in Seq(Jobs)
      /\ Len(fifo') = Len(fifo) + Len(ordered)
      /\ \A k \in 1..Len(fifo') :
           fifo'[k] = IF k <= Len(fifo) THEN fifo[k] ELSE ordered[k - Len(fifo)]
  BY <1>2, <1>3 DEF IInv, WebhooksWhole
<1>5. \A k \in 1..Len(fifo) : fifo[k] \notin batch
  BY <1>4 DEF IInv, TypeOK, WebhookBegins, Range
<1>6. \A k \in 1..Len(ordered) : ordered[k] \in batch
  BY <1>3
<1>7. IsInjective(fifo')
  <2>1. /\ \A a, b \in 1..Len(fifo) : fifo[a] = fifo[b] => a = b
        /\ \A a, b \in 1..Len(ordered) : ordered[a] = ordered[b] => a = b
        /\ DOMAIN fifo' = 1..Len(fifo')
        /\ Len(fifo) \in Nat /\ Len(ordered) \in Nat
    <3>1. IsInjective(fifo)
      BY DEF IInv, TypeOK
    <3>2. DOMAIN fifo = 1..Len(fifo) /\ DOMAIN ordered = 1..Len(ordered)
      BY <1>4
    <3>3. DOMAIN fifo' = 1..Len(fifo') /\ Len(fifo) \in Nat /\ Len(ordered) \in Nat
      BY <1>4
    <3>4. \A a, b \in 1..Len(fifo) : fifo[a] = fifo[b] => a = b
      BY <3>1, <3>2, Zenon DEF IsInjective
    <3>5. \A a, b \in 1..Len(ordered) : ordered[a] = ordered[b] => a = b
      BY <1>3, <3>2, Zenon DEF IsInjective
    <3>6. QED
      BY <3>3, <3>4, <3>5
  <2>2. ASSUME NEW a \in 1..Len(fifo'), NEW b \in 1..Len(fifo'), fifo'[a] = fifo'[b]
        PROVE  a = b
    <3>1. CASE a <= Len(fifo) /\ b <= Len(fifo)
      BY <1>4, <2>1, <2>2, <3>1
    <3>2. CASE a > Len(fifo) /\ b > Len(fifo)
      <4>1. a - Len(fifo) \in 1..Len(ordered) /\ b - Len(fifo) \in 1..Len(ordered)
        BY <1>4, <2>1, <3>2
      <4>2. QED
        BY <1>4, <2>1, <2>2, <3>2, <4>1
    <3>3. CASE a <= Len(fifo) /\ b > Len(fifo)
      <4>1. b - Len(fifo) \in 1..Len(ordered) /\ a \in 1..Len(fifo)
        BY <1>4, <2>1, <3>3
      <4>2. QED
        BY <1>4, <1>5, <1>6, <2>1, <2>2, <3>3, <4>1
    <3>4. CASE a > Len(fifo) /\ b <= Len(fifo)
      <4>1. a - Len(fifo) \in 1..Len(ordered) /\ b \in 1..Len(fifo)
        BY <1>4, <2>1, <3>4
      <4>2. QED
        BY <1>4, <1>5, <1>6, <2>1, <2>2, <3>4, <4>1
    <3>5. QED
      BY <2>1, <3>1, <3>2, <3>3, <3>4
  <2>3. QED
    BY <2>1, <2>2 DEF IsInjective
<1>8. Range(fifo') = Range(fifo) \cup batch
  <2>1. ASSUME NEW x \in Range(fifo')
        PROVE  x \in Range(fifo) \cup batch
    <3>1. PICK k \in 1..Len(fifo') : x = fifo'[k]
      BY <1>4 DEF Range
    <3>2. CASE k <= Len(fifo)
      BY <1>4, <3>1, <3>2 DEF Range
    <3>3. CASE k > Len(fifo)
      BY <1>4, <1>6, <3>1, <3>3
    <3>4. QED
      BY <1>4, <3>2, <3>3
  <2>2. ASSUME NEW x \in Range(fifo)
        PROVE  x \in Range(fifo')
    <3>1. PICK k \in 1..Len(fifo) : x = fifo[k]
      BY <1>4 DEF Range
    <3>2. k \in 1..Len(fifo') /\ fifo'[k] = x
      BY <1>4, <3>1
    <3>3. QED
      BY <1>4, <3>2 DEF Range
  <2>3. ASSUME NEW x \in batch
        PROVE  x \in Range(fifo')
    <3>1. PICK k \in 1..Len(ordered) : x = ordered[k]
      BY <1>3 DEF Range
    <3>2. /\ k + Len(fifo) \in 1..Len(fifo')
          /\ ~(k + Len(fifo) <= Len(fifo)) /\ k + Len(fifo) - Len(fifo) = k
      BY <1>4
    <3>3. fifo'[k + Len(fifo)] = x
      BY <1>4, <3>1, <3>2
    <3>4. QED
      BY <1>4, <3>2, <3>3 DEF Range
  <2>4. QED
    BY <2>1, <2>2, <2>3
<1>9. /\ created_at' \in [Jobs -> Nat]
      /\ \A j \in Jobs : created_at'[j] = IF j \in batch THEN Len(fifo) + 1 ELSE created_at[j]
  BY <1>4 DEF WebhookBegins, IInv, TypeOK
<1>10. Range(fifo') = {j \in Jobs : created_at'[j] # 0}
  BY <1>4, <1>8, <1>9 DEF IInv, TypeOK, WebhookBegins
<1>11. TypeOK'
  BY <1>7, <1>9, <1>10 DEF IInv, TypeOK, WebhookBegins, worldVars, workerVars
<1>12. Len(ordered) >= 1
  <2>1. batch # {}
    <3>1. Cardinality(batch) # 0
      BY InboundAssumption DEF WebhookBegins
    <3>2. QED
      BY <3>1, FS_EmptySet
  <2>2. QED
    BY <1>3, <2>1 DEF Range
<1>13. WebhooksWhole'
  <2>1. Len(fifo') > Len(fifo) /\ UNCHANGED status
    BY <1>4, <1>12 DEF WebhookBegins
  <2>2. \A j \in batch : created_at'[j] = Len(fifo) + 1 /\ status[j] = "none"
    BY DEF IInv, WebhooksWhole, WebhookBegins
  <2>3. /\ \A j \in Jobs \ batch : created_at'[j] = created_at[j]
        /\ \A j \in Jobs : created_at[j] = 0 \/ created_at[j] \in 1..Len(fifo)
        /\ Len(fifo) \in Nat /\ Len(fifo') \in Nat
    BY <1>4, <1>9 DEF IInv, WebhooksWhole
  <2>4. \A j \in Jobs : created_at'[j] # 0 => created_at'[j] \in 1..Len(fifo')
    BY <2>1, <2>2, <2>3
  <2>5. \A j \in Jobs : created_at'[j] = 0 => status[j] = "none"
    BY <2>2, <2>3 DEF IInv, WebhooksWhole
  <2>6. ASSUME NEW i \in Jobs, NEW j \in Jobs, created_at'[i] = created_at'[j],
               status[i] = "none"
        PROVE  status[j] = "none"
    <3>1. CASE j \in batch
      BY <2>2, <3>1
    <3>2. CASE i \in batch /\ j \notin batch
      BY <2>2, <2>3, <2>6, <3>2
    <3>3. CASE i \notin batch /\ j \notin batch
      BY <2>3, <2>6, <3>3 DEF IInv, WebhooksWhole
    <3>4. QED
      BY <3>1, <3>2, <3>3
  <2>7. QED
    BY <1>4, <2>1, <2>4, <2>5, <2>6 DEF WebhooksWhole
<1>14. RowsKnown'
  BY DEF IInv, WebhookBegins, worldVars, RowsKnown, WaitingRows, PayloadsKept,
         PhasesHonest, LastAttemptActed, SeenByOperators
<1>15. WorkersKnown'
  BY DEF IInv, WebhookBegins, worldVars, workerVars, WorkersKnown, PlacesReached,
     OwnersRow, LastToAct, Owned, RowFollowsOwner
<1>16. QED
  BY <1>11, <1>13, <1>14, <1>15 DEF IInv

\* The rows of a webhook become visible together, as jobs nobody has claimed.
LEMMA EnqueueBatchKeeps ==
  ASSUME IInv, NEW t \in Open, EnqueueBatch(t)
  PROVE  IInv'
<1> DEFINE batch == {j \in Jobs : created_at[j] = t}
<1>1. t \in Nat \ {0} /\ \A j \in batch : status[j] = "none"
  BY DEF IInv, TypeOK, Open, WebhooksWhole
<1>2. /\ status' = [j \in Jobs |-> IF j \in batch THEN "queued" ELSE status[j]]
      /\ payload' = payload \cup batch
  BY DEF EnqueueBatch
<1>3. TypeOK'
  BY <1>1, <1>2 DEF IInv, TypeOK, EnqueueBatch, worldVars, workerVars, Statuses
<1>4. WebhooksWhole'
  BY <1>1, <1>2 DEF IInv, TypeOK, WebhooksWhole, EnqueueBatch
<1>5. RowsKnown'
  BY <1>1, <1>2 DEF IInv, TypeOK, EnqueueBatch, worldVars, RowsKnown, WaitingRows, PayloadsKept,
         PhasesHonest, LastAttemptActed, SeenByOperators, ZeroEffectPhases
<1>6. WorkersKnown'
  BY <1>1, <1>2 DEF IInv, TypeOK, EnqueueBatch, worldVars, workerVars, WorkersKnown,
      PlacesReached,
     OwnersRow, LastToAct, Owned, RowFollowsOwner
<1>7. QED
  BY <1>3, <1>4, <1>5, <1>6 DEF IInv

-----------------------------------------------------------------------------
(* The theorems.                                                            *)

\* The initial states satisfy the invariant.
LEMMA InitHolds == Init => IInv
<1> SUFFICES ASSUME Init PROVE IInv
  OBVIOUS
<1>1. conv \in [Conversations -> Conversation]
  BY InitialType DEF Init
<1>2. IsInjective(fifo) /\ Range(fifo) = {}
  BY DEF Init, IsInjective, Range
<1>3. TypeOK
  BY <1>1, <1>2, InboundAssumption DEF Init, TypeOK, Statuses, ZeroEffectPhases
<1>4. WebhooksWhole
  BY DEF Init, WebhooksWhole
<1>5. RowsKnown
  BY InboundAssumption DEF Init, RowsKnown, WaitingRows, PayloadsKept, PhasesHonest,
     LastAttemptActed, SeenByOperators
<1>6. WorkersKnown
  BY DEF Init, WorkersKnown, PlacesReached, OwnersRow, LastToAct
<1>7. QED
  BY <1>3, <1>4, <1>5, <1>6 DEF IInv

\* Every step keeps it.
LEMMA NextKeeps == IInv /\ [Next]_vars => IInv'
<1> SUFFICES ASSUME IInv, [Next]_vars PROVE IInv'
  OBVIOUS
<1>1. CASE Ingress
  BY <1>1, WebhookBeginsKeeps, EnqueueBatchKeeps DEF Ingress
<1>2. CASE Operate
  <2>1. ASSUME NEW j \in Jobs, Requeue(j) \/ Cancel(j) \/ Acknowledge(j)
        PROVE  IInv'
    BY <2>1, RequeueKeeps, CancelKeeps, AcknowledgeKeeps
  <2>2. ASSUME NEW c \in Conversations, NEW actor \in Admins, NEW target \in Modes,
               NEW requested \in Admins \cup {NoAdmin}, NEW v \in 0..MaxControl,
               ControlTransition(c, actor, target, requested, v)
        PROVE  IInv'
    <3>1. conv' \in [Conversations -> Conversation]
      BY <2>2, TransitionType DEF ControlTransition, IInv, TypeOK
    <3>2. QED
      BY <2>2, <3>1, ConversationsKeep DEF ControlTransition
  <2>3. ASSUME NEW c \in Conversations, NEW a \in Agents, NEW av \in 0..MaxAutomation,
               AutomationAssign(c, a, av)
        PROVE  IInv'
    <3>1. conv' \in [Conversations -> Conversation]
      BY <2>3, AssignType DEF AutomationAssign, IInv, TypeOK
    <3>2. QED
      BY <2>3, <3>1, ConversationsKeep DEF AutomationAssign
  <2>4. QED
    BY <1>2, <2>1, <2>2, <2>3 DEF Operate
<1>3. ASSUME NEW w \in Workers, Claim(w)
      PROVE  IInv'
  BY <1>3, RecoverLeaseKeeps, ClaimJobKeeps DEF Claim
<1>4. ASSUME NEW w \in Workers, Proceed(w)
      PROVE  IInv'
  BY <1>4, LoadKeeps, RecordInboundKeeps, InboundRecordedKeeps, GuardKeeps, AdvanceKeeps,
     MarkAsReadKeeps, TranscribeKeeps, ExchangeKeeps, CheckEpochKeeps, SettleKeeps, ForgetKeeps
     DEF Proceed, Abandon
<1>5. ASSUME NEW w \in Workers, Tool(w) \/ AgentReturns(w) \/ Fails(w) \/ WorkerDies(w)
      PROVE  IInv'
  BY <1>5, ToolKeeps, AgentReturnsKeeps, FailsKeeps, ForgetKeeps DEF WorkerDies
<1>6. ASSUME NEW j \in Jobs, LeaseExpires(j)
      PROVE  IInv'
  BY <1>6, LeaseExpiresKeeps
<1>7. CASE UNCHANGED vars
  <2>1. conv' \in [Conversations -> Conversation]
    BY <1>7 DEF vars, IInv, TypeOK
  <2>2. QED
    BY <1>7, <2>1, ConversationsKeep DEF vars
<1>8. QED
  BY <1>1, <1>2, <1>3, <1>4, <1>5, <1>6, <1>7 DEF Next

\* The inductive invariant holds in every reachable state.
THEOREM Invariance == Spec => []IInv
BY InitHolds, NextKeeps, PTL DEF Spec

(* The rows of channel_inbound_jobs and the workers of run_once stay well    *)
(* formed; a job is processing exactly while it has an owner.                *)
THEOREM TypeCorrect == Spec => []TypeOK
<1>1. IInv => TypeOK
  BY DEF IInv
<1>2. QED
  BY Invariance, <1>1, PTL

(* A job's status is true of its message: completed means answered and       *)
(* recorded, queued or handed over means that nothing was done, and the      *)
(* payload is there exactly while the job can run (_transition, requeue,     *)
(* _terminal_command), for any number of workers, leases and retries.        *)
THEOREM HonestDispositions == Spec => []HonestDisposition
<1>1. IInv => HonestDisposition
  BY DEF IInv, RowsKnown, WaitingRows, PayloadsKept, PhasesHonest, LastAttemptActed,
     SeenByOperators, HonestDisposition, ZeroEffectPhases
<1>2. QED
  BY Invariance, <1>1, PTL

(* At most one attempt of a message acts outside, and the row of a running   *)
(* job is its owner's, although workers outlive their leases and operators   *)
(* queue jobs again (_advance, _claim_job, _REQUEUE_PHASES).                 *)
THEOREM OneAttempt == Spec => []OneAttemptActs
<1>1. ASSUME IInv
      PROVE  OneAttemptActs
  <2>1. ASSUME NEW j \in Jobs
        PROVE  Cardinality(effects[j]) <= 1
    <3>1. effects[j] = {} \/ effects[j] = {attempts[j]}
      BY <1>1 DEF IInv, RowsKnown, LastAttemptActed
    <3>2. Cardinality(effects[j]) = 0 \/ Cardinality(effects[j]) = 1
      BY <3>1, FS_EmptySet, FS_Singleton, Zenon
    <3>3. QED
      BY <3>2
  <2>2. QED
    BY <1>1, <2>1 DEF IInv, WorkersKnown, OwnersRow, OneAttemptActs
<1>2. QED
  BY Invariance, <1>1, PTL

-----------------------------------------------------------------------------
(* The order of a thread, whatever webhooks overlap.                        *)

\* A webhook puts its rows behind all others, so before no job that runs.
LEMMA WebhookBeginsInOrder ==
  ASSUME IInv, IInv', FifoInv, NEW batch \in SUBSET Jobs, WebhookBegins(batch)
  PROVE  FifoInv'
<1>1. IsFiniteSet(batch)
  BY FS_Subset, InboundAssumption
<1>2. PICK ordered \in SetToSeqs(batch) : fifo' = fifo \o ordered
  BY DEF WebhookBegins
<1>3. ordered \in Seq(batch)
  BY <1>1, OrderingEnumerates
<1>4. /\ fifo \in Seq(Jobs) /\ Len(fifo) \in Nat /\ Len(ordered) \in Nat
      /\ Len(fifo') = Len(fifo) + Len(ordered)
      /\ \A k \in 1..Len(fifo) : k \in 1..Len(fifo') /\ fifo'[k] = fifo[k]
      /\ \A k \in 1..Len(fifo') : k > Len(fifo) => fifo'[k] \in batch
  BY <1>2, <1>3 DEF IInv, WebhooksWhole
<1>5. \A j \in batch : status[j] = "none"
  BY DEF IInv, WebhooksWhole, WebhookBegins
<1>6. UNCHANGED <<status, present>>
  BY DEF WebhookBegins
<1>7. ASSUME NEW i \in Jobs, NEW j \in Jobs, Earlier(i, j)', status[j] = "processing"
      PROVE  Earlier(i, j)
  <2>1. PICK a, b \in 1..Len(fifo') : a < b /\ fifo'[a] = i /\ fifo'[b] = j
    BY <1>7 DEF Earlier
  <2>2. b <= Len(fifo)
    BY <1>4, <1>5, <1>7, <2>1
  <2>3. a \in 1..Len(fifo) /\ b \in 1..Len(fifo) /\ fifo[a] = i /\ fifo[b] = j
    BY <1>4, <2>1, <2>2
  <2>4. QED
    BY <1>7, <2>1, <2>3 DEF Earlier
<1>8. ThreadFifo'
  BY <1>6, <1>7 DEF FifoInv, ThreadFifo
<1>9. QED
  BY <1>6, <1>8 DEF FifoInv, PresentCommitted

\* The rows that become visible were present to no job that runs.
LEMMA EnqueueBatchInOrder ==
  ASSUME IInv, IInv', FifoInv, NEW t \in Open, EnqueueBatch(t)
  PROVE  FifoInv'
<1>1. \A j \in Jobs : created_at[j] = t => status[j] = "none"
  BY DEF IInv, WebhooksWhole, Open
<1>2. \A j \in Jobs :
        IF created_at[j] = t
          THEN status'[j] = "queued" /\ present'[j] = {i \in Jobs : status'[i] # "none"}
          ELSE status'[j] = status[j] /\ present'[j] = present[j]
  BY DEF EnqueueBatch
<1>3. PresentCommitted'
  BY <1>1, <1>2 DEF FifoInv, PresentCommitted
<1>4. ASSUME NEW i \in Jobs, NEW j \in Jobs, Earlier(i, j),
             i \in present'[j], status'[j] = "processing"
      PROVE  status'[i] \in {"completed", "routed_to_human", "ignored", "cancelled"}
  <2>1. status[j] = "processing" /\ i \in present[j]
    BY <1>2, <1>4
  <2>2. status'[i] = status[i]
    BY <1>1, <1>2, <2>1 DEF FifoInv, PresentCommitted
  <2>3. QED
    BY <1>4, <2>1, <2>2 DEF FifoInv, ThreadFifo
<1>5. UNCHANGED fifo
  BY DEF EnqueueBatch
<1>6. ThreadFifo'
  BY <1>4, <1>5 DEF ThreadFifo, Earlier
<1>7. QED
  BY <1>3, <1>6 DEF FifoInv

\* A job is claimed when none before it waits, runs or is under review; what was
\* present when it came in is committed, so it is over.
LEMMA ClaimJobInOrder ==
  ASSUME IInv, IInv', FifoInv, NEW w \in Workers, NEW j \in Jobs, ClaimJob(w, j)
  PROVE  FifoInv'
<1>1. /\ UNCHANGED <<fifo, present>>
      /\ status[j] = "queued" /\ status'[j] = "processing"
      /\ \A i \in Jobs \ {j} : status'[i] = status[i]
      /\ \A i \in Jobs : Earlier(i, j) => status[i] \notin FifoBlocking
  BY DEF IInv, TypeOK, ClaimJob
<1>2. PresentCommitted'
  BY <1>1 DEF FifoInv, PresentCommitted
<1>3. ASSUME NEW i \in Jobs, Earlier(i, j), i \in present[j]
      PROVE  status'[i] \in Terminal
  <2>1. status[i] \in Terminal /\ i # j
    BY <1>1, <1>3 DEF IInv, TypeOK, Statuses, FifoBlocking, Terminal, FifoInv,
       PresentCommitted
  <2>2. QED
    BY <1>1, <2>1
<1>4. ASSUME NEW i \in Jobs, NEW k \in Jobs \ {j}, Earlier(i, k), i \in present[k],
             status'[k] = "processing"
      PROVE  status'[i] \in Terminal
  BY <1>1, <1>4 DEF FifoInv, ThreadFifo, Terminal
<1>5. ThreadFifo'
  BY <1>1, <1>3, <1>4 DEF ThreadFifo, Earlier, Terminal
<1>6. QED
  BY <1>2, <1>5 DEF FifoInv

\* A job that leaves a worker or the review was in the way of every running job
\* that found it there.
LEMMA MoveToInOrder ==
  ASSUME IInv, FifoInv, NEW j \in Jobs, NEW to, NEW p, MoveTo(j, to, p),
         to \notin {"none", "processing"},
         status[j] \in {"queued", "processing", "review_required"}
  PROVE  FifoInv'
<1>1. /\ UNCHANGED <<fifo, present>>
      /\ status'[j] = to
      /\ \A i \in Jobs \ {j} : status'[i] = status[i]
  BY DEF IInv, TypeOK, MoveTo
<1>2. PresentCommitted'
  BY <1>1 DEF FifoInv, PresentCommitted
<1>3. ThreadFifo'
  BY <1>1 DEF FifoInv, ThreadFifo, Earlier
<1>4. QED
  BY <1>2, <1>3 DEF FifoInv

\* Steps that change no status keep the order.
LEMMA StatusesUntouched ==
  ASSUME FifoInv, UNCHANGED <<fifo, present, status>>
  PROVE  FifoInv'
BY DEF FifoInv, PresentCommitted, ThreadFifo, Earlier

\* Every step keeps the order of the threads.
LEMMA NextInOrder ==
  ASSUME IInv, IInv', FifoInv, [Next]_vars
  PROVE  FifoInv'
<1>1. CASE Ingress
  BY <1>1, WebhookBeginsInOrder, EnqueueBatchInOrder DEF Ingress
<1>2. CASE Operate
  <2>1. ASSUME NEW j \in Jobs, Requeue(j) \/ Cancel(j) \/ Acknowledge(j)
        PROVE  FifoInv'
    BY <2>1, MoveToInOrder DEF Requeue, Cancel, Acknowledge
  <2>2. ASSUME UNCHANGED rowVars
        PROVE  FifoInv'
    BY <2>2, StatusesUntouched DEF rowVars
  <2>3. QED
    BY <1>2, <2>1, <2>2 DEF Operate, ControlTransition, AutomationAssign
<1>3. ASSUME NEW w \in Workers, Claim(w)
      PROVE  FifoInv'
  BY <1>3, ClaimJobInOrder, MoveToInOrder DEF Claim, RecoverLease, Stale
<1>4. ASSUME NEW w \in Workers, Settle(w)
      PROVE  FifoInv'
  <2>1. /\ job[w] \in Jobs /\ status[job[w]] = "processing"
        /\ Verdict(w) \notin {"none", "processing"}
    BY <1>4 DEF Settle, Owned, IInv, TypeOK, Verdict
  <2>2. QED
    BY <1>4, <2>1, MoveToInOrder DEF Settle
<1>5. ASSUME NEW w \in Workers, Proceed(w), ~Settle(w)
      PROVE  FifoInv'
  BY <1>5, StatusesUntouched
     DEF Proceed, rowVars, Load, RecordInbound, InboundRecorded, Guard, Advance, MarkAsRead,
         Transcribe, Exchange, CheckEpoch, Abandon
<1>6. ASSUME NEW w \in Workers, Tool(w) \/ AgentReturns(w) \/ Fails(w) \/ WorkerDies(w)
      PROVE  FifoInv'
  BY <1>6, StatusesUntouched DEF Tool, AgentReturns, Fails, WorkerDies, rowVars
<1>7. ASSUME NEW j \in Jobs, LeaseExpires(j)
      PROVE  FifoInv'
  BY <1>7, StatusesUntouched DEF LeaseExpires
<1>8. CASE UNCHANGED vars
  BY <1>8, StatusesUntouched DEF vars, rowVars
<1>9. QED
  BY <1>1, <1>2, <1>3, <1>4, <1>5, <1>6, <1>7, <1>8 DEF Next

(* A thread is worked in order whatever webhooks overlap: while a job runs,  *)
(* every job before it that was committed when it came in has been dealt     *)
(* with for good (_claim_job).                                               *)
THEOREM ThreadInOrder == Spec => []ThreadFifo
<1>1. Init => FifoInv
  BY DEF Init, FifoInv, PresentCommitted, ThreadFifo
<1>2. IInv /\ IInv' /\ FifoInv /\ [Next]_vars => FifoInv'
  BY NextInOrder
<1>3. FifoInv => ThreadFifo
  BY DEF FifoInv
<1>4. QED
  BY Invariance, <1>1, <1>2, <1>3, PTL DEF Spec
=============================================================================
