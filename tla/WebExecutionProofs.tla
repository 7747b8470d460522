------------------------- MODULE WebExecutionProofs -------------------------
(***************************************************************************)
(* Proofs about the web channel, for any set of conversations, messages    *)
(* and workers and any bound.                                              *)
(***************************************************************************)
EXTENDS WebExecution, ConversationControlProofs, FiniteSetTheorems, SequenceTheorems,
        TLAPS

-----------------------------------------------------------------------------
(* The inductive invariant.                                                *)

Switch == {"control", "closed"}

\* A message has an execution once its accepted event says so, at the position
\* its row remembers.
QueuedInLog ==
  \A m \in Messages :
    /\ execution[m] = "none" <=> queue_sequence[m] = 0
    /\ message[m] = "none" => execution[m] = "none"
    /\ queue_sequence[m] # 0 =>
         /\ queue_sequence[m] \in 1..Len(events[ConvOf[m]])
         /\ At(ConvOf[m], queue_sequence[m], "accepted", m)
    /\ execution[m] = "none" =>
         \A i \in 1..Len(events[ConvOf[m]]) : ~At(ConvOf[m], i, "running", m)

\* A message whose acceptance is under way has not been stored.
AcceptingNew ==
  \A c \in Conversations :
    accepting[c] # None =>
      ConvOf[accepting[c].message] = c /\ message[accepting[c].message] = "none"

\* Event i of c is a verdict on m.
VerdictAt(c, i, m) == events[c][i].type \in Verdicts /\ events[c][i].of = m

\* One verdict event for each decided message and none for the others.
Decided ==
  \A m \in Messages :
    LET c == ConvOf[m] IN
    IF execution[m] \in Verdicts
      THEN \E i \in 1..Len(events[c]) :
             /\ At(c, i, execution[m], m)
             /\ queue_sequence[m] < i
             /\ \A k \in 1..Len(events[c]) : VerdictAt(c, k, m) => k = i
      ELSE \A k \in 1..Len(events[c]) : ~VerdictAt(c, k, m)

\* While the control version is the one a message was queued under, nobody
\* has taken or closed the conversation since.
FencedSince ==
  \A m \in Messages :
    LET c == ConvOf[m] IN
    queue_sequence[m] # 0 =>
      /\ snapshot[m].control_version <= conv[c].control_version
      /\ snapshot[m].control_version = conv[c].control_version =>
           \A j \in queue_sequence[m]..Len(events[c]) : events[c][j].type \notin Switch

\* A conversation under human control is so since its last transition.
HumanSince ==
  \A c \in Conversations :
    conv[c].control_mode = "human" =>
      \E a \in 1..Len(events[c]) :
        /\ At(c, a, "control", "human")
        /\ \A j \in (a + 1)..Len(events[c]) : events[c][j].type \notin Switch

\* A worker that is not idle holds a message that has been queued.
JobsQueued ==
  \A w \in Workers :
    pc[w] # "idle" => job[w] \in Messages /\ execution[job[w]] # "none"

IInv ==
  /\ TypeOK
  /\ QueuedInLog
  /\ AcceptingNew
  /\ Decided
  /\ FencedSince
  /\ HumanSince
  /\ JobsQueued
  /\ AnsweredInOrder
  /\ TranscriptFollowsControl

-----------------------------------------------------------------------------
(* What a step may add to the log.                                         *)

\* The events a step adds to the log of c.
New(c) == (Len(events[c]) + 1)..Len(events'[c])

LogExtends ==
  \A c \in Conversations :
    /\ Len(events[c]) <= Len(events'[c])
    /\ \A i \in 1..Len(events[c]) : events'[c][i] = events[c][i]

\* A message is queued, or keeps its place.
QueueStep(m) ==
  LET c == ConvOf[m] IN
  \/ /\ queue_sequence'[m] = queue_sequence[m]
     /\ snapshot'[m] = snapshot[m]
     /\ execution'[m] = "none" <=> execution[m] = "none"
  \/ /\ execution[m] = "none" /\ execution'[m] = "queued"
     /\ queue_sequence'[m] = Len(events[c]) + 1
     /\ Len(events'[c]) = Len(events[c]) + 1
     /\ events'[c][Len(events[c]) + 1] = Event("accepted", m)
     /\ snapshot'[m].control_version = conv'[c].control_version

\* A message is decided with one event, or neither changes.
VerdictStep(m) ==
  LET c == ConvOf[m] IN
  \/ /\ execution'[m] = execution[m] \/ {execution[m], execution'[m]} \cap Verdicts = {}
     /\ \A i \in New(c) : ~VerdictAt(c, i, m)'
  \/ /\ execution[m] \in {"queued", "running"}
     /\ execution'[m] \in Verdicts
     /\ \E i \in New(c) : /\ events'[c][i] = Event(execution'[m], m)
                          /\ \A k \in New(c) : VerdictAt(c, k, m)' => k = i

\* What a new event of c says is true when it is written.
EventStep(c, i) ==
  LET e == events'[c][i] IN
  /\ e.type \in {"running", "contact", "completed", "failed"} /\ e.of \in Messages =>
       /\ ConvOf[e.of] = c
       /\ queue_sequence[e.of] # 0
       /\ Current(e.of)
       /\ \A k \in New(c) : events'[c][k].type \notin Switch
  /\ e.type = "running" =>
       \A f \in Messages : Earlier(f, e.of) =>
         \E j \in 1..i : \E t \in Verdicts : events'[c][j] = Event(t, f)
  /\ e.type = "operator" => conv[c].control_mode = "human" /\ New(c) = {i}
  /\ e.type \in Switch => conv[c].control_version < conv'[c].control_version

\* Human control begins with its event and ends with another.
ControlStep(c) ==
  /\ conv[c].control_version <= conv'[c].control_version
  /\ conv'[c].control_mode = "human" =>
       \/ /\ conv[c].control_mode = "human"
          /\ \A i \in New(c) : events'[c][i].type \notin Switch
       \/ /\ Len(events'[c]) = Len(events[c]) + 1
          /\ events'[c][Len(events[c]) + 1] = Event("control", "human")

LogStep ==
  /\ LogExtends
  /\ \A m \in Messages : QueueStep(m) /\ VerdictStep(m)
  /\ \A c \in Conversations : ControlStep(c) /\ \A i \in New(c) : EventStep(c, i)

\* The log as sequences of events.
LEMMA LogTyped ==
  ASSUME TypeOK
  PROVE  \A c \in Conversations :
           /\ events[c] \in Seq(Events)
           /\ Len(events[c]) \in Nat
           /\ DOMAIN events[c] = 1..Len(events[c])
           /\ \A i \in 1..Len(events[c]) : events[c][i] \in Events
<1>1. \A c \in Conversations : events[c] \in Seq(Events)
  BY DEF TypeOK
<1>2. \A s \in Seq(Events) : /\ Len(s) \in Nat /\ DOMAIN s = 1..Len(s)
                             /\ \A i \in 1..Len(s) : s[i] \in Events
  OBVIOUS
<1>3. QED
  BY <1>1, <1>2

\* An old event is where it was, a new one is behind the old ones.
LEMMA OldOrNew ==
  ASSUME TypeOK, TypeOK', LogExtends, NEW c \in Conversations,
         NEW i \in 1..Len(events'[c])
  PROVE  \/ i \in 1..Len(events[c]) /\ events'[c][i] = events[c][i]
         \/ i \in New(c) /\ i > Len(events[c])
BY LogTyped DEF LogExtends, New

\* The rows remember their accepted events.
LEMMA QueuedInLogKeeps ==
  ASSUME IInv, TypeOK', LogStep,
         \A m \in Messages : message'[m] = "none" => execution'[m] = "none",
         \A m \in Messages : execution'[m] = "none" => 
            \A i \in New(ConvOf[m]) : events'[ConvOf[m]][i] # Event("running", m)
  PROVE  QueuedInLog'
<1> SUFFICES ASSUME NEW m \in Messages
             PROVE  /\ execution'[m] = "none" <=> queue_sequence'[m] = 0
                    /\ queue_sequence'[m] # 0 =>
                         /\ queue_sequence'[m] \in 1..Len(events'[ConvOf[m]])
                         /\ events'[ConvOf[m]][queue_sequence'[m]] = Event("accepted", m)
                    /\ execution'[m] = "none" =>
                         \A i \in 1..Len(events'[ConvOf[m]]) :
                           events'[ConvOf[m]][i] # Event("running", m)
  BY DEF QueuedInLog, At
<1> DEFINE c == ConvOf[m]
<1>1. c \in Conversations /\ Len(events[c]) \in Nat /\ Len(events'[c]) \in Nat
  BY WebAssumption, LogTyped DEF IInv, TypeOK
<1>2. /\ Len(events[c]) <= Len(events'[c])
      /\ \A i \in 1..Len(events[c]) : events'[c][i] = events[c][i]
      /\ QueueStep(m)
  BY <1>1 DEF LogStep, LogExtends
<1>3. /\ execution[m] = "none" <=> queue_sequence[m] = 0
      /\ queue_sequence[m] # 0 => /\ queue_sequence[m] \in 1..Len(events[c])
                                  /\ events[c][queue_sequence[m]] = Event("accepted", m)
      /\ execution[m] = "none" =>
           \A i \in 1..Len(events[c]) : events[c][i] # Event("running", m)
  BY DEF IInv, QueuedInLog, At
<1>4. execution'[m] = "none" <=> queue_sequence'[m] = 0
  BY <1>1, <1>2, <1>3 DEF QueueStep
<1>5. ASSUME queue_sequence'[m] # 0
      PROVE  /\ queue_sequence'[m] \in 1..Len(events'[c])
             /\ events'[c][queue_sequence'[m]] = Event("accepted", m)
  BY <1>1, <1>2, <1>3, <1>5 DEF QueueStep
<1>6. ASSUME execution'[m] = "none", NEW i \in 1..Len(events'[c])
      PROVE  events'[c][i] # Event("running", m)
  BY <1>1, <1>2, <1>3, <1>6, OldOrNew DEF QueueStep, LogStep, IInv
<1>7. QED
  BY <1>4, <1>5, <1>6

\* One verdict for each message.
LEMMA DecidedKeeps ==
  ASSUME IInv, TypeOK', LogStep
  PROVE  Decided'
<1> SUFFICES ASSUME NEW m \in Messages
             PROVE  LET c == ConvOf[m] IN
                    IF execution'[m] \in Verdicts
                      THEN \E i \in 1..Len(events'[c]) :
                             /\ events'[c][i] = Event(execution'[m], m)
                             /\ queue_sequence'[m] < i
                             /\ \A k \in 1..Len(events'[c]) : VerdictAt(c, k, m)' => k = i
                      ELSE \A k \in 1..Len(events'[c]) : ~VerdictAt(c, k, m)'
  BY DEF Decided, At
<1> DEFINE c == ConvOf[m]
<1>1. c \in Conversations /\ Len(events[c]) \in Nat /\ Len(events'[c]) \in Nat
  BY WebAssumption, LogTyped DEF IInv, TypeOK
<1>2. /\ Len(events[c]) <= Len(events'[c])
      /\ \A i \in 1..Len(events[c]) : events'[c][i] = events[c][i]
      /\ QueueStep(m) /\ VerdictStep(m)
  BY <1>1 DEF LogStep, LogExtends
<1>3. \A k \in 1..Len(events'[c]) :
        \/ k \in 1..Len(events[c]) /\ (VerdictAt(c, k, m)' <=> VerdictAt(c, k, m))
        \/ k \in New(c) /\ k > Len(events[c])
  BY <1>1, OldOrNew DEF LogStep, IInv, VerdictAt
<1>4. execution[m] # "none" => queue_sequence'[m] = queue_sequence[m] /\ queue_sequence[m] <= Len(events[c])
  BY <1>1, <1>2 DEF QueueStep, IInv, QueuedInLog, TypeOK
<1>5. \A k \in 1..Len(events[c]) : k \in 1..Len(events'[c])
  BY <1>1, <1>2
<1>6. \A k \in New(c) : k \in 1..Len(events'[c]) /\ k > Len(events[c])
  BY <1>1 DEF New
<1>7. CASE /\ execution'[m] = execution[m] \/ {execution[m], execution'[m]} \cap Verdicts = {}
           /\ \A i \in New(c) : ~VerdictAt(c, i, m)'
  <2>1. CASE execution'[m] \in Verdicts
    <3>1. execution[m] = execution'[m] /\ execution[m] # "none"
      BY <1>7, <2>1 DEF Verdicts
    <3>2. PICK i \in 1..Len(events[c]) :
                 /\ events[c][i] = Event(execution[m], m)
                 /\ queue_sequence[m] < i
                 /\ \A k \in 1..Len(events[c]) : VerdictAt(c, k, m) => k = i
      BY <2>1, <3>1 DEF IInv, Decided, At
    <3>3. \A k \in 1..Len(events'[c]) : VerdictAt(c, k, m)' => k = i
      BY <1>3, <1>7, <3>2
    <3>4. QED
      BY <1>2, <1>4, <1>5, <2>1, <3>1, <3>2, <3>3
  <2>2. CASE execution'[m] \notin Verdicts
    <3>1. execution[m] \notin Verdicts
      BY <1>7, <2>2
    <3>2. \A k \in 1..Len(events[c]) : ~VerdictAt(c, k, m)
      BY <3>1 DEF IInv, Decided
    <3>3. QED
      BY <1>3, <1>7, <2>2, <3>2
  <2>3. QED
    BY <2>1, <2>2
<1>8. CASE /\ execution[m] \in {"queued", "running"}
           /\ execution'[m] \in Verdicts
           /\ \E i \in New(c) : /\ events'[c][i] = Event(execution'[m], m)
                                /\ \A k \in New(c) : VerdictAt(c, k, m)' => k = i
  <2>1. PICK i \in New(c) : /\ events'[c][i] = Event(execution'[m], m)
                            /\ \A k \in New(c) : VerdictAt(c, k, m)' => k = i
    BY <1>8
  <2>2. \A k \in 1..Len(events[c]) : ~VerdictAt(c, k, m)
    BY <1>8 DEF IInv, Decided, Verdicts
  <2>3. queue_sequence'[m] < i
    BY <1>1, <1>4, <1>6, <1>8 DEF IInv, TypeOK
  <2>4. QED
    BY <1>3, <1>6, <1>8, <2>1, <2>2, <2>3
<1>9. QED
  BY <1>2, <1>7, <1>8 DEF VerdictStep

\* The control version still seen by a message has not been passed over.
LEMMA FencedSinceKeeps ==
  ASSUME IInv, TypeOK', LogStep
  PROVE  FencedSince'
<1> SUFFICES ASSUME NEW m \in Messages, queue_sequence'[m] # 0
             PROVE  LET c == ConvOf[m] IN
                    /\ snapshot'[m].control_version <= conv'[c].control_version
                    /\ snapshot'[m].control_version = conv'[c].control_version =>
                         \A j \in queue_sequence'[m]..Len(events'[c]) :
                           events'[c][j].type \notin Switch
  BY DEF FencedSince
<1> DEFINE c == ConvOf[m]
<1>1. /\ c \in Conversations /\ Len(events[c]) \in Nat /\ Len(events'[c]) \in Nat
      /\ conv[c].control_version \in Nat /\ conv'[c].control_version \in Nat
      /\ snapshot[m].control_version \in Nat /\ snapshot'[m].control_version \in Nat
      /\ queue_sequence[m] \in Nat /\ queue_sequence'[m] \in Nat
  <2>1. /\ c \in Conversations /\ Len(events[c]) \in Nat /\ Len(events'[c]) \in Nat
        /\ queue_sequence[m] \in Nat /\ queue_sequence'[m] \in Nat
        /\ snapshot[m] \in Epoch /\ snapshot'[m] \in Epoch
        /\ conv[c] \in Conversation /\ conv'[c] \in Conversation
    BY WebAssumption, LogTyped DEF IInv, TypeOK
  <2>2. QED
    BY <2>1 DEF Epoch, Conversation
<1>2. /\ QueueStep(m)
      /\ conv[c].control_version <= conv'[c].control_version
      /\ \A i \in New(c) : events'[c][i].type \in Switch
           => conv[c].control_version < conv'[c].control_version
  BY <1>1 DEF LogStep, ControlStep, EventStep
<1>3. CASE /\ queue_sequence'[m] = queue_sequence[m]
           /\ snapshot'[m] = snapshot[m]
  <2>1. /\ snapshot[m].control_version <= conv[c].control_version
        /\ snapshot[m].control_version = conv[c].control_version =>
             \A j \in queue_sequence[m]..Len(events[c]) : events[c][j].type \notin Switch
    BY <1>3 DEF IInv, FencedSince
  <2>2. ASSUME snapshot'[m].control_version = conv'[c].control_version,
               NEW j \in queue_sequence'[m]..Len(events'[c])
        PROVE  events'[c][j].type \notin Switch
    <3>1. /\ conv[c].control_version = conv'[c].control_version
          /\ snapshot[m].control_version = conv[c].control_version
      BY <1>1, <1>2, <1>3, <2>1, <2>2
    <3>2. j \in 1..Len(events'[c])
      BY <1>1, <1>3
    <3>3. CASE j \in 1..Len(events[c]) /\ events'[c][j] = events[c][j]
      BY <1>1, <1>3, <2>1, <3>1, <3>3
    <3>4. CASE j \in New(c)
      BY <1>1, <1>2, <3>1, <3>4
    <3>5. QED
      BY <1>1, <3>2, <3>3, <3>4, OldOrNew DEF LogStep, IInv
  <2>3. QED
    BY <1>1, <1>2, <1>3, <2>1, <2>2
<1>4. CASE /\ queue_sequence'[m] = Len(events[c]) + 1
           /\ Len(events'[c]) = Len(events[c]) + 1
           /\ events'[c][Len(events[c]) + 1] = Event("accepted", m)
           /\ snapshot'[m].control_version = conv'[c].control_version
  <2>1. \A j \in queue_sequence'[m]..Len(events'[c]) : j = Len(events[c]) + 1
    BY <1>1, <1>4
  <2>2. QED
    BY <1>1, <1>4, <2>1 DEF Event, Switch
<1>5. QED
  BY <1>2, <1>3, <1>4 DEF QueueStep

\* Human control has lasted since its event.
LEMMA HumanSinceKeeps ==
  ASSUME IInv, TypeOK', LogStep
  PROVE  HumanSince'
<1> SUFFICES ASSUME NEW c \in Conversations, conv'[c].control_mode = "human"
             PROVE  \E a \in 1..Len(events'[c]) :
                      /\ events'[c][a] = Event("control", "human")
                      /\ \A j \in (a + 1)..Len(events'[c]) : events'[c][j].type \notin Switch
  BY DEF HumanSince, At
<1>1. Len(events[c]) \in Nat /\ Len(events'[c]) \in Nat
  BY LogTyped DEF IInv, TypeOK
<1>2. CASE /\ conv[c].control_mode = "human"
           /\ \A i \in New(c) : events'[c][i].type \notin Switch
  <2>1. PICK a \in 1..Len(events[c]) :
               /\ events[c][a] = Event("control", "human")
               /\ \A j \in (a + 1)..Len(events[c]) : events[c][j].type \notin Switch
    BY <1>2 DEF IInv, HumanSince, At
  <2>2. a \in 1..Len(events'[c]) /\ events'[c][a] = Event("control", "human")
    BY <1>1, <2>1 DEF LogStep, LogExtends
  <2>3. ASSUME NEW j \in (a + 1)..Len(events'[c])
        PROVE  events'[c][j].type \notin Switch
    <3>1. j \in 1..Len(events'[c])
      BY <1>1, <2>1
    <3>2. CASE j \in 1..Len(events[c]) /\ events'[c][j] = events[c][j]
      BY <1>1, <2>1, <3>2
    <3>3. CASE j \in New(c)
      BY <1>2, <3>3
    <3>4. QED
      BY <3>1, <3>2, <3>3, OldOrNew DEF LogStep, IInv
  <2>4. QED
    BY <2>2, <2>3
<1>3. CASE /\ Len(events'[c]) = Len(events[c]) + 1
           /\ events'[c][Len(events[c]) + 1] = Event("control", "human")
  BY <1>1, <1>3
<1>4. QED
  BY <1>2, <1>3 DEF LogStep, ControlStep

\* No message is started before those queued ahead of it have their verdicts.
LEMMA AnsweredInOrderKeeps ==
  ASSUME IInv, TypeOK', QueuedInLog', LogStep
  PROVE  AnsweredInOrder'
<1> SUFFICES ASSUME NEW first \in Messages, NEW then \in Messages, Earlier(first, then)',
                    NEW i \in 1..Len(events'[ConvOf[then]]),
                    events'[ConvOf[then]][i] = Event("running", then)
             PROVE  \E j \in 1..i : \E t \in Verdicts :
                      events'[ConvOf[then]][j] = Event(t, first)
  <2>1. \A m \in Messages : DOMAIN events'[ConvOf[m]] = 1..Len(events'[ConvOf[m]])
    BY WebAssumption DEF TypeOK
  <2>2. QED
    BY <2>1 DEF AnsweredInOrder, At, Earlier
<1> DEFINE c == ConvOf[then]
<1>1. /\ c \in Conversations /\ Len(events[c]) \in Nat /\ Len(events'[c]) \in Nat
      /\ ConvOf[first] = c /\ DOMAIN events[c] = 1..Len(events[c])
  BY WebAssumption, LogTyped DEF IInv, TypeOK, Earlier
<1>2. /\ Len(events[c]) <= Len(events'[c])
      /\ \A k \in 1..Len(events[c]) : events'[c][k] = events[c][k]
      /\ QueueStep(first) /\ QueueStep(then)
  BY <1>1 DEF LogStep, LogExtends
<1>3. execution[then] # "none" /\ queue_sequence'[then] = queue_sequence[then]
  <2>1. CASE i \in 1..Len(events[c]) /\ events'[c][i] = events[c][i]
    <3>1. execution[then] # "none"
      BY <2>1 DEF IInv, QueuedInLog, At
    <3>2. QED
      BY <1>2, <3>1 DEF QueueStep
  <2>2. CASE i \in New(c)
    <3>1. EventStep(c, i)
      BY <1>1, <2>2 DEF LogStep
    <3>2. queue_sequence[then] # 0
      BY <3>1 DEF EventStep, Event
    <3>3. execution[then] # "none"
      BY <3>2 DEF IInv, QueuedInLog
    <3>4. QED
      BY <1>2, <3>3 DEF QueueStep
  <2>3. QED
    BY <1>1, <2>1, <2>2, OldOrNew DEF LogStep, IInv
<1>4. Earlier(first, then)
  <2>1. queue_sequence[then] \in 1..Len(events[c])
    BY <1>3 DEF IInv, QueuedInLog
  <2>2. queue_sequence'[first] = queue_sequence[first]
    BY <1>1, <1>2, <1>3, <2>1 DEF QueueStep, Earlier
  <2>3. QED
    BY <1>3, <2>2 DEF Earlier
<1>5. CASE i \in 1..Len(events[c]) /\ events'[c][i] = events[c][i]
  <2>1. \E j \in 1..i : \E t \in Verdicts : events[c][j] = Event(t, first)
    BY <1>1, <1>4, <1>5 DEF IInv, AnsweredInOrder, At
  <2>2. QED
    BY <1>1, <1>2, <1>5, <2>1
<1>6. CASE i \in New(c)
  <2>1. EventStep(c, i)
    BY <1>1, <1>6 DEF LogStep
  <2>2. events'[c][i].type = "running" /\ events'[c][i].of = then
    BY DEF Event
  <2>3. QED
    BY <1>4, <2>1, <2>2 DEF EventStep, Earlier
<1>7. QED
  BY <1>1, <1>5, <1>6, OldOrNew DEF LogStep, IInv

\* What is said lies in the epoch it belongs to.
LEMMA TranscriptKeeps ==
  ASSUME IInv, TypeOK', LogStep
  PROVE  TranscriptFollowsControl'
<1> DEFINE Says(m) == {Event(t, m) : t \in {"running", "contact", "completed", "failed"}}
<1> SUFFICES ASSUME NEW c \in Conversations, NEW i \in 1..Len(events'[c])
             PROVE  /\ \A m \in Messages : events'[c][i] \in Says(m) =>
                         \E a \in 1..i :
                           /\ events'[c][a] = Event("accepted", m)
                           /\ \A j \in a..i : events'[c][j].type \notin Switch
                    /\ events'[c][i].type = "operator" =>
                         \E a \in 1..i :
                           /\ events'[c][a] = Event("control", "human")
                           /\ \A j \in (a + 1)..i : events'[c][j].type \notin Switch
  <2>1. \A c \in Conversations : DOMAIN events'[c] = 1..Len(events'[c])
    BY DEF TypeOK
  <2>2. QED
    BY <2>1 DEF TranscriptFollowsControl, At, Switch
<1>1. /\ Len(events[c]) \in Nat /\ Len(events'[c]) \in Nat
      /\ DOMAIN events[c] = 1..Len(events[c])
  BY LogTyped DEF IInv, TypeOK
<1>2. /\ Len(events[c]) <= Len(events'[c])
      /\ \A k \in 1..Len(events[c]) : events'[c][k] = events[c][k]
  BY <1>1 DEF LogStep, LogExtends
<1>3. CASE i \in 1..Len(events[c]) /\ events'[c][i] = events[c][i]
  <2>1. \A k \in 1..i : k \in 1..Len(events[c])
    BY <1>1, <1>3
  <2>2. ASSUME NEW m \in Messages, events'[c][i] \in Says(m)
        PROVE  \E a \in 1..i :
                 /\ events'[c][a] = Event("accepted", m)
                 /\ \A j \in a..i : events'[c][j].type \notin Switch
    <3>1. PICK a \in 1..i : /\ events[c][a] = Event("accepted", m)
                            /\ \A j \in a..i : events[c][j].type \notin Switch
      BY <1>1, <1>3, <2>2 DEF IInv, TranscriptFollowsControl, At, Switch
    <3>2. \A j \in a..i : j \in 1..i
      BY <1>3, <3>1
    <3>3. QED
      BY <1>2, <2>1, <3>1, <3>2
  <2>3. ASSUME events'[c][i].type = "operator"
        PROVE  \E a \in 1..i :
                 /\ events'[c][a] = Event("control", "human")
                 /\ \A j \in (a + 1)..i : events'[c][j].type \notin Switch
    <3>1. PICK a \in 1..i : /\ events[c][a] = Event("control", "human")
                            /\ \A j \in (a + 1)..i : events[c][j].type \notin Switch
      BY <1>1, <1>3, <2>3 DEF IInv, TranscriptFollowsControl, At, Switch
    <3>2. \A j \in (a + 1)..i : j \in 1..i
      BY <1>3, <3>1
    <3>3. QED
      BY <1>2, <2>1, <3>1, <3>2
  <2>4. QED
    BY <2>2, <2>3
<1>4. CASE i \in New(c) /\ i > Len(events[c])
  <2>1. EventStep(c, i)
    BY <1>4 DEF LogStep
  <2>2. \A j \in 1..i : \/ j \in 1..Len(events[c]) /\ events'[c][j] = events[c][j]
                        \/ j \in New(c)
    BY <1>1, <1>2 DEF New
  <2>3. ASSUME NEW m \in Messages, events'[c][i] \in Says(m)
        PROVE  \E a \in 1..i :
                 /\ events'[c][a] = Event("accepted", m)
                 /\ \A j \in a..i : events'[c][j].type \notin Switch
    <3>1. events'[c][i].type \in {"running", "contact", "completed", "failed"}
          /\ events'[c][i].of = m
      BY <2>3 DEF Event
    <3>2. /\ ConvOf[m] = c /\ queue_sequence[m] # 0 /\ Current(m)
          /\ \A k \in New(c) : events'[c][k].type \notin Switch
      BY <2>1, <3>1 DEF EventStep
    <3>3. /\ queue_sequence[m] \in 1..Len(events[c])
          /\ events[c][queue_sequence[m]] = Event("accepted", m)
          /\ \A j \in queue_sequence[m]..Len(events[c]) : events[c][j].type \notin Switch
      BY <3>2 DEF IInv, QueuedInLog, At, FencedSince, Current
    <3>4. ASSUME NEW j \in queue_sequence[m]..i
          PROVE  events'[c][j].type \notin Switch
      BY <1>1, <1>4, <2>2, <3>2, <3>3
    <3>5. QED
      BY <1>1, <1>2, <1>4, <3>3, <3>4
  <2>4. ASSUME events'[c][i].type = "operator"
        PROVE  \E a \in 1..i :
                 /\ events'[c][a] = Event("control", "human")
                 /\ \A j \in (a + 1)..i : events'[c][j].type \notin Switch
    <3>1. conv[c].control_mode = "human" /\ New(c) = {i}
      BY <2>1, <2>4 DEF EventStep
    <3>2. PICK a \in 1..Len(events[c]) :
                 /\ events[c][a] = Event("control", "human")
                 /\ \A j \in (a + 1)..Len(events[c]) : events[c][j].type \notin Switch
      BY <3>1 DEF IInv, HumanSince, At
    <3>3. ASSUME NEW j \in (a + 1)..i
          PROVE  events'[c][j].type \notin Switch
      <4>1. CASE j = i
        BY <2>4, <4>1 DEF Switch
      <4>2. CASE j # i
        BY <1>1, <1>4, <2>2, <3>1, <3>2, <4>2
      <4>3. QED
        BY <4>1, <4>2
    <3>4. QED
      BY <1>1, <1>2, <1>4, <3>2, <3>3
  <2>5. QED
    BY <2>3, <2>4
<1>5. QED
  BY <1>3, <1>4, OldOrNew DEF LogStep, IInv

\* A step of the log that leaves the types, the acceptances and the workers right
\* keeps the invariant.
LEMMA LogStepKeeps ==
  ASSUME IInv, TypeOK', LogStep, AcceptingNew', JobsQueued',
         \A m \in Messages : message'[m] = "none" => execution'[m] = "none"
  PROVE  IInv'
<1>1. ASSUME NEW m \in Messages, execution'[m] = "none", NEW i \in New(ConvOf[m])
      PROVE  events'[ConvOf[m]][i] # Event("running", m)
  <2>1. EventStep(ConvOf[m], i)
    BY WebAssumption DEF LogStep
  <2>2. execution[m] = "none"
    BY <1>1 DEF LogStep, QueueStep
  <2>3. queue_sequence[m] = 0
    BY <2>2 DEF IInv, QueuedInLog
  <2>4. QED
    BY <2>1, <2>3 DEF EventStep, Event
<1>2. QueuedInLog'
  BY <1>1, QueuedInLogKeeps
<1>3. QED
  BY <1>2, DecidedKeeps, FencedSinceKeeps, HumanSinceKeeps, AnsweredInOrderKeeps,
     TranscriptKeeps DEF IInv

-----------------------------------------------------------------------------
(* Steps that write nothing to the log, or one event.                       *)

\* A step that leaves the log and the executions alone, and the control mode.
LEMMA QuietStep ==
  ASSUME IInv, UNCHANGED <<events, execution, queue_sequence, snapshot>>,
         \A c \in Conversations : /\ conv'[c].control_version = conv[c].control_version
                                 /\ conv'[c].control_mode = conv[c].control_mode
  PROVE  LogStep
<1>1. \A c \in Conversations : Len(events[c]) \in Nat
  BY LogTyped DEF IInv
<1>2. \A c \in Conversations : New(c) = {}
  BY <1>1 DEF New
<1>3. \A m \in Messages : New(ConvOf[m]) = {}
  BY <1>2, WebAssumption
<1>4. LogExtends
  BY <1>1 DEF LogExtends
<1>5. \A c \in Conversations : conv[c].control_version <= conv'[c].control_version
  BY DEF IInv, TypeOK, Conversation
<1>6. QED
  BY <1>2, <1>3, <1>4, <1>5 DEF LogStep, QueueStep, VerdictStep, ControlStep

\* One event more.
LEMMA PublishExtends ==
  ASSUME TypeOK, NEW c \in Conversations, NEW type \in EventTypes,
         NEW of \in Messages \cup Modes \cup Admins \cup {None}, Publish(c, type, of)
  PROVE  /\ events' \in [Conversations -> Seq(Events)]
         /\ LogExtends
         /\ Len(events'[c]) = Len(events[c]) + 1
         /\ New(c) = {Len(events[c]) + 1}
         /\ events'[c][Len(events[c]) + 1] = Event(type, of)
         /\ \A d \in Conversations \ {c} : events'[d] = events[d] /\ New(d) = {}
<1>1. Event(type, of) \in Events
  BY DEF Event, Events
<1>2. \A d \in Conversations : events[d] \in Seq(Events) /\ Len(events[d]) \in Nat
  BY LogTyped
<1>3. /\ events'[c] = Append(events[c], Event(type, of))
      /\ \A d \in Conversations \ {c} : events'[d] = events[d]
      /\ events' \in [Conversations -> Seq(Events)]
  BY <1>1, <1>2 DEF Publish, TypeOK
<1>4. /\ Len(events'[c]) = Len(events[c]) + 1
      /\ events'[c][Len(events[c]) + 1] = Event(type, of)
      /\ \A i \in 1..Len(events[c]) : events'[c][i] = events[c][i]
  BY <1>1, <1>2, <1>3
<1>5. LogExtends
  BY <1>2, <1>3, <1>4 DEF LogExtends
<1>6. New(c) = {Len(events[c]) + 1} /\ \A d \in Conversations \ {c} : New(d) = {}
  BY <1>2, <1>3, <1>4 DEF New
<1>7. QED
  BY <1>3, <1>4, <1>5, <1>6

\* A new event that is no verdict and leaves the executions alone.
LEMMA PublishStep ==
  ASSUME IInv, NEW c \in Conversations, NEW type \in EventTypes \ Verdicts,
         NEW of \in Messages \cup Modes \cup Admins \cup {None}, Publish(c, type, of),
         UNCHANGED <<execution, queue_sequence, snapshot>>,
         EventStep(c, Len(events[c]) + 1),
         \A d \in Conversations : ControlStep(d)
  PROVE  LogStep
<1>1. /\ LogExtends
      /\ New(c) = {Len(events[c]) + 1}
      /\ events'[c][Len(events[c]) + 1] = Event(type, of)
      /\ \A d \in Conversations \ {c} : New(d) = {}
  BY PublishExtends DEF IInv
<1>2. \A m \in Messages : QueueStep(m)
  BY DEF QueueStep
<1>3. \A m \in Messages : VerdictStep(m)
  <2>1. ASSUME NEW m \in Messages, NEW i \in New(ConvOf[m])
        PROVE  ~VerdictAt(ConvOf[m], i, m)'
    <3>1. events'[ConvOf[m]][i] = Event(type, of)
      BY <1>1, WebAssumption
    <3>2. QED
      BY <3>1 DEF VerdictAt, Event
  <2>2. QED
    BY <2>1 DEF VerdictStep
<1>4. QED
  BY <1>1, <1>2, <1>3 DEF LogStep

\* The mode is read; nothing is stored.
LEMMA AcceptReadsKeeps ==
  ASSUME IInv, NEW m \in Messages, AcceptReads(m)
  PROVE  IInv' /\ LogStep
<1>1. ConvOf[m] \in Conversations
  BY WebAssumption
<1>2. TypeOK'
  BY <1>1 DEF IInv, AcceptReads, TypeOK, rowVars, workerVars, Conversation
<1>3. LogStep
  BY QuietStep DEF AcceptReads, rowVars
<1>4. AcceptingNew' /\ JobsQueued'
  BY <1>1 DEF IInv, TypeOK, AcceptReads, AcceptingNew, JobsQueued, rowVars, workerVars
<1>5. \A x \in Messages : message'[x] = "none" => execution'[x] = "none"
  BY DEF IInv, QueuedInLog, AcceptReads, rowVars
<1>6. QED
  BY <1>2, <1>3, <1>4, <1>5, LogStepKeeps

\* The message is stored and queued behind all events so far, under the epochs
\* of the moment.
LEMMA AcceptQueuesKeeps ==
  ASSUME IInv, NEW c \in Conversations, AcceptQueues(c)
  PROVE  IInv' /\ LogStep
<1> DEFINE m == accepting[c].message
<1>1. /\ m \in Messages /\ ConvOf[m] = c /\ message[m] = "none" /\ execution[m] = "none"
  BY DEF IInv, TypeOK, AcceptQueues, AcceptingNew, QueuedInLog
<1>2. /\ events' \in [Conversations -> Seq(Events)]
      /\ LogExtends
      /\ Len(events'[c]) = Len(events[c]) + 1
      /\ New(c) = {Len(events[c]) + 1}
      /\ events'[c][Len(events[c]) + 1] = Event("accepted", m)
      /\ \A d \in Conversations \ {c} : New(d) = {}
  BY <1>1, PublishExtends DEF IInv, AcceptQueues, EventTypes
<1>3. Len(events[c]) \in Nat /\ conv[c] \in Conversation
  BY LogTyped DEF IInv, TypeOK
<1>4. TypeOK'
  <2>1. [control_version |-> conv[c].control_version,
         automation_agent |-> conv[c].automation_agent,
         automation_version |-> conv[c].automation_version] \in Epoch
    BY <1>3 DEF Conversation, Epoch
  <2>2. snapshot' \in [Messages -> Epoch]
    BY <2>1 DEF IInv, AcceptQueues, TypeOK
  <2>3. /\ accepting' \in [Conversations -> {None} \cup [message : Messages, mode : Modes]]
        /\ message' \in [Messages -> {"none", "accepted", "completed"}]
        /\ execution' \in [Messages -> ExecutionStatuses]
        /\ queue_sequence' \in [Messages -> Nat]
    BY <1>3 DEF IInv, AcceptQueues, TypeOK, ExecutionStatuses
  <2>4. QED
    BY <1>2, <2>2, <2>3 DEF IInv, AcceptQueues, TypeOK, workerVars
<1>5. /\ execution'[m] = "queued" /\ queue_sequence'[m] = Len(events[c]) + 1
      /\ snapshot'[m].control_version = conv[c].control_version
      /\ \A x \in Messages \ {m} :
           /\ execution'[x] = execution[x] /\ queue_sequence'[x] = queue_sequence[x]
           /\ snapshot'[x] = snapshot[x] /\ message'[x] = message[x]
      /\ message'[m] = "accepted" /\ UNCHANGED <<conv, workerVars>>
      /\ accepting' = [accepting EXCEPT ![c] = None]
  BY <1>1, <1>3 DEF IInv, TypeOK, AcceptQueues
<1> HIDE DEF m
<1>6. \A x \in Messages : QueueStep(x)
  BY <1>1, <1>2, <1>5 DEF QueueStep
<1>7. \A x \in Messages : VerdictStep(x)
  <2>1. ASSUME NEW x \in Messages, NEW i \in New(ConvOf[x])
        PROVE  ~VerdictAt(ConvOf[x], i, x)'
    <3>1. events'[ConvOf[x]][i] = Event("accepted", m)
      BY <1>2, WebAssumption
    <3>2. QED
      BY <3>1 DEF VerdictAt, Event, Verdicts
  <2>2. {execution[m], execution'[m]} \cap Verdicts = {}
    BY <1>1, <1>5 DEF Verdicts
  <2>3. QED
    BY <1>5, <2>1, <2>2 DEF VerdictStep
<1>8. \A d \in Conversations : ControlStep(d) /\ \A i \in New(d) : EventStep(d, i)
  <2>1. \A d \in Conversations : conv[d].control_version <= conv[d].control_version
    BY DEF IInv, TypeOK, Conversation
  <2>2. ASSUME NEW d \in Conversations, NEW i \in New(d)
        PROVE  events'[d][i].type = "accepted"
    BY <1>2 DEF Event
  <2>3. QED
    BY <1>5, <2>1, <2>2 DEF ControlStep, EventStep, Switch
<1>9. LogStep
  BY <1>2, <1>6, <1>7, <1>8 DEF LogStep
<1>10. AcceptingNew'
  BY <1>1, <1>5 DEF IInv, TypeOK, AcceptingNew
<1>11. JobsQueued'
  BY <1>1, <1>5 DEF IInv, TypeOK, JobsQueued, workerVars
<1>12. \A x \in Messages : message'[x] = "none" => execution'[x] = "none"
  BY <1>5 DEF IInv, QueuedInLog
<1>13. QED
  BY <1>4, <1>9, <1>10, <1>11, <1>12, LogStepKeeps

\* A refused message leaves nothing.
LEMMA AcceptRefusedKeeps ==
  ASSUME IInv, NEW c \in Conversations, AcceptRefused(c)
  PROVE  IInv' /\ LogStep
<1>1. TypeOK'
  BY DEF IInv, AcceptRefused, TypeOK, rowVars, workerVars
<1>2. LogStep
  BY QuietStep DEF AcceptRefused, rowVars
<1>3. AcceptingNew' /\ JobsQueued'
  BY DEF IInv, TypeOK, AcceptRefused, AcceptingNew, JobsQueued, rowVars, workerVars
<1>4. \A x \in Messages : message'[x] = "none" => execution'[x] = "none"
  BY DEF IInv, QueuedInLog, AcceptRefused, rowVars
<1>5. QED
  BY <1>1, <1>2, <1>3, <1>4, LogStepKeeps

\* A message for the operator has no execution.
LEMMA AcceptForOperatorKeeps ==
  ASSUME IInv, NEW c \in Conversations, AcceptForOperator(c)
  PROVE  IInv' /\ LogStep
<1> DEFINE m == accepting[c].message
<1>1. m \in Messages
  BY DEF IInv, TypeOK, AcceptForOperator
<1>2. /\ events' \in [Conversations -> Seq(Events)]
      /\ events'[c][Len(events[c]) + 1] = Event("accepted", m)
      /\ New(c) = {Len(events[c]) + 1} /\ \A d \in Conversations \ {c} : New(d) = {}
  BY <1>1, PublishExtends DEF IInv, AcceptForOperator, EventTypes
<1>3. TypeOK'
  BY <1>1, <1>2 DEF IInv, AcceptForOperator, TypeOK, workerVars
<1>4. EventStep(c, Len(events[c]) + 1)
  BY <1>2 DEF EventStep, Event, Switch
<1>5. \A d \in Conversations : ControlStep(d)
  <2>1. \A d \in Conversations : conv[d].control_version <= conv[d].control_version
    BY DEF IInv, TypeOK, Conversation
  <2>2. ASSUME NEW d \in Conversations, NEW i \in New(d)
        PROVE  events'[d][i].type = "accepted"
    BY <1>2 DEF Event
  <2>3. QED
    BY <2>1, <2>2 DEF ControlStep, AcceptForOperator, Switch
<1>6. LogStep
  BY <1>1, <1>4, <1>5, PublishStep DEF AcceptForOperator, EventTypes, Verdicts
<1>7. AcceptingNew' /\ JobsQueued'
  BY <1>1 DEF IInv, TypeOK, AcceptForOperator, AcceptingNew, JobsQueued, workerVars
<1>8. \A x \in Messages : message'[x] = "none" => execution'[x] = "none"
  BY <1>1 DEF IInv, TypeOK, QueuedInLog, AcceptForOperator
<1>9. QED
  BY <1>3, <1>6, <1>7, <1>8, LogStepKeeps

-----------------------------------------------------------------------------
(* Operators.                                                               *)

\* The columns a transition writes.
LEMMA TransitionVersion ==
  ASSUME conv \in [Conversations -> Conversation],
         NEW c \in Conversations, NEW actor, NEW target, NEW requested, NEW v,
         Transition(c, actor, target, requested, v)
  PROVE  /\ conv'[c].control_version = conv[c].control_version + 1
         /\ conv'[c].control_mode = target
BY DEF Transition, Conversation

\* A transition is written to the log with the version it makes.
LEMMA ControlTransitionKeeps ==
  ASSUME IInv, NEW c \in Conversations, NEW actor \in Admins, NEW target \in Modes,
         NEW requested \in Admins \cup {NoAdmin}, NEW v,
         ControlTransition(c, actor, target, requested, v)
  PROVE  IInv' /\ LogStep
<1>1. /\ conv' \in [Conversations -> Conversation]
      /\ \A d \in Conversations \ {c} : conv'[d] = conv[d]
  BY TransitionType DEF IInv, TypeOK, ControlTransition
<1>2. /\ conv'[c].control_version = conv[c].control_version + 1
      /\ conv'[c].control_mode = target
  BY TransitionVersion DEF IInv, TypeOK, ControlTransition
<1>3. /\ events' \in [Conversations -> Seq(Events)]
      /\ Len(events'[c]) = Len(events[c]) + 1
      /\ events'[c][Len(events[c]) + 1] = Event("control", target)
      /\ New(c) = {Len(events[c]) + 1}
      /\ \A d \in Conversations \ {c} : events'[d] = events[d] /\ New(d) = {}
  BY PublishExtends DEF IInv, ControlTransition, EventTypes
<1>4. \A d \in Conversations : conv[d].control_version \in Nat
  BY DEF IInv, TypeOK, Conversation
<1>5. TypeOK'
  BY <1>1, <1>3 DEF IInv, ControlTransition, TypeOK, rowVars, workerVars
<1>6. EventStep(c, Len(events[c]) + 1)
  BY <1>2, <1>3, <1>4 DEF EventStep, Event, Switch
<1>7. \A d \in Conversations : ControlStep(d)
  <2>1. ControlStep(c)
    BY <1>2, <1>3, <1>4 DEF ControlStep
  <2>2. \A d \in Conversations \ {c} : ControlStep(d)
    BY <1>1, <1>3, <1>4 DEF ControlStep
  <2>3. QED
    BY <2>1, <2>2
<1>8. LogStep
  BY <1>6, <1>7, PublishStep DEF ControlTransition, rowVars, EventTypes, Verdicts
<1>9. AcceptingNew' /\ JobsQueued'
  BY DEF IInv, TypeOK, ControlTransition, AcceptingNew, JobsQueued, rowVars, workerVars
<1>10. \A x \in Messages : message'[x] = "none" => execution'[x] = "none"
  BY DEF IInv, QueuedInLog, ControlTransition, rowVars
<1>11. QED
  BY <1>5, <1>8, <1>9, <1>10, LogStepKeeps

\* A change of agent leaves the control columns and the log alone.
LEMMA AutomationAssignKeeps ==
  ASSUME IInv, NEW c \in Conversations, NEW a \in Agents, NEW v, AutomationAssign(c, a, v)
  PROVE  IInv' /\ LogStep
<1>1. conv' \in [Conversations -> Conversation]
  BY AssignType DEF IInv, TypeOK, AutomationAssign
<1>2. \A d \in Conversations : /\ conv'[d].control_version = conv[d].control_version
                              /\ conv'[d].control_mode = conv[d].control_mode
  BY DEF IInv, TypeOK, AutomationAssign, Assign, Conversation
<1>3. TypeOK'
  BY <1>1 DEF IInv, AutomationAssign, TypeOK, rowVars, workerVars
<1>4. LogStep
  BY <1>2, QuietStep DEF AutomationAssign, rowVars
<1>5. AcceptingNew' /\ JobsQueued'
  BY DEF IInv, TypeOK, AutomationAssign, AcceptingNew, JobsQueued, rowVars, workerVars
<1>6. \A x \in Messages : message'[x] = "none" => execution'[x] = "none"
  BY DEF IInv, QueuedInLog, AutomationAssign, rowVars
<1>7. QED
  BY <1>3, <1>4, <1>5, <1>6, LogStepKeeps

\* An operator writes under human control.
LEMMA OperatorReplyKeeps ==
  ASSUME IInv, NEW c \in Conversations, NEW actor \in Admins, NEW v,
         OperatorReply(c, actor, v)
  PROVE  IInv' /\ LogStep
<1>1. /\ Publish(c, "operator", actor) /\ conv[c].control_mode = "human"
      /\ UNCHANGED <<conv, accepting, rowVars, workerVars>>
  BY DEF OperatorReply
<1>2. /\ events' \in [Conversations -> Seq(Events)]
      /\ events'[c][Len(events[c]) + 1] = Event("operator", actor)
      /\ New(c) = {Len(events[c]) + 1}
      /\ \A d \in Conversations \ {c} : New(d) = {}
  BY <1>1, PublishExtends DEF IInv, EventTypes
<1>3. TypeOK'
  BY <1>1, <1>2 DEF IInv, TypeOK, rowVars, workerVars
<1>4. EventStep(c, Len(events[c]) + 1)
  BY <1>1, <1>2 DEF EventStep, Event, Switch
<1>5. \A d \in Conversations : ControlStep(d)
  <2>1. \A d \in Conversations : conv[d].control_version <= conv[d].control_version
    BY DEF IInv, TypeOK, Conversation
  <2>2. ASSUME NEW d \in Conversations, NEW i \in New(d)
        PROVE  events'[d][i].type = "operator"
    BY <1>2 DEF Event
  <2>3. QED
    BY <1>1, <2>1, <2>2 DEF ControlStep, Switch
<1>6. LogStep
  BY <1>1, <1>4, <1>5, PublishStep DEF rowVars, EventTypes, Verdicts
<1>7. AcceptingNew' /\ JobsQueued'
  BY <1>1 DEF IInv, TypeOK, AcceptingNew, JobsQueued, rowVars, workerVars
<1>8. \A x \in Messages : message'[x] = "none" => execution'[x] = "none"
  BY <1>1 DEF IInv, QueuedInLog, rowVars
<1>9. QED
  BY <1>3, <1>6, <1>7, <1>8, LogStepKeeps

-----------------------------------------------------------------------------
(* Workers.                                                                 *)

\* A worker's step that leaves the log and the rows alone.
LEMMA WorkerQuiet ==
  ASSUME IInv, UNCHANGED <<conv, accepting, message, execution, snapshot, queue_sequence, events>>,
         TypeOK', JobsQueued'
  PROVE  IInv' /\ LogStep
<1>1. LogStep
  BY QuietStep
<1>2. AcceptingNew'
  BY DEF IInv, AcceptingNew
<1>3. \A x \in Messages : message'[x] = "none" => execution'[x] = "none"
  BY DEF IInv, QueuedInLog
<1>4. QED
  BY <1>1, <1>2, <1>3, LogStepKeeps

\* The worker moves on.
LEMMA GotoKeeps ==
  ASSUME IInv, NEW w \in Workers, pc[w] # "idle",
         NEW place \in {"preparing", "running", "guarded", "blocking", "failing"},
         Goto(w, place)
  PROVE  IInv' /\ LogStep
<1>1. TypeOK' /\ JobsQueued'
  BY DEF IInv, TypeOK, Goto, JobsQueued, rowVars
<1>2. QED
  BY <1>1, WorkerQuiet DEF Goto, rowVars

\* The worker leaves its claim.
LEMMA AbandonKeeps ==
  ASSUME IInv, NEW w \in Workers, Abandon(w)
  PROVE  IInv' /\ LogStep
<1>1. TypeOK' /\ JobsQueued'
  BY DEF IInv, TypeOK, Abandon, Forget, JobsQueued, rowVars
<1>2. QED
  BY <1>1, WorkerQuiet DEF Abandon, rowVars

\* The clock passes a lease.
LEMMA LeaseExpiresKeeps ==
  ASSUME IInv, NEW m \in Messages, LeaseExpires(m)
  PROVE  IInv' /\ LogStep
<1>1. TypeOK' /\ JobsQueued'
  BY DEF IInv, TypeOK, LeaseExpires, JobsQueued, workerVars
<1>2. QED
  BY <1>1, WorkerQuiet DEF LeaseExpires

\* The native tool asks in the epoch of its message.
LEMMA ContactToolKeeps ==
  ASSUME IInv, NEW w \in Workers, ContactTool(w)
  PROVE  IInv' /\ LogStep
<1> DEFINE m == job[w]
           c == ConvOf[m]
<1>1. /\ m \in Messages /\ execution[m] # "none" /\ queue_sequence[m] # 0
      /\ c \in Conversations
  BY WebAssumption DEF IInv, ContactTool, JobsQueued, QueuedInLog
<1>2. JobsQueued'
  BY DEF IInv, TypeOK, ContactTool, JobsQueued, rowVars
<1>3. CASE UNCHANGED events
  <2>1. TypeOK'
    BY <1>3 DEF IInv, TypeOK, ContactTool, rowVars
  <2>2. QED
    BY <1>2, <1>3, <2>1, WorkerQuiet, QuietStep DEF ContactTool, rowVars
<1>4. CASE Current(m) /\ Publish(c, "contact", m)
  <2>1. /\ events' \in [Conversations -> Seq(Events)]
        /\ events'[c][Len(events[c]) + 1] = Event("contact", m)
        /\ New(c) = {Len(events[c]) + 1}
        /\ \A d \in Conversations \ {c} : New(d) = {}
    BY <1>1, <1>4, PublishExtends DEF IInv, EventTypes
  <2>2. TypeOK'
    BY <2>1 DEF IInv, TypeOK, ContactTool, rowVars
  <2>3. EventStep(c, Len(events[c]) + 1)
    <3>1. /\ events'[c][Len(events[c]) + 1].type = "contact"
          /\ events'[c][Len(events[c]) + 1].of = m
      BY <2>1 DEF Event
    <3>2. \A k \in New(c) : events'[c][k].type \notin Switch
      BY <2>1, <3>1 DEF Switch
    <3>3. QED
      BY <1>1, <1>4, <3>1, <3>2 DEF EventStep, Switch, Current
  <2>4. \A d \in Conversations : ControlStep(d)
    <3>1. \A d \in Conversations : conv[d].control_version <= conv[d].control_version
      BY DEF IInv, TypeOK, Conversation
    <3>2. ASSUME NEW d \in Conversations, NEW i \in New(d)
          PROVE  events'[d][i].type = "contact"
      <4>1. d = c /\ i = Len(events[c]) + 1
        BY <2>1
      <4>2. QED
        BY <2>1, <4>1 DEF Event
    <3>3. QED
      BY <3>1, <3>2 DEF ControlStep, Switch, ContactTool
  <2>5. LogStep
    BY <1>1, <1>4, <2>3, <2>4, PublishStep DEF ContactTool, rowVars, EventTypes, Verdicts
  <2>6. AcceptingNew' /\ \A x \in Messages : message'[x] = "none" => execution'[x] = "none"
    BY DEF IInv, AcceptingNew, QueuedInLog, ContactTool, rowVars
  <2>7. QED
    BY <1>2, <2>2, <2>5, <2>6, LogStepKeeps
<1>5. QED
  BY <1>3, <1>4 DEF ContactTool

\* The outcome of the owner, in the epoch of its message or as "blocked".
LEMMA RecordKeeps ==
  ASSUME IInv, NEW w \in Workers, pc[w] # "idle",
         NEW outcome \in {"completed", "failed", "blocked"}, Record(w, outcome)
  PROVE  IInv' /\ LogStep
<1> DEFINE m == job[w]
           c == ConvOf[m]
           verdict == IF Current(m) THEN outcome ELSE "blocked"
<1>1. /\ m \in Messages /\ execution[m] # "none" /\ queue_sequence[m] # 0
      /\ c \in Conversations
      /\ verdict \in {"completed", "failed", "blocked"}
      /\ verdict \in {"completed", "failed"} => Current(m)
  BY WebAssumption DEF IInv, JobsQueued, QueuedInLog
<1>2. CASE Owned(w, m)
  <2>1. /\ execution' = [execution EXCEPT ![m] = verdict]
        /\ message' \in {message, [message EXCEPT ![m] = "completed"]}
        /\ lease_owner' = [lease_owner EXCEPT ![m] = None]
        /\ lease' = [lease EXCEPT ![m] = "null"]
        /\ Publish(c, verdict, m)
        /\ Forget(w)
        /\ UNCHANGED <<conv, accepting, snapshot, queue_sequence>>
        /\ execution[m] = "running"
    BY <1>2 DEF Record, Owned
  <2> HIDE DEF m, c, verdict
  <2>2. /\ events' \in [Conversations -> Seq(Events)]
        /\ LogExtends
        /\ events'[c][Len(events[c]) + 1] = Event(verdict, m)
        /\ New(c) = {Len(events[c]) + 1}
        /\ \A d \in Conversations \ {c} : New(d) = {}
    BY <1>1, <2>1, PublishExtends DEF IInv, EventTypes
  <2>3. TypeOK'
    BY <1>1, <2>1, <2>2 DEF IInv, TypeOK, Forget, ExecutionStatuses
  <2>4. JobsQueued'
    BY <1>1, <2>1 DEF IInv, TypeOK, JobsQueued, Forget
  <2>5. \A x \in Messages : QueueStep(x)
    BY <1>1, <2>1 DEF IInv, TypeOK, QueueStep
  <2>6. \A d \in Conversations : \A i \in New(d) :
          events'[d][i].type = verdict /\ events'[d][i].of = m
    <3>1. ASSUME NEW d \in Conversations, NEW i \in New(d)
          PROVE  d = c /\ i = Len(events[c]) + 1
      BY <2>2
    <3>2. QED
      BY <2>2, <3>1 DEF Event
  <2>7. ASSUME NEW x \in Messages
        PROVE  VerdictStep(x)
    <3>1. CASE x = m
      <4>1. execution'[m] = verdict /\ c = ConvOf[x]
        BY <1>1, <2>1, <3>1 DEF IInv, TypeOK, c
      <4>2. QED
        BY <1>1, <2>1, <2>2, <3>1, <4>1 DEF VerdictStep, Verdicts
    <3>2. CASE x # m
      <4>1. execution'[x] = execution[x]
        BY <2>1, <3>2 DEF IInv, TypeOK
      <4>2. \A i \in New(ConvOf[x]) : ~VerdictAt(ConvOf[x], i, x)'
        BY <2>6, <3>2, WebAssumption DEF VerdictAt
      <4>3. QED
        BY <4>1, <4>2 DEF VerdictStep
    <3>3. QED
      BY <3>1, <3>2
  <2>8. \A d \in Conversations : conv[d].control_version <= conv[d].control_version
    BY DEF IInv, TypeOK, Conversation
  <2>9. \A d \in Conversations : ControlStep(d)
    BY <1>1, <2>1, <2>6, <2>8 DEF ControlStep, Switch
  <2>10. ASSUME NEW d \in Conversations, NEW i \in New(d)
         PROVE  EventStep(d, i)
    <3>1. d = ConvOf[m] /\ \A k \in New(d) : events'[d][k].type \notin Switch
      BY <1>1, <2>2, <2>6 DEF Switch, c
    <3>2. events'[d][i].type = verdict /\ events'[d][i].of = m
      BY <2>6
    <3>3. QED
      BY <1>1, <3>1, <3>2 DEF EventStep, Switch, Current
  <2>11. LogStep
    BY <2>2, <2>5, <2>7, <2>9, <2>10 DEF LogStep
  <2>12. AcceptingNew'
    BY <1>1, <2>1 DEF IInv, TypeOK, AcceptingNew, QueuedInLog
  <2>13. \A x \in Messages : message'[x] = "none" => execution'[x] = "none"
    BY <1>1, <2>1 DEF IInv, TypeOK, QueuedInLog
  <2>14. QED
    BY <2>3, <2>4, <2>11, <2>12, <2>13, LogStepKeeps
<1>3. CASE ~Owned(w, m)
  <2>1. TypeOK' /\ JobsQueued'
    BY <1>3 DEF IInv, TypeOK, Record, Forget, JobsQueued
  <2>2. QED
    BY <1>3, <2>1, WorkerQuiet, QuietStep DEF Record
<1>4. QED
  BY <1>2, <1>3

-----------------------------------------------------------------------------
(* Settling several messages in one transaction.                            *)

\* The sequence n tells the verdicts of the messages of S in c, once each.
Tells(n, c, S, status) ==
  /\ n \in Seq(Events)
  /\ \A k \in 1..Len(n) : \E m \in S : ConvOf[m] = c /\ n[k] = Event(status[m], m)
  /\ \A m \in S : ConvOf[m] = c =>
       \E k \in 1..Len(n) : /\ n[k] = Event(status[m], m)
                            /\ \A l \in 1..Len(n) : n[l].of = m => l = k

\* The fields of an event.
LEMMA EventFields == \A t, x : Event(t, x).type = t /\ Event(t, x).of = x
BY DEF Event

\* Where the members of two sequences are once they are joined.
LEMMA Joined ==
  ASSUME NEW E, NEW n \in Seq(E), NEW p \in Seq(E)
  PROVE  /\ n \o p \in Seq(E) /\ Len(n) \in Nat /\ Len(p) \in Nat
         /\ Len(n \o p) = Len(n) + Len(p)
         /\ \A k \in 1..Len(n) : k \in 1..Len(n \o p) /\ (n \o p)[k] = n[k]
         /\ \A k \in 1..Len(p) :
              Len(n) + k \in 1..Len(n \o p) /\ (n \o p)[Len(n) + k] = p[k]
         /\ \A k \in 1..Len(n \o p) :
              \/ k \in 1..Len(n) /\ (n \o p)[k] = n[k]
              \/ k - Len(n) \in 1..Len(p) /\ (n \o p)[k] = p[k - Len(n)]
OBVIOUS

\* The notices of a set of queued messages tell their verdicts: messages of a
\* conversation have different positions in the queue, so that their places
\* enumerate them.
LEMMA NoticesTell ==
  ASSUME IInv, NEW c \in Conversations, NEW S \in SUBSET Messages, NEW status,
         \A m \in S : execution[m] # "none" /\ status[m] \in Verdicts
  PROVE  Tells(Notices(c, S, status), c, S, status)
<1> DEFINE B == {m \in S : ConvOf[m] = c}
           Below(m) == {n \in B : queue_sequence[n] <= queue_sequence[m]}
           place(m) == Cardinality(Below(m))
           N == Cardinality(B)
           ordered == [i \in 1..N |-> CHOOSE m \in B : place(m) = i]
<1>1. \A m \in B : /\ m \in Messages
                   /\ queue_sequence[m] \in 1..Len(events[c])
                   /\ events[c][queue_sequence[m]] = Event("accepted", m)
  BY DEF IInv, QueuedInLog, At
<1>2. \A m, n \in B : queue_sequence[m] = queue_sequence[n] => m = n
  <2>1. \A m \in B : events[c][queue_sequence[m]].of = m
    BY <1>1, EventFields
  <2>2. QED
    BY <2>1
<1>3. Len(events[c]) \in Nat
  BY LogTyped DEF IInv
<1>4. IsFiniteSet(B)
  <2> DEFINE f == [m \in B |-> queue_sequence[m]]
  <2>1. f \in Injection(B, 1..Len(events[c]))
    BY <1>1, <1>2 DEF Injection, IsInjective
  <2>2. IsFiniteSet(1..Len(events[c]))
    BY <1>3, FS_Interval
  <2>3. QED
    BY <2>1, <2>2, FS_Injection
<1>5. N \in Nat
  BY <1>4, FS_CardinalityType
<1>6. \A m \in B : IsFiniteSet(Below(m)) /\ place(m) \in 1..N
  <2>1. ASSUME NEW m \in B
        PROVE  IsFiniteSet(Below(m)) /\ place(m) \in 1..N
    <3>1. Below(m) \in SUBSET B /\ m \in Below(m)
      BY <1>1
    <3>2. IsFiniteSet(Below(m)) /\ place(m) <= N
      BY <1>4, <3>1, FS_Subset
    <3>3. place(m) \in Nat /\ place(m) # 0
      BY <3>1, <3>2, FS_CardinalityType, FS_EmptySet
    <3>4. QED
      BY <1>5, <3>2, <3>3
  <2>2. QED
    BY <2>1
<1>7. \A m, n \in B : place(m) = place(n) => m = n
  <2>1. ASSUME NEW m \in B, NEW n \in B, queue_sequence[m] < queue_sequence[n]
        PROVE  place(m) # place(n)
    <3>1. Below(m) \in SUBSET Below(n) /\ n \in Below(n) /\ n \notin Below(m)
      BY <1>1, <2>1
    <3>2. IsFiniteSet(Below(n))
      BY <1>6
    <3>3. Cardinality(Below(n)) = Cardinality(Below(m)) => Below(n) = Below(m)
      BY <3>1, <3>2, FS_Subset
    <3>4. QED
      BY <3>1, <3>3
  <2>2. \A m, n \in B : m # n => queue_sequence[m] < queue_sequence[n]
                               \/ queue_sequence[n] < queue_sequence[m]
    BY <1>1, <1>2
  <2>3. QED
    BY <2>1, <2>2
<1>8. \A i \in 1..N : \E m \in B : place(m) = i
  <2> DEFINE g == [m \in B |-> place(m)]
  <2>1. g \in Injection(B, 1..N)
    BY <1>6, <1>7 DEF Injection, IsInjective
  <2>2. IsFiniteSet(1..N) /\ Cardinality(1..N) = N
    BY <1>5, FS_Interval
  <2>3. g \in Surjection(B, 1..N)
    BY <2>1, <2>2, FS_Injection
  <2>4. QED
    BY <2>3 DEF Surjection
<1>9. \A i \in 1..N : ordered[i] \in B /\ place(ordered[i]) = i
  BY <1>8
<1>10. Notices(c, S, status) = [i \in 1..N |-> Event(status[ordered[i]], ordered[i])]
  BY DEF Notices
<1> DEFINE n == Notices(c, S, status)
<1> HIDE DEF B, Below, place, N, ordered
<1>11. /\ n \in Seq(Events) /\ Len(n) = N
       /\ \A k \in 1..N : n[k] = Event(status[ordered[k]], ordered[k])
  <2>1. \A k \in 1..N : Event(status[ordered[k]], ordered[k]) \in Events
    BY <1>9 DEF Event, Events, B, Verdicts, EventTypes
  <2>2. QED
    BY <1>5, <1>10, <2>1
<1>12. \A k \in 1..N : n[k].of = ordered[k]
  BY <1>11 DEF Event
<1> HIDE DEF n
<1>13. ASSUME NEW m \in B
       PROVE  \E k \in 1..Len(n) : /\ n[k] = Event(status[m], m)
                                   /\ \A l \in 1..Len(n) : n[l].of = m => l = k
  <2>1. place(m) \in 1..N
    BY <1>6
  <2>2. ordered[place(m)] = m
    BY <1>7, <1>9, <2>1
  <2>3. \A l \in 1..N : ordered[l] = m => l = place(m)
    BY <1>9
  <2>4. QED
    BY <1>11, <1>12, <2>1, <2>2, <2>3
<1>14. QED
  BY <1>9, <1>11, <1>13 DEF Tells, B, n

\* Notices of two sets of messages, one after the other, tell both.
LEMMA BothTell ==
  ASSUME NEW c, NEW R, NEW S, R \cap S = {}, NEW status, NEW n, NEW p,
         Tells(n, c, R, status), Tells(p, c, S, status)
  PROVE  Tells(n \o p, c, R \cup S, status)
<1> DEFINE q == n \o p
<1>1. n \in Seq(Events) /\ p \in Seq(Events)
  BY DEF Tells
<1>2. /\ q \in Seq(Events) /\ Len(n) \in Nat /\ Len(p) \in Nat
      /\ \A k \in 1..Len(n) : k \in 1..Len(q) /\ q[k] = n[k]
      /\ \A k \in 1..Len(p) : Len(n) + k \in 1..Len(q) /\ q[Len(n) + k] = p[k]
      /\ \A k \in 1..Len(q) : \/ k \in 1..Len(n) /\ q[k] = n[k]
                              \/ k - Len(n) \in 1..Len(p) /\ q[k] = p[k - Len(n)]
  BY <1>1, Joined
<1> HIDE DEF q
<1>3. /\ \A k \in 1..Len(n) : \E m \in R : ConvOf[m] = c /\ n[k] = Event(status[m], m)
      /\ \A k \in 1..Len(p) : \E m \in S : ConvOf[m] = c /\ p[k] = Event(status[m], m)
  BY DEF Tells
<1>4. /\ \A k \in 1..Len(n) : n[k].of \in R
      /\ \A k \in 1..Len(p) : p[k].of \in S
  BY <1>3, EventFields
<1>5. ASSUME NEW k \in 1..Len(q)
      PROVE  \E m \in R \cup S : ConvOf[m] = c /\ q[k] = Event(status[m], m)
  <2>1. CASE k \in 1..Len(n) /\ q[k] = n[k]
    <3>1. PICK m \in R : ConvOf[m] = c /\ n[k] = Event(status[m], m)
      BY <1>3, <2>1
    <3>2. QED
      BY <2>1, <3>1
  <2>2. CASE k - Len(n) \in 1..Len(p) /\ q[k] = p[k - Len(n)]
    <3>1. PICK m \in S : ConvOf[m] = c /\ p[k - Len(n)] = Event(status[m], m)
      BY <1>3, <2>2
    <3>2. QED
      BY <2>2, <3>1
  <2>3. QED
    BY <1>2, <2>1, <2>2
<1>6. ASSUME NEW m \in R, ConvOf[m] = c
      PROVE  \E k \in 1..Len(q) : /\ q[k] = Event(status[m], m)
                                  /\ \A l \in 1..Len(q) : q[l].of = m => l = k
  <2>1. PICK k \in 1..Len(n) : /\ n[k] = Event(status[m], m)
                               /\ \A l \in 1..Len(n) : n[l].of = m => l = k
    BY <1>6 DEF Tells
  <2>2. ASSUME NEW l \in 1..Len(q), q[l].of = m
        PROVE  l = k
    <3>1. l \in 1..Len(n) /\ q[l] = n[l]
      BY <1>2, <1>4, <2>2
    <3>2. QED
      BY <2>1, <2>2, <3>1
  <2>3. QED
    BY <1>2, <2>1, <2>2
<1>7. ASSUME NEW m \in S, ConvOf[m] = c
      PROVE  \E k \in 1..Len(q) : /\ q[k] = Event(status[m], m)
                                  /\ \A l \in 1..Len(q) : q[l].of = m => l = k
  <2>1. PICK k \in 1..Len(p) : /\ p[k] = Event(status[m], m)
                               /\ \A l \in 1..Len(p) : p[l].of = m => l = k
    BY <1>7 DEF Tells
  <2>2. ASSUME NEW l \in 1..Len(q), q[l].of = m
        PROVE  l = Len(n) + k
    <3>1. l - Len(n) \in 1..Len(p) /\ q[l] = p[l - Len(n)]
      BY <1>2, <1>4, <2>2
    <3>2. l - Len(n) = k
      BY <2>1, <2>2, <3>1
    <3>3. QED
      BY <1>2, <3>2
  <2>3. QED
    BY <1>2, <2>1, <2>2
<1>8. QED
  BY <1>2, <1>5, <1>6, <1>7 DEF Tells, q

\* A transaction that settles the messages of T: the notices tell[d] in each
\* conversation and then at most one event that is no verdict.
Settles(T, status, tell, tail) ==
  /\ T \subseteq Messages
  /\ \A m \in T : /\ execution[m] \in {"queued", "running"}
                  /\ status[m] \in Verdicts /\ execution'[m] = status[m]
  /\ \A m \in Messages \ T :
       execution'[m] = execution[m] \/ {execution[m], execution'[m]} \cap Verdicts = {}
  /\ \A d \in Conversations : Tells(tell[d], d, T, status)
  /\ \A d \in Conversations :
       /\ tail[d] \in Seq(Events) /\ Len(tail[d]) \in {0, 1}
       /\ Len(tail[d]) = 1 => tail[d][1].type \notin Verdicts
  /\ events' = [d \in Conversations |-> events[d] \o tell[d] \o tail[d]]

\* Where the events n and then t stand that such a transaction adds to the log
\* of d.
Added(d, T, status, n, t) ==
  LET a == Len(events[d])
      b == a + Len(n) IN
  /\ events'[d] \in Seq(Events)
  /\ a \in Nat /\ b \in Nat /\ a <= b /\ Len(n) \in Nat /\ Len(t) \in {0, 1}
  /\ Len(events'[d]) = b + Len(t) /\ a <= Len(events'[d])
  /\ Len(t) = 1 => /\ Len(events'[d]) \in New(d) /\ Len(events'[d]) = b + 1
                   /\ events'[d][b + 1] = t[1]
  /\ \A i \in 1..a : events'[d][i] = events[d][i]
  /\ \A k \in 1..Len(n) : /\ a + k \in New(d) /\ a + k \in (a + 1)..b
                          /\ events'[d][a + k] = n[k]
  /\ \A i \in New(d) :
       \/ /\ i \in (a + 1)..b /\ i - a \in 1..Len(n)
          /\ events'[d][i] = n[i - a]
       \/ i = b + 1 /\ Len(t) = 1 /\ events'[d][i] = t[1]
  /\ \A k \in 1..Len(n) : \E m \in T : ConvOf[m] = d /\ n[k] = Event(status[m], m)

\* Executions settled together add their notice to the log of each conversation.
LEMMA SettledLog ==
  ASSUME TypeOK, NEW T, NEW status, NEW tell, NEW tail, Settles(T, status, tell, tail),
         NEW d \in Conversations
  PROVE  Added(d, T, status, tell[d], tail[d])
<1> DEFINE e == events[d]
           n == tell[d]
           t == tail[d]
<1>1. /\ e \in Seq(Events) /\ n \in Seq(Events) /\ t \in Seq(Events)
      /\ events'[d] = (e \o n) \o t
      /\ Len(t) \in {0, 1}
  BY LogTyped DEF Tells, Settles
<1>2. \A k \in 1..Len(n) : \E m \in T : ConvOf[m] = d /\ n[k] = Event(status[m], m)
  BY DEF Tells, Settles
<1> HIDE DEF e, n, t
<1>3. /\ e \o n \in Seq(Events) /\ Len(e) \in Nat /\ Len(n) \in Nat
      /\ Len(e \o n) = Len(e) + Len(n)
      /\ \A i \in 1..Len(e) : i \in 1..Len(e \o n) /\ (e \o n)[i] = e[i]
      /\ \A k \in 1..Len(n) : /\ Len(e) + k \in 1..Len(e \o n)
                              /\ (e \o n)[Len(e) + k] = n[k]
      /\ \A i \in 1..Len(e \o n) :
           \/ i \in 1..Len(e) /\ (e \o n)[i] = e[i]
           \/ i - Len(e) \in 1..Len(n) /\ (e \o n)[i] = n[i - Len(e)]
  BY <1>1, Joined
<1>4. /\ events'[d] \in Seq(Events) /\ Len(t) \in Nat
      /\ Len(events'[d]) = Len(e \o n) + Len(t)
      /\ \A i \in 1..Len(e \o n) : events'[d][i] = (e \o n)[i]
      /\ \A i \in 1..Len(events'[d]) :
           \/ i \in 1..Len(e \o n) /\ events'[d][i] = (e \o n)[i]
           \/ i - Len(e \o n) \in 1..Len(t) /\ events'[d][i] = t[i - Len(e \o n)]
  BY <1>1, <1>3, Joined
<1>5. New(d) = (Len(e) + 1)..(Len(e) + Len(n) + Len(t))
  BY <1>3, <1>4 DEF New, e
<1>6. \A i \in 1..Len(e) : events'[d][i] = e[i]
  BY <1>3, <1>4
<1>7. ASSUME NEW k \in 1..Len(n)
      PROVE  /\ Len(e) + k \in New(d) /\ Len(e) + k \in (Len(e) + 1)..(Len(e) + Len(n))
             /\ events'[d][Len(e) + k] = n[k]
  BY <1>1, <1>3, <1>4, <1>5
<1>8. ASSUME NEW i \in New(d)
      PROVE  \/ /\ i \in (Len(e) + 1)..(Len(e) + Len(n)) /\ i - Len(e) \in 1..Len(n)
                /\ events'[d][i] = n[i - Len(e)]
             \/ i = Len(e) + Len(n) + 1 /\ Len(t) = 1 /\ events'[d][i] = t[1]
  <2>1. CASE i <= Len(e) + Len(n)
    <3>1. i \in (Len(e) + 1)..(Len(e) + Len(n)) /\ i - Len(e) \in 1..Len(n)
          /\ i \in 1..Len(e \o n) /\ i \notin 1..Len(e)
      BY <1>3, <1>5, <2>1
    <3>2. QED
      BY <1>3, <1>4, <3>1
  <2>2. CASE ~(i <= Len(e) + Len(n))
    <3>1. i = Len(e \o n) + 1 /\ Len(t) = 1 /\ i \in 1..Len(events'[d])
          /\ i - Len(e \o n) = 1 /\ i \notin 1..Len(e \o n)
      BY <1>1, <1>3, <1>4, <1>5, <2>2
    <3>2. QED
      BY <1>3, <1>4, <3>1
  <2>3. QED
    BY <2>1, <2>2
<1>9. Len(e) + Len(n) \in Nat /\ Len(e) <= Len(e) + Len(n)
      /\ Len(events'[d]) = Len(e) + Len(n) + Len(t) /\ Len(e) <= Len(events'[d])
  BY <1>3, <1>4
<1>10. ASSUME Len(t) = 1
       PROVE  /\ Len(events'[d]) \in New(d) /\ Len(events'[d]) = Len(e) + Len(n) + 1
              /\ events'[d][Len(e) + Len(n) + 1] = t[1]
  <2>1. Len(events'[d]) = Len(e) + Len(n) + 1 /\ Len(events'[d]) \in New(d)
    BY <1>3, <1>4, <1>5, <1>9, <1>10
  <2>2. Len(events'[d]) \notin (Len(e) + 1)..(Len(e) + Len(n))
    BY <1>3, <2>1
  <2>3. QED
    BY <1>8, <2>1, <2>2
<1>11. QED
  BY <1>1, <1>2, <1>3, <1>4, <1>6, <1>7, <1>8, <1>9, <1>10 DEF Added, e, n, t

\* Each message of T has its verdict among the notices.
Told(T, status, tell) ==
  \A m \in T : \E i \in (Len(events[ConvOf[m]]) + 1)..
                        (Len(events[ConvOf[m]]) + Len(tell[ConvOf[m]])) :
    events'[ConvOf[m]][i] = Event(status[m], m)

\* Each message it settles has its one verdict in the log.
LEMMA SettledVerdicts ==
  ASSUME TypeOK, NEW T, NEW status, NEW tell, NEW tail, Settles(T, status, tell, tail)
  PROVE  /\ events' \in [Conversations -> Seq(Events)]
         /\ LogExtends
         /\ \A m \in Messages : VerdictStep(m)
         /\ Told(T, status, tell)
<1>0. \A d \in Conversations : Added(d, T, status, tell[d], tail[d])
  BY SettledLog
<1>1. events' \in [Conversations -> Seq(Events)]
  BY <1>0 DEF Settles, Added
<1>2. LogExtends
  <2>1. ASSUME NEW d \in Conversations
        PROVE  /\ Len(events[d]) <= Len(events'[d])
               /\ \A i \in 1..Len(events[d]) : events'[d][i] = events[d][i]
    <3>1. Added(d, T, status, tell[d], tail[d])
      BY <1>0
    <3>2. QED
      BY <3>1 DEF Added
  <2>2. QED
    BY <2>1 DEF LogExtends
<1>3. ASSUME NEW d \in Conversations, NEW i \in New(d), events'[d][i].type \in Verdicts
      PROVE  /\ i - Len(events[d]) \in 1..Len(tell[d])
             /\ events'[d][i] = tell[d][i - Len(events[d])]
             /\ events'[d][i].of \in T
  <2>1. Len(tail[d]) = 1 => tail[d][1].type \notin Verdicts
    BY DEF Settles
  <2>2. /\ i - Len(events[d]) \in 1..Len(tell[d])
        /\ events'[d][i] = tell[d][i - Len(events[d])]
    BY <1>0, <1>3, <2>1 DEF Added
  <2>3. PICK m \in T : tell[d][i - Len(events[d])] = Event(status[m], m)
    <3>1. Tells(tell[d], d, T, status)
      BY DEF Settles
    <3>2. QED
      BY <2>2, <3>1 DEF Tells
  <2>4. QED
    BY <2>2, <2>3, EventFields
<1>4. ASSUME NEW m \in T
      PROVE  \E i \in New(ConvOf[m]) :
               /\ events'[ConvOf[m]][i] = Event(status[m], m)
               /\ i \in (Len(events[ConvOf[m]]) + 1)..
                         (Len(events[ConvOf[m]]) + Len(tell[ConvOf[m]]))
               /\ \A k \in New(ConvOf[m]) : VerdictAt(ConvOf[m], k, m)' => k = i
  <2> DEFINE d == ConvOf[m]
  <2>1. d \in Conversations /\ Tells(tell[d], d, T, status)
    BY WebAssumption DEF Settles
  <2>2. PICK k \in 1..Len(tell[d]) : /\ tell[d][k] = Event(status[m], m)
                                     /\ \A l \in 1..Len(tell[d]) : tell[d][l].of = m => l = k
    BY <2>1 DEF Tells
  <2> HIDE DEF d
  <2>3. /\ Len(events[d]) + k \in New(d)
        /\ Len(events[d]) + k \in (Len(events[d]) + 1)..(Len(events[d]) + Len(tell[d]))
        /\ events'[d][Len(events[d]) + k] = tell[d][k]
        /\ Len(events[d]) \in Nat
    BY <1>0, <2>1, <2>2 DEF Added
  <2>4. ASSUME NEW j \in New(d), VerdictAt(d, j, m)'
        PROVE  j = Len(events[d]) + k
    <3>1. events'[d][j].type \in Verdicts /\ events'[d][j].of = m
      BY <2>4 DEF VerdictAt
    <3>2. /\ j - Len(events[d]) \in 1..Len(tell[d])
          /\ events'[d][j] = tell[d][j - Len(events[d])]
      BY <1>3, <2>1, <3>1
    <3>3. j - Len(events[d]) = k
      BY <2>2, <3>1, <3>2
    <3>4. QED
      BY <2>3, <3>3 DEF New
  <2>5. QED
    BY <2>2, <2>3, <2>4 DEF d
<1>5. ASSUME NEW m \in Messages
      PROVE  VerdictStep(m)
  <2>1. ConvOf[m] \in Conversations
    BY WebAssumption
  <2>2. CASE m \in T
    <3>1. /\ execution[m] \in {"queued", "running"} /\ execution'[m] = status[m]
          /\ status[m] \in Verdicts
      BY <2>2 DEF Settles
    <3>2. QED
      BY <1>4, <2>2, <3>1 DEF VerdictStep
  <2>3. CASE m \notin T
    <3>1. execution'[m] = execution[m] \/ {execution[m], execution'[m]} \cap Verdicts = {}
      BY <2>3 DEF Settles
    <3>2. \A i \in New(ConvOf[m]) : ~VerdictAt(ConvOf[m], i, m)'
      BY <1>3, <2>1, <2>3 DEF VerdictAt
    <3>3. QED
      BY <3>1, <3>2 DEF VerdictStep
  <2>4. QED
    BY <2>2, <2>3
<1>6. Told(T, status, tell)
  BY <1>4 DEF Told
<1>7. QED
  BY <1>1, <1>2, <1>5, <1>6

\* A transaction that blocks and cancels messages and ends with an event that
\* may be written.
LEMMA SettleStep ==
  ASSUME IInv, TypeOK', JobsQueued', NEW T, NEW status, NEW tell, NEW tail,
         Settles(T, status, tell, tail),
         \A m \in T : status[m] \in {"blocked", "cancelled"},
         UNCHANGED <<accepting, message, snapshot, queue_sequence>>,
         \A m \in Messages : execution'[m] = "none" <=> execution[m] = "none",
         \A d \in Conversations :
           /\ conv[d].control_version <= conv'[d].control_version
           /\ conv'[d].control_mode = "human" =>
                /\ conv[d].control_mode = "human"
                /\ Len(tail[d]) = 1 => tail[d][1].type \notin Switch
           /\ Len(tail[d]) = 1 => EventStep(d, Len(events'[d]))
  PROVE  IInv' /\ LogStep
<1>1. LogExtends /\ \A m \in Messages : VerdictStep(m)
  BY SettledVerdicts DEF IInv
<1>2. \A m \in Messages : QueueStep(m)
  BY DEF QueueStep
<1>3. ASSUME NEW d \in Conversations, NEW i \in New(d)
      PROVE  \/ events'[d][i].type \in {"blocked", "cancelled"}
             \/ i = Len(events'[d]) /\ Len(tail[d]) = 1 /\ events'[d][i] = tail[d][1]
  <2>1. Added(d, T, status, tell[d], tail[d])
    BY SettledLog DEF IInv
  <2>2. CASE /\ i - Len(events[d]) \in 1..Len(tell[d])
             /\ events'[d][i] = tell[d][i - Len(events[d])]
    <3>1. PICK m \in T : tell[d][i - Len(events[d])] = Event(status[m], m)
      BY <2>1, <2>2 DEF Added
    <3>2. QED
      BY <2>2, <3>1, EventFields
  <2>3. CASE i = Len(events[d]) + Len(tell[d]) + 1 /\ Len(tail[d]) = 1
             /\ events'[d][i] = tail[d][1]
    BY <2>1, <2>3 DEF Added
  <2>4. QED
    BY <2>1, <2>2, <2>3 DEF Added
<1>4. ASSUME NEW d \in Conversations
      PROVE  ControlStep(d)
  BY <1>3 DEF ControlStep, Switch
<1>5. ASSUME NEW d \in Conversations, NEW i \in New(d)
      PROVE  EventStep(d, i)
  <2>1. CASE events'[d][i].type \in {"blocked", "cancelled"}
    BY <2>1 DEF EventStep, Switch
  <2>2. QED
    BY <1>3, <2>1
<1>6. LogStep
  BY <1>1, <1>2, <1>4, <1>5 DEF LogStep
<1>7. AcceptingNew'
  BY DEF IInv, AcceptingNew
<1>8. \A m \in Messages : message'[m] = "none" => execution'[m] = "none"
  BY DEF IInv, QueuedInLog
<1>9. QED
  BY <1>6, <1>7, <1>8, LogStepKeeps

\* Closing a session settles what was open in it.
LEMMA ResetSessionKeeps ==
  ASSUME IInv, NEW c \in Conversations, NEW next \in Conversations \cup {FreshSession},
         ResetSession(c, next)
  PROVE  IInv' /\ LogStep
<1> DEFINE open == {m \in Messages : ConvOf[m] = c /\ execution[m] \in {"queued", "running"}}
           status == [m \in Messages |-> IF m \notin open THEN execution[m]
                                       ELSE IF execution[m] = "running" THEN "blocked"
                                       ELSE "cancelled"]
           tell == [d \in Conversations |-> IF d = c THEN Notices(c, open, status) ELSE <<>>]
           tail == [d \in Conversations |-> IF d = c THEN <<Event("closed", None)>> ELSE <<>>]
<1>1. /\ conv' = [conv EXCEPT ![c].control_mode = "closed",
                              ![c].control_version = conv[c].control_version + 1,
                              ![c].assigned_admin = NoAdmin]
      /\ execution' = status
      /\ lease_owner' = [m \in Messages |-> IF m \in open THEN None ELSE lease_owner[m]]
      /\ lease' = [m \in Messages |-> IF m \in open THEN "null" ELSE lease[m]]
      /\ events' = [events EXCEPT
           ![c] = @ \o Notices(c, open, status) \o <<Event("closed", None)>>]
      /\ UNCHANGED <<accepting, message, snapshot, queue_sequence, pc, job>>
  BY DEF ResetSession, workerVars
<1>2. \A m \in open : /\ m \in Messages /\ execution[m] \in {"queued", "running"}
                      /\ status[m] \in {"blocked", "cancelled"}
  OBVIOUS
<1>3. \A m \in Messages : m \notin open => status[m] = execution[m]
  OBVIOUS
<1>4. \A m \in open : ConvOf[m] = c
  OBVIOUS
<1>5. status \in [Messages -> ExecutionStatuses]
  BY <1>2, <1>3 DEF IInv, TypeOK, ExecutionStatuses
<1> HIDE DEF open, status
<1>6. Tells(Notices(c, open, status), c, open, status)
  <2>1. \A m \in open : execution[m] # "none" /\ status[m] \in Verdicts
    BY <1>2 DEF Verdicts
  <2>2. open \in SUBSET Messages
    BY DEF open
  <2>3. QED
    BY <2>1, <2>2, NoticesTell
<1>7. ASSUME NEW d \in Conversations
      PROVE  Tells(tell[d], d, open, status)
  <2>1. CASE d = c
    BY <1>6, <2>1
  <2>2. CASE d # c
    <3>1. tell[d] = <<>>
      BY <2>2
    <3>2. \A m \in open : ConvOf[m] # d
      BY <1>4, <2>2
    <3>3. Tells(<<>>, d, open, status)
      BY <3>2 DEF Tells
    <3>4. QED
      BY <3>1, <3>3
  <2>3. QED
    BY <2>1, <2>2
<1>8. ASSUME NEW d \in Conversations
      PROVE  /\ tail[d] \in Seq(Events) /\ Len(tail[d]) \in {0, 1}
             /\ Len(tail[d]) = 1 => d = c /\ tail[d][1] = Event("closed", None)
  <2>1. Event("closed", None) \in Events
    BY DEF Event, Events, EventTypes
  <2>2. CASE d = c
    BY <2>1, <2>2
  <2>3. CASE d # c
    BY <2>3
  <2>4. QED
    BY <2>2, <2>3
<1>9. events' = [d \in Conversations |-> events[d] \o tell[d] \o tail[d]]
  <2>1. events'[c] = events[c] \o tell[c] \o tail[c]
    BY <1>1 DEF IInv, TypeOK
  <2>2. ASSUME NEW d \in Conversations, d # c
        PROVE  events'[d] = events[d] \o tell[d] \o tail[d]
    <3>1. tell[d] = <<>> /\ tail[d] = <<>> /\ events'[d] = events[d]
      BY <1>1, <2>2 DEF IInv, TypeOK
    <3>2. events[d] \in Seq(Events)
      BY DEF IInv, TypeOK
    <3>3. events[d] \o <<>> = events[d]
      BY <3>2, ConcatEmptySeq
    <3>4. QED
      BY <3>1, <3>3
  <2>3. events' \in [Conversations -> {events'[d] : d \in Conversations}]
    BY <1>1 DEF IInv, TypeOK
  <2>4. QED
    BY <2>1, <2>2, <2>3
<1> HIDE DEF tell, tail
<1>10. Settles(open, status, tell, tail)
  <2>1. open \subseteq Messages
    BY DEF open
  <2>2. \A d \in Conversations : Len(tail[d]) = 1 => tail[d][1].type \notin Verdicts
    BY <1>8, EventFields DEF Verdicts
  <2>3. \A m \in open : status[m] \in Verdicts
    BY <1>2 DEF Verdicts
  <2>4. QED
    BY <1>1, <1>2, <1>3, <1>7, <1>8, <1>9, <2>1, <2>2, <2>3 DEF Settles
<1>11. /\ conv' \in [Conversations -> Conversation]
       /\ conv'[c].control_mode = "closed"
       /\ conv'[c].control_version = conv[c].control_version + 1
       /\ \A d \in Conversations \ {c} : conv'[d] = conv[d]
  BY <1>1 DEF IInv, TypeOK, Conversation, Modes
<1>12. events' \in [Conversations -> Seq(Events)]
  BY <1>10, SettledVerdicts DEF IInv
<1>13. TypeOK'
  BY <1>1, <1>5, <1>11, <1>12 DEF IInv, TypeOK
<1>14. \A m \in Messages : execution'[m] = "none" <=> execution[m] = "none"
  BY <1>1, <1>2, <1>3
<1>15. JobsQueued'
  BY <1>1, <1>14 DEF IInv, JobsQueued
<1>16. ASSUME NEW d \in Conversations
       PROVE  /\ conv[d].control_version <= conv'[d].control_version
              /\ conv'[d].control_mode = "human" =>
                   /\ conv[d].control_mode = "human"
                   /\ Len(tail[d]) = 1 => tail[d][1].type \notin Switch
              /\ Len(tail[d]) = 1 => conv[d].control_version < conv'[d].control_version
  <2>1. conv[d].control_version \in Nat
    BY DEF IInv, TypeOK, Conversation
  <2>2. QED
    BY <1>8, <1>11, <2>1
<1>17. ASSUME NEW d \in Conversations, Len(tail[d]) = 1
       PROVE  EventStep(d, Len(events'[d]))
  <2>1. Added(d, open, status, tell[d], tail[d])
    BY <1>10, SettledLog DEF IInv
  <2>2. events'[d][Len(events'[d])] = tail[d][1]
    BY <1>17, <2>1 DEF Added
  <2>3. events'[d][Len(events'[d])].type = "closed"
    BY <1>8, <1>17, <2>2, EventFields
  <2>4. QED
    BY <1>16, <1>17, <2>3 DEF EventStep
<1>18. QED
  BY <1>1, <1>2, <1>10, <1>13, <1>14, <1>15, <1>16, <1>17, SettleStep

-----------------------------------------------------------------------------
(* The claim, with the recovery and the cancellations before it.            *)

\* What the sweep of a claim tells.
SweptNotices(R, S) ==
  [d \in Conversations |-> Notices(d, R, SweptExecution(R, S))
                              \o Notices(d, S, SweptExecution(R, S))]

\* A step that sweeps R and S and goes on to write the events of tail.
Sweeps(R, S, tail) ==
  /\ R \subseteq StaleLeases
  /\ S \subseteq {m \in Messages : execution[m] = "queued"}
  /\ \A d \in Conversations :
       /\ tail[d] \in Seq(Events) /\ Len(tail[d]) \in {0, 1}
       /\ Len(tail[d]) = 1 => tail[d][1].type \notin Verdicts
  /\ events' = [d \in Conversations |-> SweptEvents(R, S)[d] \o tail[d]]
  /\ \A m \in R \cup S : execution'[m] = SweptExecution(R, S)[m]
  /\ \A m \in Messages : m \notin R \cup S =>
       execution'[m] = execution[m] \/ {execution[m], execution'[m]} \cap Verdicts = {}

\* The sweep settles the executions it recovers and those it cancels.
LEMMA SweepSettles ==
  ASSUME IInv, NEW R, NEW S, NEW tail, Sweeps(R, S, tail)
  PROVE  /\ Settles(R \cup S, SweptExecution(R, S), SweptNotices(R, S), tail)
         /\ \A m \in R \cup S : SweptExecution(R, S)[m] \in {"blocked", "cancelled"}
<1> DEFINE status == SweptExecution(R, S)
<1>1. /\ R \in SUBSET Messages /\ S \in SUBSET Messages /\ R \cap S = {}
      /\ \A m \in R \cup S : execution[m] \in {"queued", "running"}
  BY DEF Sweeps, StaleLeases
<1>2. \A m \in R \cup S : status[m] \in {"blocked", "cancelled"}
  BY <1>1 DEF SweptExecution
<1> HIDE DEF status
<1>3. ASSUME NEW d \in Conversations
      PROVE  /\ Tells(SweptNotices(R, S)[d], d, R \cup S, status)
             /\ SweptEvents(R, S)[d] \o tail[d] = events[d] \o SweptNotices(R, S)[d] \o tail[d]
  <2> DEFINE n == Notices(d, R, status)
             p == Notices(d, S, status)
  <2>1. Tells(n, d, R, status)
    <3>1. \A m \in R : execution[m] # "none" /\ status[m] \in Verdicts
      BY <1>1, <1>2 DEF Verdicts
    <3>2. QED
      BY <1>1, <3>1, NoticesTell
  <2>2. Tells(p, d, S, status)
    <3>1. \A m \in S : execution[m] # "none" /\ status[m] \in Verdicts
      BY <1>1, <1>2 DEF Verdicts
    <3>2. QED
      BY <1>1, <3>1, NoticesTell
  <2>3. SweptNotices(R, S)[d] = n \o p /\ SweptEvents(R, S)[d] = (events[d] \o n) \o p
    BY DEF SweptNotices, SweptEvents, status
  <2> HIDE DEF n, p
  <2>4. Tells(n \o p, d, R \cup S, status)
    BY <1>1, <2>1, <2>2, BothTell
  <2>5. n \in Seq(Events) /\ p \in Seq(Events) /\ events[d] \in Seq(Events)
    BY <2>1, <2>2 DEF Tells, IInv, TypeOK
  <2>6. (events[d] \o n) \o p = events[d] \o (n \o p)
    <3>1. \A x, y, z \in Seq(Events) : (x \o y) \o z = x \o (y \o z)
      BY ConcatAssociative
    <3>2. QED
      BY <2>5, <3>1
  <2>7. QED
    BY <2>3, <2>4, <2>6
<1>4. events' = [d \in Conversations |-> events[d] \o SweptNotices(R, S)[d] \o tail[d]]
  BY <1>3 DEF Sweeps
<1>5. \A m \in R \cup S : status[m] \in Verdicts
  BY <1>2 DEF Verdicts
<1>6. QED
  BY <1>1, <1>2, <1>3, <1>4, <1>5 DEF Settles, Sweeps, status

\* The rows the sweep leaves.
LEMMA SweptTypes ==
  ASSUME TypeOK, NEW R \in SUBSET StaleLeases,
         NEW S \in SUBSET {m \in Messages : execution[m] = "queued"}
  PROVE  /\ SweptExecution(R, S) \in [Messages -> ExecutionStatuses]
         /\ SweptLease(R, lease_owner, None) \in [Messages -> Workers \cup {None}]
         /\ SweptLease(R, lease, "null") \in [Messages -> {"live", "expired", "null"}]
         /\ \A m \in Messages : m \notin R \cup S => SweptExecution(R, S)[m] = execution[m]
         /\ \A m \in Messages : SweptExecution(R, S)[m] = "none" <=> execution[m] = "none"
<1>1. SweptLease(R, lease_owner, None) \in [Messages -> Workers \cup {None}]
  BY DEF TypeOK, SweptLease
<1>2. SweptLease(R, lease, "null") \in [Messages -> {"live", "expired", "null"}]
  BY DEF TypeOK, SweptLease
<1>3. \A m \in Messages : ~(m \in R /\ m \in S)
  BY DEF StaleLeases
<1>4. \A m \in Messages : /\ m \in R => SweptExecution(R, S)[m] = "blocked"
                          /\ m \in S => SweptExecution(R, S)[m] = "cancelled"
                          /\ m \notin R \cup S => SweptExecution(R, S)[m] = execution[m]
  BY <1>3 DEF SweptExecution
<1>5. SweptExecution(R, S) \in [Messages -> ExecutionStatuses]
  <2>1. \A m \in Messages : SweptExecution(R, S)[m] \in ExecutionStatuses
    BY <1>4 DEF TypeOK, ExecutionStatuses
  <2>2. QED
    BY <2>1 DEF SweptExecution
<1>6. \A m \in R \cup S : execution[m] # "none"
  BY DEF StaleLeases
<1>7. QED
  BY <1>1, <1>2, <1>4, <1>5, <1>6

\* The log the sweep leaves.
LEMMA SweptEventsTyped ==
  ASSUME IInv, NEW R \in SUBSET StaleLeases,
         NEW S \in SUBSET {m \in Messages : execution[m] = "queued"},
         NEW d \in Conversations
  PROVE  SweptEvents(R, S)[d] \in Seq(Events)
<1>1. R \in SUBSET Messages /\ S \in SUBSET Messages
  BY DEF StaleLeases
<1>2. \A m \in R : execution[m] # "none" /\ SweptExecution(R, S)[m] \in Verdicts
  BY DEF StaleLeases, SweptExecution, Verdicts
<1>3. \A m \in S : execution[m] # "none" /\ SweptExecution(R, S)[m] \in Verdicts
  BY DEF StaleLeases, SweptExecution, Verdicts
<1>4. Notices(d, R, SweptExecution(R, S)) \in Seq(Events)
  BY <1>1, <1>2, NoticesTell DEF Tells
<1>5. Notices(d, S, SweptExecution(R, S)) \in Seq(Events)
  BY <1>1, <1>3, NoticesTell DEF Tells
<1>6. events[d] \in Seq(Events)
  BY DEF IInv, TypeOK
<1>7. QED
  BY <1>4, <1>5, <1>6 DEF SweptEvents

\* A claim that finds no head.
LEMMA ClaimNothingKeeps ==
  ASSUME IInv, NEW w \in Workers, NEW R \in SUBSET StaleLeases,
         NEW S \in SUBSET {m \in Messages : execution[m] = "queued"}, ClaimNothing(w, R, S)
  PROVE  IInv' /\ LogStep
<1> DEFINE tail == [d \in Conversations |-> <<>>]
<1>0. ASSUME NEW d \in Conversations
      PROVE  tail[d] \in Seq(Events) /\ Len(tail[d]) \in {0, 1} /\ Len(tail[d]) # 1
  OBVIOUS
<1>1. /\ execution' = SweptExecution(R, S)
      /\ lease_owner' = SweptLease(R, lease_owner, None)
      /\ lease' = SweptLease(R, lease, "null")
      /\ events' = SweptEvents(R, S)
      /\ UNCHANGED <<conv, accepting, message, snapshot, queue_sequence, pc, job>>
  BY DEF ClaimNothing, workerVars
<1>2. \A d \in Conversations : tail[d] = <<>>
  OBVIOUS
<1> HIDE DEF tail
<1>3. events' = [d \in Conversations |-> SweptEvents(R, S)[d] \o tail[d]]
  <2>1. ASSUME NEW d \in Conversations
        PROVE  SweptEvents(R, S)[d] \o <<>> = SweptEvents(R, S)[d]
    <3>1. SweptEvents(R, S)[d] \in Seq(Events)
      BY SweptEventsTyped
    <3>2. QED
      BY <3>1, ConcatEmptySeq
  <2>2. QED
    BY <1>1, <1>2, <2>1 DEF SweptEvents
<1>4. /\ SweptExecution(R, S) \in [Messages -> ExecutionStatuses]
      /\ SweptLease(R, lease_owner, None) \in [Messages -> Workers \cup {None}]
      /\ SweptLease(R, lease, "null") \in [Messages -> {"live", "expired", "null"}]
      /\ \A m \in Messages : m \notin R \cup S => SweptExecution(R, S)[m] = execution[m]
      /\ \A m \in Messages : SweptExecution(R, S)[m] = "none" <=> execution[m] = "none"
  BY SweptTypes DEF IInv
<1>5. /\ Settles(R \cup S, SweptExecution(R, S), SweptNotices(R, S), tail)
      /\ \A m \in R \cup S : SweptExecution(R, S)[m] \in {"blocked", "cancelled"}
  <2>1. \A d \in Conversations :
          /\ tail[d] \in Seq(Events) /\ Len(tail[d]) \in {0, 1}
          /\ Len(tail[d]) = 1 => tail[d][1].type \notin Verdicts
    BY <1>0
  <2>2. /\ R \subseteq StaleLeases
        /\ S \subseteq {m \in Messages : execution[m] = "queued"}
    OBVIOUS
  <2>3. Sweeps(R, S, tail)
    BY <1>1, <1>3, <1>4, <2>1, <2>2 DEF Sweeps
  <2>4. QED
    BY <2>3, SweepSettles
<1>6. events' \in [Conversations -> Seq(Events)]
  BY <1>5, SettledVerdicts DEF IInv
<1>7. TypeOK'
  BY <1>1, <1>4, <1>6 DEF IInv, TypeOK
<1>8. JobsQueued'
  BY <1>1, <1>4 DEF IInv, JobsQueued
<1>9. \A d \in Conversations : conv[d].control_version <= conv'[d].control_version
  BY <1>1 DEF IInv, TypeOK, Conversation
<1>10. \A d \in Conversations : Len(tail[d]) # 1
  BY <1>0
<1>11. QED
  BY <1>1, <1>4, <1>5, <1>7, <1>8, <1>9, <1>10, SettleStep

\* A head is claimed once every message queued before it has its verdict.
LEMMA ClaimHeadKeeps ==
  ASSUME IInv, NEW w \in Workers, NEW R \in SUBSET StaleLeases,
         NEW S \in SUBSET {m \in Messages : execution[m] = "queued"},
         NEW head \in Messages, ClaimHead(w, R, S, head)
  PROVE  IInv' /\ LogStep
<1> DEFINE c == ConvOf[head]
           e == Event("running", head)
           tail == [d \in Conversations |-> IF d = c THEN <<e>> ELSE <<>>]
           T == R \cup S
           status == SweptExecution(R, S)
           tell == SweptNotices(R, S)
<1>1. /\ EligibleHead(head, T) /\ Current(head)
      /\ execution' = [status EXCEPT ![head] = "running"]
      /\ lease_owner' = [SweptLease(R, lease_owner, None) EXCEPT ![head] = w]
      /\ lease' = [SweptLease(R, lease, "null") EXCEPT ![head] = "live"]
      /\ events' = [SweptEvents(R, S) EXCEPT ![c] = Append(@, e)]
      /\ pc' = [pc EXCEPT ![w] = "claimed"] /\ job' = [job EXCEPT ![w] = head]
      /\ UNCHANGED <<conv, accepting, message, snapshot, queue_sequence>>
  BY DEF ClaimHead
<1>2. c \in Conversations /\ e \in Events /\ e.type = "running" /\ e.of = head
  BY WebAssumption, EventFields DEF Event, Events, EventTypes
<1>3. head \notin T /\ execution[head] = "queued" /\ ~HeldBack(head, T)
  BY <1>1 DEF EligibleHead
<1> HIDE DEF e, c
<1>4. /\ tail[c] = <<e>>
      /\ \A d \in Conversations : d # c => tail[d] = <<>>
  BY <1>2
<1>5. /\ Len(tail[c]) = 1 /\ tail[c][1] = e
      /\ \A d \in Conversations : tail[d] \in Seq(Events) /\ Len(tail[d]) \in {0, 1}
      /\ \A d \in Conversations : d # c => Len(tail[d]) = 0
  BY <1>2, <1>4
<1> HIDE DEF tail
<1>6. \A d \in Conversations : SweptEvents(R, S)[d] \in Seq(Events)
  BY SweptEventsTyped
<1>7. events' = [d \in Conversations |-> SweptEvents(R, S)[d] \o tail[d]]
  <2>1. Append(SweptEvents(R, S)[c], e) = SweptEvents(R, S)[c] \o <<e>>
    BY <1>2, <1>6, AppendIsConcat
  <2>2. \A d \in Conversations : SweptEvents(R, S)[d] \o <<>> = SweptEvents(R, S)[d]
    BY <1>6, ConcatEmptySeq
  <2>3. DOMAIN SweptEvents(R, S) = Conversations
    BY DEF SweptEvents
  <2> DEFINE f == SweptEvents(R, S)
  <2>4. f = [d \in Conversations |-> f[d]]
    BY DEF SweptEvents
  <2> HIDE DEF f
  <2>5. events' = [f EXCEPT ![c] = Append(@, e)]
    BY <1>1 DEF f
  <2>6. QED
    BY <1>2, <1>4, <2>1, <2>2, <2>4, <2>5 DEF f
<1>8. /\ status \in [Messages -> ExecutionStatuses]
      /\ SweptLease(R, lease_owner, None) \in [Messages -> Workers \cup {None}]
      /\ SweptLease(R, lease, "null") \in [Messages -> {"live", "expired", "null"}]
      /\ \A m \in Messages : m \notin T => status[m] = execution[m]
      /\ \A m \in Messages : status[m] = "none" <=> execution[m] = "none"
  BY SweptTypes DEF IInv
<1> HIDE DEF status, tell
<1>9. T \subseteq Messages
  BY DEF StaleLeases
<1> HIDE DEF T
<1>10. /\ execution'[head] = "running"
       /\ \A m \in Messages : m # head => execution'[m] = status[m]
       /\ execution' \in [Messages -> ExecutionStatuses]
  BY <1>1, <1>8 DEF ExecutionStatuses
<1>11. /\ Settles(T, status, tell, tail)
       /\ \A m \in T : status[m] \in {"blocked", "cancelled"}
  <2>1. \A d \in Conversations : Len(tail[d]) = 1 => tail[d][1].type \notin Verdicts
    BY <1>2, <1>5 DEF Verdicts
  <2>2. \A m \in T : execution'[m] = status[m]
    BY <1>3, <1>9, <1>10
  <2>3. \A m \in Messages : m \notin T =>
          execution'[m] = execution[m] \/ {execution[m], execution'[m]} \cap Verdicts = {}
    BY <1>3, <1>8, <1>10 DEF Verdicts
  <2>4. /\ R \subseteq StaleLeases
        /\ S \subseteq {m \in Messages : execution[m] = "queued"}
    OBVIOUS
  <2>5. Sweeps(R, S, tail)
    BY <1>5, <1>7, <2>1, <2>2, <2>3, <2>4 DEF Sweeps, T, status
  <2>6. QED
    BY <2>5, SweepSettles DEF T, status, tell
<1>12. events' \in [Conversations -> Seq(Events)] /\ Told(T, status, tell)
  BY <1>11, SettledVerdicts DEF IInv
<1>13. TypeOK'
  BY <1>1, <1>8, <1>10, <1>12 DEF IInv, TypeOK
<1>14. \A m \in Messages : execution'[m] = "none" <=> execution[m] = "none"
  BY <1>3, <1>8, <1>10
<1>15. JobsQueued'
  BY <1>1, <1>3, <1>14 DEF IInv, TypeOK, JobsQueued
<1>16. \A d \in Conversations : conv[d].control_version <= conv'[d].control_version
  BY <1>1 DEF IInv, TypeOK, Conversation
<1>17. \A d \in Conversations : Added(d, T, status, tell[d], tail[d])
  BY <1>11, SettledLog DEF IInv
<1> DEFINE last == Len(events'[c])
           a == Len(events[c])
           b == Len(tell[c])
<1>18. Added(c, T, status, tell[c], tail[c])
  BY <1>2, <1>17
<1>19. a \in Nat /\ b \in Nat /\ last = a + b + 1 /\ events'[c][a + b + 1] = e
  BY <1>5, <1>18 DEF Added
<1>20. \A i \in 1..a : events'[c][i] = events[c][i]
  BY <1>18 DEF Added
<1> HIDE DEF last, a, b
<1>21. /\ \A i \in 1..a : i \in 1..last
       /\ \A i \in (a + 1)..(a + b) : i \in 1..last
  BY <1>19
<1>22. ASSUME NEW k \in New(c)
       PROVE  events'[c][k].type \notin Switch
  <2>1. Added(c, T, status, tell[c], tail[c])
    BY <1>18
  <2>2. CASE /\ k - Len(events[c]) \in 1..Len(tell[c])
             /\ events'[c][k] = tell[c][k - Len(events[c])]
    <3>1. PICK m \in T : tell[c][k - Len(events[c])] = Event(status[m], m)
      BY <2>1, <2>2 DEF Added
    <3>2. QED
      BY <1>11, <2>2, <3>1, EventFields DEF Switch
  <2>3. CASE events'[c][k] = tail[c][1]
    BY <1>2, <1>5, <2>3 DEF Switch
  <2>4. QED
    BY <2>1, <2>2, <2>3 DEF Added
<1>23. ASSUME NEW f \in Messages, Earlier(f, head)
       PROVE  \E j \in 1..last : \E t \in Verdicts : events'[c][j] = Event(t, f)
  <2>1. ConvOf[f] = c /\ queue_sequence[f] # 0
    BY <1>23 DEF Earlier, c
  <2>2. CASE f \in T
    <3>1. PICK i \in (a + 1)..(a + b) : events'[c][i] = Event(status[f], f)
      BY <1>12, <2>1, <2>2 DEF Told, a, b
    <3>2. i \in 1..last
      BY <1>21, <3>1
    <3>3. status[f] \in Verdicts
      BY <1>11, <2>2 DEF Verdicts
    <3>4. QED
      BY <3>1, <3>2, <3>3
  <2>3. CASE f \notin T
    <3>1. execution[f] \notin Blocking
      BY <1>3, <1>23, <2>3 DEF HeldBack
    <3>2. execution[f] # "none"
      BY <2>1 DEF IInv, QueuedInLog
    <3>3. execution[f] \in Verdicts
      BY <3>1, <3>2 DEF IInv, TypeOK, ExecutionStatuses, Blocking, Verdicts
    <3>4. PICK i \in 1..a : events[c][i] = Event(execution[f], f)
      BY <2>1, <3>3 DEF IInv, Decided, At, a
    <3>5. i \in 1..last /\ events'[c][i] = Event(execution[f], f)
      BY <1>20, <1>21, <3>4
    <3>6. QED
      BY <3>3, <3>5
  <2>4. QED
    BY <2>2, <2>3
<1>24. EventStep(c, last)
  <2>1. queue_sequence[head] # 0
    BY <1>3 DEF IInv, QueuedInLog
  <2>2. events'[c][last].type = "running" /\ events'[c][last].of = head
    BY <1>2, <1>19 DEF last
  <2>3. ConvOf[head] = c
    BY DEF c
  <2>4. QED
    BY <1>1, <1>22, <1>23, <2>1, <2>2, <2>3 DEF EventStep, Switch
<1>25. ASSUME NEW d \in Conversations
       PROVE  /\ conv[d].control_version <= conv'[d].control_version
              /\ conv'[d].control_mode = "human" =>
                   /\ conv[d].control_mode = "human"
                   /\ Len(tail[d]) = 1 => tail[d][1].type \notin Switch
              /\ Len(tail[d]) = 1 => EventStep(d, Len(events'[d]))
  <2>1. Len(tail[d]) = 1 => d = c
    BY <1>5
  <2>2. tail[c][1].type \notin Switch
    BY <1>2, <1>5 DEF Switch
  <2>3. conv' = conv
    BY <1>1
  <2>4. QED
    BY <1>16, <1>24, <2>1, <2>2, <2>3 DEF last
<1>26. QED
  BY <1>1, <1>11, <1>13, <1>14, <1>15, <1>25, SettleStep

-----------------------------------------------------------------------------
(* The theorems.                                                            *)

\* An empty log and no message.
LEMMA InitHolds == ASSUME Init PROVE IInv
<1>1. conv \in [Conversations -> Conversation]
  BY InitialType DEF Init
<1>2. \A c \in Conversations : events[c] = <<>> /\ conv[c].control_mode # "human"
  BY DEF Init, ControlInit, InitialConversation
<1>3. TypeOK
  <2>1. [control_version |-> 0, automation_agent |-> None, automation_version |-> 0] \in Epoch
    BY DEF Epoch
  <2>2. QED
    BY <1>1, <2>1 DEF Init, TypeOK, ExecutionStatuses
<1>4. \A m \in Messages : /\ ConvOf[m] \in Conversations
                          /\ execution[m] = "none" /\ queue_sequence[m] = 0
  BY WebAssumption DEF Init
<1>5. Len(<<>>) = 0 /\ DOMAIN <<>> = {} /\ 1..0 = {}
  OBVIOUS
<1>6. QueuedInLog /\ Decided
  BY <1>2, <1>4, <1>5 DEF QueuedInLog, Decided, Verdicts
<1>7. FencedSince /\ HumanSince /\ AnsweredInOrder /\ TranscriptFollowsControl
  BY <1>2, <1>4, <1>5 DEF FencedSince, HumanSince, AnsweredInOrder, Earlier,
                          TranscriptFollowsControl
<1>8. AcceptingNew /\ JobsQueued
  BY DEF Init, AcceptingNew, JobsQueued
<1>9. QED
  BY <1>3, <1>6, <1>7, <1>8 DEF IInv

\* What a worker does with its claim.
LEMMA ExecuteKeeps ==
  ASSUME IInv, NEW w \in Workers, Execute(w)
  PROVE  IInv' /\ LogStep
<1>1. ASSUME Begin(w) PROVE IInv' /\ LogStep
  BY <1>1, GotoKeeps, AbandonKeeps DEF Begin
<1>2. ASSUME Guard(w) PROVE IInv' /\ LogStep
  BY <1>2, GotoKeeps, AbandonKeeps DEF Guard
<1>3. ASSUME PrepareFails(w) \/ AgentRaises(w) \/ HttpTool(w) PROVE IInv' /\ LogStep
  BY <1>3, GotoKeeps DEF PrepareFails, AgentRaises, HttpTool
<1>4. ASSUME ContactTool(w) PROVE IInv' /\ LogStep
  BY <1>4, ContactToolKeeps
<1>5. ASSUME Finish(w) PROVE IInv' /\ LogStep
  BY <1>5, RecordKeeps DEF Finish
<1>6. QED
  BY <1>1, <1>2, <1>3, <1>4, <1>5 DEF Execute

\* Every step keeps the invariant and adds to the log only what is true.
LEMMA NextKeeps ==
  ASSUME IInv, Next
  PROVE  IInv' /\ LogStep
<1>1. ASSUME Visit PROVE IInv' /\ LogStep
  BY <1>1, AcceptReadsKeeps, AcceptQueuesKeeps, AcceptRefusedKeeps, AcceptForOperatorKeeps,
     ResetSessionKeeps DEF Visit
<1>2. ASSUME Operate PROVE IInv' /\ LogStep
  BY <1>2, ControlTransitionKeeps, AutomationAssignKeeps, OperatorReplyKeeps DEF Operate
<1>3. ASSUME NEW w \in Workers, Claim(w) PROVE IInv' /\ LogStep
  BY <1>3, ClaimHeadKeeps, ClaimNothingKeeps DEF Claim
<1>4. ASSUME NEW w \in Workers, WorkerDies(w) PROVE IInv' /\ LogStep
  BY <1>4, AbandonKeeps DEF WorkerDies
<1>5. ASSUME NEW m \in Messages, LeaseExpires(m) PROVE IInv' /\ LogStep
  BY <1>5, LeaseExpiresKeeps
<1>6. QED
  BY <1>1, <1>2, <1>3, <1>4, <1>5, ExecuteKeeps DEF Next

\* The inductive invariant holds in every state.
THEOREM Invariance == Spec => []IInv
<1>1. Init => IInv
  BY InitHolds
<1>2. IInv /\ [Next]_vars => IInv'
  <2>1. ASSUME IInv, UNCHANGED vars PROVE IInv'
    <3>1. TypeOK' /\ JobsQueued'
      BY <2>1 DEF IInv, TypeOK, JobsQueued, vars, rowVars, workerVars
    <3>2. QED
      BY <2>1, <3>1, WorkerQuiet DEF vars, rowVars, workerVars
  <2>2. QED
    BY <2>1, NextKeeps
<1>3. QED
  BY <1>1, <1>2, PTL DEF Spec

\* Every row, claim and event of the web channel stays within its type.
THEOREM TypeCorrect == Spec => []TypeOK
<1>1. IInv => TypeOK
  BY DEF IInv
<1>2. QED
  BY <1>1, Invariance, PTL

\* A queued message gets one verdict, the one its row keeps, whichever worker,
\* recovery or session reset decided it (record_outcome, recover_stale_leases,
\* _close_session).
THEOREM VerdictIsFinal == Spec => []OneVerdict
<1>1. IInv => OneVerdict
  <2> SUFFICES ASSUME IInv, NEW m \in Messages
               PROVE  LET c == ConvOf[m]
                          seen == {i \in DOMAIN events[c] : \E t \in Verdicts : At(c, i, t, m)} IN
                      /\ execution[m] \in Verdicts <=> seen # {}
                      /\ \A i \in seen : /\ At(c, i, execution[m], m)
                                         /\ seen = {i}
                                         /\ queue_sequence[m] \in 1..i
                                         /\ At(c, queue_sequence[m], "accepted", m)
    BY DEF OneVerdict
  <2> DEFINE c == ConvOf[m]
             seen == {i \in DOMAIN events[c] : \E t \in Verdicts : At(c, i, t, m)}
  <2>1. c \in Conversations
    BY WebAssumption
  <2>2. DOMAIN events[c] = 1..Len(events[c]) /\ Len(events[c]) \in Nat
    BY <2>1, LogTyped DEF IInv
  <2> HIDE DEF c
  <2>3. \A i \in seen : i \in 1..Len(events[c]) /\ VerdictAt(c, i, m)
    BY <2>2, EventFields DEF At, VerdictAt
  <2>4. CASE execution[m] \in Verdicts
    <3>1. PICK i \in 1..Len(events[c]) :
                 /\ At(c, i, execution[m], m) /\ queue_sequence[m] < i
                 /\ \A k \in 1..Len(events[c]) : VerdictAt(c, k, m) => k = i
      BY <2>4 DEF IInv, Decided, c
    <3>2. seen = {i}
      BY <2>2, <2>3, <2>4, <3>1
    <3>3. queue_sequence[m] # 0 /\ queue_sequence[m] \in Nat
      BY <2>4 DEF IInv, TypeOK, QueuedInLog, Verdicts
    <3>4. At(c, queue_sequence[m], "accepted", m)
      BY <3>3 DEF IInv, QueuedInLog, c
    <3>5. queue_sequence[m] \in 1..i
      BY <2>2, <3>1, <3>3
    <3>6. QED
      BY <2>4, <3>1, <3>2, <3>4, <3>5 DEF c
  <2>5. CASE execution[m] \notin Verdicts
    <3>1. \A k \in 1..Len(events[c]) : ~VerdictAt(c, k, m)
      BY <2>5 DEF IInv, Decided, c
    <3>2. seen = {}
      BY <2>3, <3>1
    <3>3. QED
      BY <2>5, <3>2 DEF c
  <2>6. QED
    BY <2>4, <2>5
<1>2. QED
  BY <1>1, Invariance, PTL

\* A conversation is answered in the order it was asked (_eligible_statement),
\* whatever workers die and leases run out.
THEOREM InOrder == Spec => []AnsweredInOrder
<1>1. IInv => AnsweredInOrder
  BY DEF IInv
<1>2. QED
  BY <1>1, Invariance, PTL

\* The log respects whoever is in control: an execution speaks in the epoch of
\* its message only, an operator only under human control.
THEOREM EpochsKept == Spec => []TranscriptFollowsControl
<1>1. IInv => TranscriptFollowsControl
  BY DEF IInv
<1>2. QED
  BY <1>1, Invariance, PTL

\* What is asked or answered in an agent's name comes from the agent that acts
\* for the conversation at that moment (assert_execution_current).
THEOREM AgentsSpeakInTurn == Spec => ActingAgentSpeaks
<1> DEFINE Turn ==
      \A m \in Messages : \A i \in DOMAIN events'[ConvOf[m]] :
        /\ i \notin DOMAIN events[ConvOf[m]]
        /\ events'[ConvOf[m]][i] \in {Event("contact", m), Event("completed", m)}
        => /\ conv[ConvOf[m]].automation_agent = snapshot[m].automation_agent
           /\ conv[ConvOf[m]].automation_version = snapshot[m].automation_version
<1>1. IInv /\ [Next]_vars => [Turn]_vars
  <2> SUFFICES ASSUME IInv, Next PROVE Turn
    OBVIOUS
  <2>1. IInv' /\ LogStep
    BY NextKeeps
  <2> SUFFICES ASSUME NEW m \in Messages, NEW i \in DOMAIN events'[ConvOf[m]],
                      i \notin DOMAIN events[ConvOf[m]],
                      events'[ConvOf[m]][i] \in {Event("contact", m), Event("completed", m)}
               PROVE  Current(m)
    BY DEF Current
  <2>2. ConvOf[m] \in Conversations
    BY WebAssumption
  <2>3. DOMAIN events'[ConvOf[m]] = 1..Len(events'[ConvOf[m]])
    BY <2>1, <2>2 DEF IInv, TypeOK
  <2>4. DOMAIN events[ConvOf[m]] = 1..Len(events[ConvOf[m]])
    BY <2>2, LogTyped DEF IInv
  <2>5. i \in New(ConvOf[m])
    BY <2>1, <2>2, <2>3, <2>4, OldOrNew DEF IInv, LogStep
  <2>6. EventStep(ConvOf[m], i)
    BY <2>1, <2>2, <2>5 DEF LogStep
  <2>7. /\ events'[ConvOf[m]][i].type \in {"contact", "completed"}
        /\ events'[ConvOf[m]][i].of = m
    BY EventFields
  <2>8. QED
    BY <2>6, <2>7 DEF EventStep
<1>2. Spec => [][Turn]_vars
  BY <1>1, Invariance, PTL DEF Spec
<1>3. QED
  BY <1>2 DEF ActingAgentSpeaks
=============================================================================
