---------------------------- MODULE OutboundLane ----------------------------
(***************************************************************************)
(* What the outbox promises to those who put a message into it, without    *)
(* workers, claims, locks, epochs or rows: an ordered lane in front of an  *)
(* unreliable provider that is asked at most once for each message and     *)
(* never guessed about.                                                    *)
(* (docs/architecture/human-led-omnichannel-sales.md, "Delivery")          *)
(***************************************************************************)
EXTENDS Naturals

CONSTANTS
  Commands,
  Lanes,
  LaneOf     \* LaneOf[m]: the lane of message m

VARIABLES
  tail,      \* the next free place of each lane
  position,  \* place of each message in its lane, 0 outside
  outcome,   \* what its sender is told
  asked,     \* how often the provider was asked to send it
  sent       \* the messages the provider did send

vars == <<tail, position, outcome, asked, sent>>

\* What the machine knows, or a person ruled.
Final == {"sent", "refused", "dropped", "confirmed", "denied"}

Init ==
  /\ tail = [l \in Lanes |-> 1]
  /\ position = [m \in Commands |-> 0]
  /\ outcome = [m \in Commands |-> "absent"]
  /\ asked = [m \in Commands |-> 0]
  /\ sent = {}

Ahead(e, m) == LaneOf[e] = LaneOf[m] /\ outcome[e] # "absent" /\ position[e] < position[m]

\* A message enters behind everything that is in its lane.
Enter(m) ==
  /\ outcome[m] = "absent"
  /\ outcome' = [outcome EXCEPT ![m] = "pending"]
  /\ position' = [position EXCEPT ![m] = tail[LaneOf[m]]]
  /\ tail' = [tail EXCEPT ![LaneOf[m]] = @ + 1]
  /\ UNCHANGED <<asked, sent>>

\* The provider is asked once, when nothing ahead is open.
Ask(m) ==
  /\ outcome[m] = "pending"
  /\ asked[m] = 0
  /\ \A e \in Commands : Ahead(e, m) => outcome[e] \in Final
  /\ asked' = [asked EXCEPT ![m] = 1]
  /\ UNCHANGED <<tail, position, outcome, sent>>

\* The provider acts late, or never; not on what it has refused.
Act(m) ==
  /\ asked[m] = 1
  /\ m \notin sent
  /\ outcome[m] \notin {"refused", "dropped"}
  /\ sent' = sent \cup {m}
  /\ UNCHANGED <<tail, position, outcome, asked>>

\* What may be told about m: the truth, or that it is not known.  Only a person
\* rules on what is not known.
Told(m) ==
  \/ outcome'[m] = outcome[m]
  \/ /\ outcome[m] = "pending"
     /\ \/ outcome'[m] = "uncertain"
        \/ outcome'[m] = "sent" /\ m \in sent
        \/ outcome'[m] = "refused" /\ asked[m] = 1 /\ m \notin sent
        \/ outcome'[m] = "dropped" /\ asked[m] = 0
  \/ outcome[m] = "uncertain" /\ outcome'[m] \in {"confirmed", "denied"}

\* One transaction may tell about several messages.
Tell ==
  /\ outcome' \in [Commands -> Final \cup {"absent", "pending", "uncertain"}]
  /\ \A m \in Commands : Told(m)
  /\ UNCHANGED <<tail, position, asked, sent>>

Next == Tell \/ \E m \in Commands : Enter(m) \/ Ask(m) \/ Act(m)

Spec == Init /\ [][Next]_vars
=============================================================================
