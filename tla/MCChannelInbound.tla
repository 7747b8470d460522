-------------------------- MODULE MCChannelInbound --------------------------
(* Instances of ChannelInbound for TLC.                                    *)
EXTENDS ChannelInbound, TLC

CONSTANTS c1, j1, j2, a1, a2, w1, w2

\* One thread with two messages.
ThreadPair == j1 :> c1 @@ j2 :> c1
PairSent == j1 :> 1 @@ j2 :> 2
SingleRoutingAgent == c1 :> a1

\* Two webhooks are open, or a row came in before one committed without it.
Overlapped ==
  \/ Cardinality(Open) > 1
  \/ \E i, j \in Jobs : Earlier(i, j) /\ status[j] # "none" /\ i \notin present[j]

\* The bound: webhooks overlap or the conversation changes hands, not both.
OneOrOther == Overlapped => \A c \in Conversations : Changes(c) = 0

MCNext == Next /\ OneOrOther'

MCSpec == Init /\ [][MCNext]_vars /\ Fairness
=============================================================================
