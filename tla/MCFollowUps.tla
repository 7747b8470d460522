---------------------------- MODULE MCFollowUps ----------------------------
(* Instances of FollowUps for TLC. *)
EXTENDS FollowUps, TLC

CONSTANTS source, delivery, agent1, agent2, admin1

MCRoutingAgent == [c \in {source, delivery} |-> agent1]
MCPermissions ==
  [a \in {admin1} |-> {"opportunities.manage", "follow_ups.manage",
                       "follow_ups.review"}]

\* Quiet in the middle of the day, one claim per tick and per day.
Day == [enabled |-> TRUE, quiet |-> <<1, 2>>, interval |-> 1, daily |-> 1,
        attempts |-> 2, pending |-> 5]
Off == [Day EXCEPT !.enabled = FALSE]
\* Quiet until midnight, as many claims as there are tasks.
Night == [Day EXCEPT !.quiet = <<2, 0>>, !.interval = 0, !.daily = 5]

MCLimits == {Day, Off, Night}
=============================================================================
