------------------------------ MODULE MCIntake ------------------------------
EXTENDS Intake, TLC

CONSTANTS agent1, agent2, agent3, admin1, admin2, conv1

MCRoutingAgent == [c \in Conversations |-> agent1]
MCSymmetry == Permutations(Requests)
=============================================================================
