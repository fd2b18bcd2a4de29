--------------------------- MODULE MCAgentSession ---------------------------
(* TLC instances of AgentSession, all with one direct session of one user: *)
(* u1 and u2 are messages of the user, t1 is a scheduled task.             *)
EXTENDS AgentSession, TLC

CONSTANTS u1, u2, t1, ann, p1, p2, s1

OneProcess  == [r \in Runs |-> p1]
TwoReplicas == [r \in Runs |-> IF r = u2 THEN p2 ELSE p1]
OneSession  == [r \in Runs |-> s1]
OneActor    == [r \in Runs |-> ann]
=============================================================================
