---------------------------- MODULE MCEventStream ----------------------------
(* Small instances of EventStream for TLC. *)
EXTENDS EventStream
CONSTANTS r1, s1

OneSession == [r \in Runs |-> s1]
AgentOnly == [r \in Runs |-> {"agent"}]
=============================================================================
