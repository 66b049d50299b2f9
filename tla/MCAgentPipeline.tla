-------------------------- MODULE MCAgentPipeline --------------------------
(* Instances of AgentPipeline for TLC.                                     *)
EXTENDS AgentPipeline, TLC

CONSTANTS native, ocsf, c1, c2

OneGroup == <<native>>
BothGroups == <<native, ocsf>>
MCJobs == Sources \X Range(Groups)
MCProducers == {"ingest", "loop", "flush"}

(* The native group goes to c1, the OCSF group to c2.                      *)
MCTargets == [j \in Jobs |-> IF j[2] = native THEN <<c1>> ELSE <<c2>>]
=============================================================================
