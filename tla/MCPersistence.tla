---------------------------- MODULE MCPersistence ----------------------------
(***************************************************************************)
(* Instances of Persistence for TLC.  The two agents are interchangeable.  *)
(***************************************************************************)
EXTENDS Persistence, TLC

AgentSymmetry == Permutations(Agents)

=============================================================================
