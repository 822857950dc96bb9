---- MODULE MCAgentClient ----
(***************************************************************************)
(* Two clients and one key: each property relates one key's entry in the     *)
(* agent to one client's knowledge of it, and a second client is what races  *)
(* with it.                                                                  *)
(***************************************************************************)
EXTENDS AgentClient, TLC

\* Clients run the same commands: interchangeable.
Symmetry == Permutations(Clients)

====
