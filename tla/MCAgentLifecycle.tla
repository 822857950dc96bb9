---- MODULE MCAgentLifecycle ----
(***************************************************************************)
(* Three starts: two that race for a path and a third that arrives later;    *)
(* one path they all may share, one pid file (the default one, which all     *)
(* agents of a directory share), and a shell that runs stops, one at a time. *)
(***************************************************************************)
EXTENDS AgentLifecycle

====
