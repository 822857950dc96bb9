---- MODULE MCInvocation ----
(***************************************************************************)
(* Every invocation with a user, an identity and an algorithm option, the    *)
(* three that are treated specially, over every ssh_config and every pair of *)
(* directives.                                                               *)
(***************************************************************************)
EXTENDS Invocation

====
