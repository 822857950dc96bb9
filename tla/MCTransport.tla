---- MODULE MCTransport ----
(***************************************************************************)
(* One process in each entry point, over every kind of identity, every set   *)
(* of credentials the server accepts, and an agent that changes freely.      *)
(***************************************************************************)
EXTENDS Transport

====
