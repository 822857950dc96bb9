---- MODULE MCKnownHosts ----
(***************************************************************************)
(* Two processes over one file, two hosts and two fingerprints, one of them  *)
(* built in for one of the hosts; three commands, enough for a revoke that   *)
(* overlaps an add or another revoke after the file has gained a line.       *)
(***************************************************************************)
EXTENDS KnownHosts, TLC

CONSTANTS h1, h2, x, y

MCEmbedded == {<<h1, x>>}

\* Only the processes are interchangeable: hosts and fingerprints are not,
\* because of Embedded.
Symmetry == Permutations(Procs)

====
