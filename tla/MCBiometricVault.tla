---- MODULE MCBiometricVault ----
(***************************************************************************)
(* Two gitway processes over one key and two passphrases.  One key is enough *)
(* for the races: every resource is indexed by key, and a batch visits its   *)
(* keys one after the other.                                                 *)
(***************************************************************************)
EXTENDS BiometricVault, TLC

\* Processes and passphrases are interchangeable: used by the safety runs.
Symmetry == Permutations(Procs) \cup Permutations(Passphrases)

====
