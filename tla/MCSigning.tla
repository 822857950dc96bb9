---- MODULE MCSigning ----
(***************************************************************************)
(* Two processes on one key path, so that a sign, a generate and an extract  *)
(* race for the pair; two keys, one to start with and one to generate, or    *)
(* two to generate; two principals, so that a wrong one can be found.        *)
(***************************************************************************)
EXTENDS Signing, TLC

\* Processes, keys and principals are interchangeable.
Symmetry == Permutations(Procs) \cup Permutations(Keys) \cup Permutations(Principals)

====
