--------------------------- MODULE MCSignRequest ---------------------------
(***************************************************************************)
(* SignRequest on small instances: the sets of names, keys and passphrases *)
(* are model values given in the cfg; names that are interchangeable are   *)
(* symmetric in the runs that check no liveness.                           *)
(***************************************************************************)
EXTENDS SignRequestInv, TLC

\* Pod names, key ids and passphrases are drawn at random: no step of the
\* model prefers one of them to another.
Drawn == Permutations(PodNames) \cup Permutations(KeyIds) \cup Permutations(Passes)

\* Nor does one prefer a request name or a target name.
DrawnAndNamed == Drawn \cup Permutations(Requests) \cup Permutations(Targets)
=============================================================================
