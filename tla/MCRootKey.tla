----------------------------- MODULE MCRootKey -----------------------------
(***************************************************************************)
(* RootKey on small instances given by the cfg files.                      *)
(***************************************************************************)
EXTENDS RootKey, TLC

\* Pod names, key ids and passphrases are drawn at random: no step of the
\* model prefers one of them to another.
Drawn == Permutations(PodNames) \cup Permutations(KeyIds) \cup Permutations(Passes)
=============================================================================
