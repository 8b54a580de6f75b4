-------------------------- MODULE MCSigningSystem --------------------------
(***************************************************************************)
(* SigningSystem on small instances given by the cfg files.                *)
(***************************************************************************)
EXTENDS SigningSystem, TLC

\* Pod names, key ids and passphrases are drawn at random: no step of the
\* model prefers one of them to another.
Drawn == Permutations(SignerPods) \cup Permutations(KeyIds) \cup Permutations(Passes)

\* Bound: the informers of requests and ImageSigners, or those of pods too,
\* deliver a change before anything else happens.  The SignerKey informer may
\* lag.
Delivered(cache, live) == cache # live => cache' # cache

PhasesOf(pods) == [n \in DOMAIN pods |-> R!PhaseOf(pods[n])]

PromptObjects == Delivered(reqCache, requests) /\ Delivered(signerCache, signers)
PromptPods == Delivered(sPodCache, PhasesOf(sPods)) /\ Delivered(rPodCache, PhasesOf(rPods))

PromptObjectsSpec == Init /\ [][Next /\ PromptObjects]_vars
PromptSpec == Init /\ [][Next /\ PromptObjects /\ PromptPods]_vars
=============================================================================
