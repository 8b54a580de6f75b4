-------------------------- MODULE SigningContract --------------------------
(***************************************************************************)
(* What the ImageSignRequest reconciler promises its users, without pods,  *)
(* caches, workers, retries or crashes: requests are asked, signed and     *)
(* answered once; a repository is bound once; a SignerKey records the keys *)
(* of repositories and nothing else, and forgets none.                     *)
(*                                                                         *)
(* Keys are known by their ids only.                                       *)
(***************************************************************************)
EXTENDS Naturals

CONSTANTS Requests, Signers, Targets, KeyIds, None

VARIABLES
  requests,   \* requests[r]: [uid, signer, target, response], or None
  signerKeys, \* signerKeys[s]: [root, entries], or None
  repos,      \* repos[t]: [root, target], the keys t is bound to, or None
  signatures, \* uids of the requests whose image was signed
  clock       \* the last revision; uids are drawn from it

vars == <<requests, signerKeys, repos, signatures, clock>>

NoEntries == [t \in Targets |-> None]

Init ==
  /\ requests = [r \in Requests |-> None]
  /\ \E roots \in [Signers -> KeyIds \cup {None}] :
       signerKeys = [s \in Signers |->
         IF roots[s] = None THEN None ELSE [root |-> roots[s], entries |-> NoEntries]]
  /\ repos = [t \in Targets |-> None]
  /\ signatures = {}
  /\ clock = 0

\* Users.
Ask(r) ==
  /\ requests[r] = None
  /\ clock' \in Nat
  /\ \E u \in (clock + 1)..clock', s \in Signers, t \in Targets :
       requests' = [requests EXCEPT ![r] =
                      [uid |-> u, signer |-> s, target |-> t, response |-> None]]
  /\ UNCHANGED <<signerKeys, repos, signatures>>

Withdraw(r) ==
  /\ requests' = [requests EXCEPT ![r] = None]
  /\ clock' >= clock
  /\ UNCHANGED <<signerKeys, repos, signatures>>

\* A SignerKey is made with a root key no repository is bound under, and goes
\* with what it records.
KeyMade(s) ==
  /\ signerKeys[s] = None
  /\ \E k \in KeyIds :
       /\ \A t \in Targets : repos[t] # None => repos[t].root # k
       /\ signerKeys' = [signerKeys EXCEPT ![s] = [root |-> k, entries |-> NoEntries]]
  /\ UNCHANGED <<requests, repos, signatures, clock>>

KeyGone(s) ==
  /\ signerKeys' = [signerKeys EXCEPT ![s] = None]
  /\ UNCHANGED <<requests, repos, signatures, clock>>

\* A request is signed; the first signature in a repository binds it.
Sign(u) ==
  /\ signatures' \in {signatures, signatures \cup {u}}
  /\ \/ UNCHANGED repos
     \/ \E t \in Targets, root, target \in KeyIds :
          /\ repos[t] = None
          /\ repos' = [repos EXCEPT ![t] = [root |-> root, target |-> target]]
  /\ UNCHANGED <<requests, signerKeys, clock>>

\* A SignerKey records the key of a bound repository.
Record(s, t) ==
  /\ signerKeys[s] # None /\ repos[t] # None
  /\ signerKeys' = [signerKeys EXCEPT ![s] =
       [root |-> @.root, entries |-> [@.entries EXCEPT ![t] = repos[t].target]]]
  /\ clock' >= clock
  /\ UNCHANGED <<requests, repos, signatures>>

\* The image was signed, and its signer can sign again in that repository.
Earned(req) ==
  /\ req.uid \in signatures
  /\ repos[req.target] # None
  /\ LET key == signerKeys[req.signer]
     IN key # None /\ key.root = repos[req.target].root => key.entries[req.target] # None

Answer(r, a) ==
  /\ requests[r] # None /\ requests[r].response = None
  /\ a = "Success" => Earned(requests[r])
  /\ requests' = [requests EXCEPT ![r].response = a]
  /\ clock' >= clock
  /\ UNCHANGED <<signerKeys, repos, signatures>>

\* A write that changes nothing of this.
Pass == clock' >= clock /\ UNCHANGED <<requests, signerKeys, repos, signatures>>

Next ==
  \/ \E r \in Requests : \/ Ask(r) \/ Withdraw(r)
                         \/ \E a \in {"Success", "Fail"} : Answer(r, a)
  \/ \E s \in Signers : KeyMade(s) \/ KeyGone(s) \/ \E t \in Targets : Record(s, t)
  \/ \E u \in 1..clock : Sign(u)
  \/ Pass

Spec == Init /\ [][Next]_vars
=============================================================================
