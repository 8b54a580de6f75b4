------------------------ MODULE SignRequestContract ------------------------
(***************************************************************************)
(* SignRequest implements SigningContract: what of its state users can     *)
(* see, and the mapping to the contract's variables.                       *)
(***************************************************************************)
EXTENDS SignRequestInv

RequestView(req) ==
  IF req = None THEN None
  ELSE [uid |-> req.uid, signer |-> req.signer, target |-> req.target,
        response |-> req.response]

EntryView(key, t) == IF Recorded(key, t) = None THEN None ELSE Recorded(key, t).id

KeyView(key) ==
  IF key = None THEN None
  ELSE [root |-> key.root.id, entries |-> [t \in Targets |-> EntryView(key, t)]]

RequestsView == [r \in Requests |-> RequestView(requests[r])]

KeysView == [s \in Signers |-> KeyView(signerKeys[s])]

\* What users see of an object is not the absence of one.
ASSUME ContractAssumption ==
  /\ None \notin [uid: Nat, signer: Signers, target: Targets, response: Answers \cup {None}]
  /\ None \notin [root: KeyIds, entries: [Targets -> KeyIds \cup {None}]]

Contract == INSTANCE SigningContract WITH
  requests <- RequestsView, signerKeys <- KeysView, clock <- rev

\* The reconciler keeps its contract: whatever caches, crashes, retries and
\* stale snapshots make of an attempt, users see requests answered once and
\* Success only when it is earned, repositories bound once to keys that are
\* recorded as they are, and no record lost while its SignerKey exists.
KeepsContract == Contract!Spec
=============================================================================
