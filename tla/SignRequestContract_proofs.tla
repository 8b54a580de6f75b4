--------------------- MODULE SignRequestContract_proofs ---------------------
(***************************************************************************)
(* SignRequest implements SigningContract, for any constants: every step   *)
(* is a step of the contract or changes nothing of what users see.  The    *)
(* steps are told apart by what they write (Writers); what the contract    *)
(* demands of each was proved of SignRequest as part of IInv.              *)
(***************************************************************************)
EXTENDS SignRequestContract, SignRequest_proofs

\* Uids are drawn from the revision: those of requests, of their cached
\* copies and of the request in hand.
UidsOld ==
  /\ \A r \in Requests : /\ requests[r] # None => requests[r].uid \in 1..rev
                         /\ reqCache[r] # None => reqCache[r].uid \in 1..rev
  /\ w.pc # "idle" => w.obj.uid \in 1..rev

(***************************************************************************)
(* The views.                                                              *)
(***************************************************************************)
LEMMA RequestViewType ==
  ASSUME NEW req \in Request
  PROVE  /\ RequestView(req) # None
         /\ RequestView(req) = [uid |-> req.uid, signer |-> req.signer, target |-> req.target,
                                response |-> req.response]
<1>1. RequestView(req) = [uid |-> req.uid, signer |-> req.signer, target |-> req.target,
                          response |-> req.response]
  BY RequestAssumption DEF RequestView
<1>2. [uid |-> req.uid, signer |-> req.signer, target |-> req.target,
       response |-> req.response]
        \in [uid: Nat, signer: Signers, target: Targets, response: Answers \cup {None}]
  BY DEF Request
<1>. QED
  BY <1>1, <1>2, ContractAssumption

LEMMA EntryViewType ==
  ASSUME NEW key \in SignerKey, NEW t \in Targets
  PROVE  /\ EntryView(key, t) \in KeyIds \cup {None}
         /\ Recorded(key, t) # None =>
              EntryView(key, t) = Recorded(key, t).id /\ EntryView(key, t) # None
         /\ Recorded(key, t) = None => EntryView(key, t) = None
<1>1. Recorded(key, t) \in TrustKey \cup {None}
  BY RecordedType
<1>2. Recorded(key, t) # None => Recorded(key, t).id \in KeyIds
  BY <1>1 DEF TrustKey
<1>. QED
  BY <1>2, PodAssumption DEF EntryView

LEMMA KeyViewType ==
  ASSUME NEW key \in SignerKey
  PROVE  /\ KeyView(key) # None
         /\ KeyView(key) = [root |-> key.root.id,
                            entries |-> [t \in Targets |-> EntryView(key, t)]]
         /\ key.root.id \in KeyIds
<1>1. key # None
  BY RequestAssumption
<1>2. KeyView(key) = [root |-> key.root.id,
                      entries |-> [t \in Targets |-> EntryView(key, t)]]
  BY <1>1 DEF KeyView
<1>3. key.root.id \in KeyIds
  BY DEF SignerKey, TrustKey
<1>4. [t \in Targets |-> EntryView(key, t)] \in [Targets -> KeyIds \cup {None}]
  BY EntryViewType
<1>. QED
  BY <1>2, <1>3, <1>4, ContractAssumption

\* One object written is one view written.
LEMMA RequestChange ==
  ASSUME requests \in [Requests -> Request \cup {None}],
         NEW r \in Requests, NEW q, requests' = [requests EXCEPT ![r] = q]
  PROVE  RequestsView' = [RequestsView EXCEPT ![r] = RequestView(q)]
BY DEF RequestsView, RequestView

LEMMA KeyChange ==
  ASSUME signerKeys \in [Signers -> SignerKey \cup {None}],
         NEW s \in Signers, NEW key, signerKeys' = [signerKeys EXCEPT ![s] = key]
  PROVE  KeysView' = [KeysView EXCEPT ![s] = KeyView(key)]
BY DEF KeysView

LEMMA Unseen ==
  /\ requests' = requests => RequestsView' = RequestsView
  /\ signerKeys' = signerKeys => KeysView' = KeysView
BY DEF RequestsView, KeysView, RequestView, KeyView, EntryView, Recorded

(***************************************************************************)
(* Uids.                                                                   *)
(***************************************************************************)
LEMMA UidsStep ==
  ASSUME IInv, UidsOld, [Next]_vars
  PROVE  UidsOld'
<1>1. /\ requests \in [Requests -> Request \cup {None}]
      /\ reqCache \in [Requests -> Request \cup {None}]
      /\ rev \in Nat /\ rev' \in Nat /\ rev' >= rev
  BY RequestTypesStep DEF IInv, TypeOK
<1>2. \A r \in Requests :
        \/ requests'[r] = None
        \/ requests[r] # None /\ requests'[r].uid = requests[r].uid
        \/ w.pc # "idle" /\ requests'[r].uid = w.obj.uid
        \/ requests'[r].uid = rev + 1 /\ rev' = rev + 1
  <2>1. CASE Respond
    <3>1. w.obj \in Request /\ w.name \in Requests /\ w.pc # "idle"
      BY <2>1, Locals DEF Respond, At
    <3>2. [w.obj EXCEPT !.response = w.answer, !.rv = rev + 1].uid = w.obj.uid
      BY <3>1 DEF Request
    <3>3. \/ requests' = requests
          \/ requests' = [requests EXCEPT ![w.name] =
                            [w.obj EXCEPT !.response = w.answer, !.rv = rev + 1]]
      BY <2>1 DEF Respond
    <3>. QED
      BY <1>1, <3>1, <3>2, <3>3
  <2>2. ASSUME NEW x \in Requests, CreateRequest(x)
        PROVE  \A r \in Requests : \/ requests'[r] = requests[r]
                                   \/ requests'[r].uid = rev + 1 /\ rev' = rev + 1
    BY <1>1, <2>2 DEF CreateRequest, UserWrites
  <2>3. ASSUME NEW x \in Requests, EditRequest(x)
        PROVE  \A r \in Requests : \/ requests'[r] = requests[r]
                                   \/ requests[r] # None /\ requests'[r].uid = requests[r].uid
    <3>1. requests[x] \in Request /\ requests[x] # None
      BY <1>1, <2>3 DEF EditRequest
    <3>2. [requests[x] EXCEPT !.rv = rev + 1].uid = requests[x].uid
      BY <3>1 DEF Request
    <3>. QED
      BY <1>1, <2>3, <3>1, <3>2 DEF EditRequest, UserWrites
  <2>4. ASSUME NEW x \in Requests, DeleteRequest(x)
        PROVE  \A r \in Requests : requests'[r] = requests[r] \/ requests'[r] = None
    BY <1>1, <2>4 DEF DeleteRequest, UserWrites
  <2>. QED
    BY <2>1, <2>2, <2>3, <2>4, Writers
<1>3. \A r \in Requests : reqCache'[r] = reqCache[r] \/ reqCache'[r] = requests[r]
  BY <1>1, Writers DEF SyncRequest
<1>4. ASSUME w'.pc # "idle"
      PROVE  \/ w.pc # "idle" /\ w'.obj = w.obj
             \/ \E r \in Requests : reqCache[r] # None /\ w'.obj = reqCache[r]
  <2>1. w \in Worker
    BY DEF IInv, TypeOK
  <2>2. ASSUME NEW r \in Requests, GetSignRequest(r)
        PROVE  reqCache[r] # None /\ w'.obj = reqCache[r]
    BY <2>1, <2>2 DEF GetSignRequest, Worker
  <2>. QED
    BY <1>4, <2>2, AttemptMoves DEF Idle
<1>5. 1..rev \subseteq 1..rev' /\ (rev' = rev + 1 => rev + 1 \in 1..rev')
  BY <1>1
<1>. QED
  BY <1>2, <1>3, <1>4, <1>5 DEF UidsOld

LEMMA InitUids ==
  ASSUME Init
  PROVE  UidsOld
BY DEF Init, Idle, UidsOld

(***************************************************************************)
(* Steps of the contract, by what they write.                              *)
(***************************************************************************)
\* A Success in hand is earned, in the contract's sense.
LEMMA BackedIsEarned ==
  ASSUME IInv, NEW req \in Request, Backed(req)
  PROVE  Contract!Earned(RequestView(req))
<1>1. /\ req.uid \in signatures /\ repos[req.target] # None
      /\ LiveRecords(req.signer, req.target)
      /\ req.signer \in Signers /\ req.target \in Targets
  BY DEF Backed, Request
<1>2. /\ RequestView(req).uid = req.uid /\ RequestView(req).signer = req.signer
      /\ RequestView(req).target = req.target
  BY RequestViewType
<1>3. KeysView[req.signer] = KeyView(signerKeys[req.signer])
  BY <1>1 DEF KeysView
<1>4. ASSUME KeysView[req.signer] # None, KeysView[req.signer].root = repos[req.target].root
      PROVE  KeysView[req.signer].entries[req.target] # None
  <2>1. signerKeys[req.signer] \in SignerKey
    BY <1>1, <1>3, <1>4 DEF IInv, TypeOK, KeyView
  <2>2. /\ KeysView[req.signer].root = signerKeys[req.signer].root.id
        /\ KeysView[req.signer].entries[req.target]
             = EntryView(signerKeys[req.signer], req.target)
    BY <1>1, <1>3, <2>1, KeyViewType
  <2>3. Recorded(signerKeys[req.signer], req.target) # None
    BY <1>1, <1>4, <2>1, <2>2, RequestAssumption DEF LiveRecords
  <2>. QED
    BY <1>1, <2>1, <2>2, <2>3, EntryViewType
<1>. QED
  BY <1>1, <1>2, <1>4 DEF Contract!Earned

LEMMA AskStep ==
  ASSUME IInv, NEW r \in Requests, CreateRequest(r)
  PROVE  Contract!Ask(r)
<1>1. requests \in [Requests -> Request \cup {None}] /\ rev \in Nat
  BY DEF IInv, TypeOK
<1>2. PICK s \in Signers, t \in Targets, g \in RegistryFound :
        UserWrites(r, [uid |-> rev + 1, rv |-> rev + 1, signer |-> s, target |-> t,
                       registry |-> g, response |-> None])
  BY DEF CreateRequest
<1> DEFINE req == [uid |-> rev + 1, rv |-> rev + 1, signer |-> s, target |-> t,
                   registry |-> g, response |-> None]
<1>3. req \in Request
  BY <1>1, RequestAssumption DEF Request
<1>4. RequestView(req) = [uid |-> rev + 1, signer |-> s, target |-> t, response |-> None]
  BY <1>3, RequestViewType
<1>5. /\ requests' = [requests EXCEPT ![r] = req] /\ rev' = rev + 1
      /\ signerKeys' = signerKeys /\ repos' = repos /\ signatures' = signatures
  BY <1>2 DEF UserWrites, notary
<1>6. RequestsView' = [RequestsView EXCEPT ![r] = RequestView(req)]
  BY <1>1, <1>5, RequestChange
<1>7. RequestsView[r] = None
  BY DEF CreateRequest, RequestsView, RequestView
<1>8. rev' \in Nat /\ rev + 1 \in (rev + 1)..rev'
  BY <1>1, <1>5
<1>. QED
  BY <1>4, <1>5, <1>6, <1>7, <1>8, Unseen DEF Contract!Ask

LEMMA EditStep ==
  ASSUME IInv, NEW r \in Requests, EditRequest(r)
  PROVE  Contract!Pass
<1>1. requests \in [Requests -> Request \cup {None}] /\ rev \in Nat
  BY DEF IInv, TypeOK
<1>2. requests[r] \in Request
  BY <1>1 DEF EditRequest
<1> DEFINE req == [requests[r] EXCEPT !.rv = rev + 1]
<1>3. /\ requests' = [requests EXCEPT ![r] = req] /\ rev' = rev + 1
      /\ signerKeys' = signerKeys /\ repos' = repos /\ signatures' = signatures
  BY DEF EditRequest, UserWrites, notary
<1>4. /\ req \in Request /\ req.uid = requests[r].uid /\ req.signer = requests[r].signer
      /\ req.target = requests[r].target /\ req.response = requests[r].response
  BY <1>1, <1>2 DEF Request
<1>5. RequestView(req) = RequestView(requests[r])
  BY <1>2, <1>4, RequestViewType
<1>6. RequestsView' = [RequestsView EXCEPT ![r] = RequestView(req)]
  BY <1>1, <1>3, RequestChange
<1>7. RequestsView' = RequestsView
  BY <1>5, <1>6 DEF RequestsView
<1>8. rev' >= rev
  BY <1>1, <1>3
<1>. QED
  BY <1>3, <1>7, <1>8, Unseen DEF Contract!Pass

LEMMA WithdrawStep ==
  ASSUME IInv, NEW r \in Requests, DeleteRequest(r)
  PROVE  Contract!Withdraw(r)
<1>1. requests \in [Requests -> Request \cup {None}] /\ rev \in Nat
  BY DEF IInv, TypeOK
<1>2. /\ requests' = [requests EXCEPT ![r] = None] /\ rev' = rev + 1
      /\ signerKeys' = signerKeys /\ repos' = repos /\ signatures' = signatures
  BY DEF DeleteRequest, UserWrites, notary
<1>3. RequestsView' = [RequestsView EXCEPT ![r] = None]
  BY <1>1, <1>2, RequestChange DEF RequestView
<1>4. rev' >= rev
  BY <1>1, <1>2
<1>. QED
  BY <1>2, <1>3, <1>4, Unseen DEF Contract!Withdraw

\* An update that is accepted was computed from the present, unanswered
\* object (Versions), so it answers that object.
LEMMA AnswerStep ==
  ASSUME IInv, Respond
  PROVE  (\E r \in Requests, a \in {"Success", "Fail"} : Contract!Answer(r, a))
         \/ UNCHANGED Contract!vars
<1>1. /\ requests \in [Requests -> Request \cup {None}] /\ rev \in Nat
      /\ w \in Worker /\ w.obj \in Request /\ w.name \in Requests /\ w.pc # "idle"
  BY Locals DEF IInv, TypeOK, Respond, At
<1>2. signerKeys' = signerKeys /\ repos' = repos /\ signatures' = signatures
  BY DEF Respond, notary
<1>3. CASE requests' = requests /\ rev' = rev
  BY <1>2, <1>3, Unseen DEF Contract!vars
<1> DEFINE req == [w.obj EXCEPT !.response = w.answer, !.rv = rev + 1]
<1>4. CASE /\ w.answer # None
           /\ UpdateAccepted(requests[w.name], w.obj)
           /\ requests' = [requests EXCEPT ![w.name] = req]
           /\ rev' = rev + 1
  <2>1. w.answer \in Answers /\ w.answer \in {"Success", "Fail"}
    BY <1>1, <1>4 DEF Worker, Answers
  <2>2. requests[w.name] = w.obj /\ w.obj.response = None
    BY <1>1, <1>4, RequestAssumption DEF IInv, Versions, SameVersion, UpdateAccepted
  <2>3. /\ req \in Request /\ req.uid = w.obj.uid /\ req.signer = w.obj.signer
        /\ req.target = w.obj.target /\ req.response = w.answer
    <3>1. rev + 1 \in Nat /\ w.answer \in Answers \cup {None}
      BY <1>1, <2>1
    <3>. QED
      BY <1>1, <3>1 DEF Request
  <2>4. RequestView(req) = [RequestView(w.obj) EXCEPT !.response = w.answer]
    <3>1. RequestView(w.obj) = [uid |-> w.obj.uid, signer |-> w.obj.signer,
                                target |-> w.obj.target, response |-> w.obj.response]
      BY <1>1, RequestViewType
    <3>2. RequestView(req) = [uid |-> w.obj.uid, signer |-> w.obj.signer,
                              target |-> w.obj.target, response |-> w.answer]
      BY <2>3, RequestViewType
    <3>. QED
      BY <3>1, <3>2
  <2>5. RequestsView[w.name] = RequestView(w.obj)
    BY <1>1, <2>2 DEF RequestsView
  <2>6. RequestsView' = [RequestsView EXCEPT ![w.name] = RequestView(req)]
    BY <1>1, <1>4, RequestChange
  <2>7. RequestsView' = [RequestsView EXCEPT ![w.name].response = w.answer]
    BY <2>4, <2>5, <2>6
  <2>8. RequestsView[w.name] # None /\ RequestsView[w.name].response = None
    BY <1>1, <2>2, <2>5, RequestViewType
  <2>9. w.answer = "Success" => Contract!Earned(RequestsView[w.name])
    BY <1>1, <2>5, BackedIsEarned DEF IInv, Successes
  <2>10. rev' >= rev
    BY <1>1, <1>4
  <2>11. Contract!Answer(w.name, w.answer)
    BY <1>2, <2>7, <2>8, <2>9, <2>10, Unseen DEF Contract!Answer
  <2>. QED
    BY <1>1, <2>1, <2>11
<1>. QED
  BY <1>3, <1>4 DEF Respond

\* docker signs for the request in hand, whose uid is an old one.
LEMMA SignStep ==
  ASSUME IInv, UidsOld, SignAgain \/ \E k \in KeyIds : SignFirst(k)
  PROVE  \E u \in 1..rev : Contract!Sign(u)
<1>1. w.pc # "idle" /\ w.obj.uid \in 1..rev
  BY DEF SignAgain, SignFirst, At, UidsOld
<1>2. /\ requests' = requests /\ signerKeys' = signerKeys /\ rev' = rev
      /\ signatures' \in {signatures, signatures \cup {w.obj.uid}}
  BY DEF SignAgain, SignFirst, apiVars, Published
<1>3. CASE SignAgain
  <2>1. repos' = repos
    BY <1>3 DEF SignAgain
  <2>. QED
    BY <1>1, <1>2, <2>1, Unseen DEF Contract!Sign
<1>4. ASSUME NEW k \in KeyIds, SignFirst(k) PROVE Contract!Sign(w.obj.uid)
  <2>1. /\ Target \in Targets /\ repos[Target] = None /\ w.key \in SignerKey
        /\ repos' = [repos EXCEPT ![Target] = [root |-> w.key.root.id, target |-> k]]
    BY <1>4, SignFirstEffect
  <2>2. w.key.root.id \in KeyIds
    BY <2>1, KeyViewType
  <2>. QED
    BY <1>2, <2>1, <2>2, Unseen DEF Contract!Sign
<1>. QED
  BY <1>1, <1>3, <1>4

\* What is recorded is the key the repository was bound to (KeyInTransit),
\* next to what the SignerKey records by now.
LEMMA RecordStep ==
  ASSUME IInv, PatchSignerKey
  PROVE  (\E s \in Signers, t \in Targets : Contract!Record(s, t))
         \/ UNCHANGED Contract!vars
<1>1. /\ signerKeys \in [Signers -> SignerKey \cup {None}] /\ rev \in Nat
      /\ w.pc = "patch" /\ Signer \in Signers /\ Target \in Targets /\ w.tkey \in TrustKey
  BY PatchEffect DEF IInv, TypeOK
<1>2. requests' = requests /\ repos' = repos /\ signatures' = signatures
  BY DEF PatchSignerKey, notary
<1>3. CASE signerKeys' = signerKeys /\ rev' = rev
  BY <1>2, <1>3, Unseen DEF Contract!vars
<1> DEFINE old == signerKeys[Signer]
           new == MergePatch(old, Target, w.tkey)
<1>4. CASE /\ old # None /\ rev' = rev + 1
           /\ signerKeys' = [signerKeys EXCEPT ![Signer] = new]
  <2>1. old \in SignerKey
    BY <1>1, <1>4
  <2>2. /\ new \in SignerKey /\ new.root = old.root
        /\ \A x \in Targets : Recorded(new, x) = IF x = Target THEN w.tkey ELSE Recorded(old, x)
    BY <1>1, <2>1, MergePatchType
  <2>3. w.tkey # None /\ w.tkey.id = repos[Target].target /\ repos[Target] # None
    BY <1>1, PodAssumption DEF IInv, KeyInTransit
  <2>4. \A x \in Targets : EntryView(new, x) = IF x = Target THEN repos[Target].target
                                                             ELSE EntryView(old, x)
    BY <2>2, <2>3 DEF EntryView
  <2>5. KeysView[Signer] = KeyView(old) /\ KeyView(old) # None
    BY <1>1, <2>1, KeyViewType DEF KeysView
  <2>6. /\ KeyView(old).root = old.root.id
        /\ KeyView(old).entries = [x \in Targets |-> EntryView(old, x)]
        /\ KeyView(new) = [root |-> new.root.id, entries |-> [x \in Targets |-> EntryView(new, x)]]
    BY <2>1, <2>2, KeyViewType
  <2>7. [x \in Targets |-> EntryView(new, x)]
          = [KeyView(old).entries EXCEPT ![Target] = repos[Target].target]
    BY <1>1, <2>4, <2>6
  <2>8. KeysView' = [KeysView EXCEPT ![Signer] = KeyView(new)]
    BY <1>1, <1>4, KeyChange
  <2>9. KeysView' = [KeysView EXCEPT ![Signer] =
          [root |-> @.root, entries |-> [@.entries EXCEPT ![Target] = repos[Target].target]]]
    BY <2>2, <2>5, <2>6, <2>7, <2>8
  <2>10. rev' >= rev
    BY <1>1, <1>4
  <2>11. Contract!Record(Signer, Target)
    BY <1>2, <2>3, <2>5, <2>9, <2>10, Unseen DEF Contract!Record
  <2>. QED
    BY <1>1, <2>11
<1>. QED
  BY <1>3, <1>4 DEF PatchSignerKey

LEMMA GoneStep ==
  ASSUME IInv, NEW s \in Signers, CollectKey(s)
  PROVE  Contract!KeyGone(s)
<1>1. /\ signerKeys' = [signerKeys EXCEPT ![s] = None]
      /\ requests' = requests /\ rev' = rev /\ repos' = repos /\ signatures' = signatures
  BY DEF CollectKey, notary
<1>2. KeysView' = [KeysView EXCEPT ![s] = None]
  BY <1>1, KeyChange DEF IInv, TypeOK, KeyView
<1>. QED
  BY <1>1, <1>2, Unseen DEF Contract!KeyGone

\* A new root key is not one any repository was bound under (RootsMinted).
LEMMA MadeStep ==
  ASSUME IInv, NEW s \in Signers, NEW k \in KeyIds, NEW p \in Passes, KeyAppears(s, k, p)
  PROVE  Contract!KeyMade(s)
<1> DEFINE key == InitialKey("nil", k, p)
<1>1. /\ signerKeys[s] = None /\ signerKeys' = [signerKeys EXCEPT ![s] = key]
      /\ requests' = requests /\ rev' = rev /\ repos' = repos /\ signatures' = signatures
      /\ k \notin minted
  BY DEF KeyAppears, notary
<1>2. key \in SignerKey
  BY InitialKeyType, NewKeyIsEmpty
<1>3. KeyView(key) = [root |-> k, entries |-> [t \in Targets |-> EntryView(key, t)]]
  BY <1>2, KeyViewType, NewKeyIsEmpty
<1>4. [t \in Targets |-> EntryView(key, t)] = [t \in Targets |-> None]
  BY <1>2, NewKeyIsEmpty, EntryViewType
<1>5. KeysView' = [KeysView EXCEPT ![s] = KeyView(key)]
  BY <1>1, KeyChange DEF IInv, TypeOK
<1>6. KeysView[s] = None
  BY <1>1 DEF KeysView, KeyView
<1>7. \A t \in Targets : repos[t] # None => repos[t].root # k
  BY <1>1 DEF IInv, RootsMinted
<1>. QED
  BY <1>1, <1>3, <1>4, <1>5, <1>6, <1>7, Unseen DEF Contract!KeyMade, Contract!NoEntries

\* An empty map for no map is not seen in the contract.
LEMMA GivenStep ==
  ASSUME IInv, NEW s \in Signers, GiveTargets(s)
  PROVE  UNCHANGED Contract!vars
<1>1. requests' = requests /\ rev' = rev /\ repos' = repos /\ signatures' = signatures
  BY DEF GiveTargets, notary
<1>2. /\ signerKeys \in [Signers -> SignerKey \cup {None}]
      /\ signerKeys[s] \in SignerKey /\ signerKeys'[s] \in SignerKey
      /\ signerKeys' = [signerKeys EXCEPT ![s] = signerKeys'[s]]
      /\ signerKeys'[s].root = signerKeys[s].root
  BY GivenTargets DEF IInv, TypeOK
<1>3. \A t \in Targets : EntryView(signerKeys'[s], t) = EntryView(signerKeys[s], t)
  BY <1>2, GivenTargets, EntryViewType
<1>4. KeyView(signerKeys'[s]) = KeyView(signerKeys[s])
  BY <1>2, <1>3, KeyViewType
<1>5. KeysView' = [KeysView EXCEPT ![s] = KeyView(signerKeys'[s])]
  BY <1>2, KeyChange
<1>6. KeysView' = KeysView
  BY <1>4, <1>5 DEF KeysView
<1>. QED
  BY <1>1, <1>6, Unseen DEF Contract!vars

(***************************************************************************)
(* The refinement.                                                         *)
(***************************************************************************)
LEMMA InitRefines ==
  ASSUME Init
  PROVE  Contract!Init
<1>1. signerKeys \in [Signers -> SignerKey \cup {None}]
  BY InitKeys
<1>2. /\ requests = [r \in Requests |-> None] /\ repos = [t \in Targets |-> None]
      /\ signatures = {} /\ rev = 0
  BY DEF Init
<1>3. RequestsView = [r \in Requests |-> None]
  BY <1>2 DEF RequestsView, RequestView
<1> DEFINE roots == [s \in Signers |-> IF signerKeys[s] = None THEN None
                                       ELSE signerKeys[s].root.id]
<1>4. ASSUME NEW s \in Signers, signerKeys[s] # None
      PROVE  /\ signerKeys[s].root.id \in KeyIds /\ signerKeys[s].root.id # None
             /\ KeyView(signerKeys[s]) = [root |-> signerKeys[s].root.id,
                                          entries |-> [t \in Targets |-> None]]
  <2>1. signerKeys[s] \in SignerKey
    BY <1>1, <1>4
  <2>2. signerKeys[s].root.id \in KeyIds /\ signerKeys[s].root.id # None
    BY <2>1, KeyViewType, PodAssumption
  <2>3. \A t \in Targets : EntryView(signerKeys[s], t) = None
    BY <1>4, <2>1, InitKeys, EntryViewType
  <2>. QED
    BY <2>1, <2>2, <2>3, KeyViewType
<1>5. roots \in [Signers -> KeyIds \cup {None}]
  BY <1>4
<1>6. \A s \in Signers : KeyView(signerKeys[s])
        = IF roots[s] = None THEN None
          ELSE [root |-> roots[s], entries |-> [t \in Targets |-> None]]
  BY <1>4 DEF KeyView
<1>7. KeysView = [s \in Signers |->
        IF roots[s] = None THEN None
        ELSE [root |-> roots[s], entries |-> [t \in Targets |-> None]]]
  BY <1>6 DEF KeysView
<1>. QED
  BY <1>2, <1>3, <1>5, <1>7 DEF Contract!Init, Contract!NoEntries

LEMMA StepRefines ==
  ASSUME IInv, UidsOld, [Next]_vars
  PROVE  [Contract!Next]_Contract!vars
<1>1. CASE Respond
  BY <1>1, AnswerStep DEF Contract!Next
<1>2. ASSUME NEW r \in Requests, CreateRequest(r) \/ EditRequest(r) \/ DeleteRequest(r)
      PROVE  Contract!Next
  BY <1>2, AskStep, EditStep, WithdrawStep DEF Contract!Next
<1>3. CASE PatchSignerKey
  BY <1>3, RecordStep DEF Contract!Next
<1>4. ASSUME NEW s \in Signers,
             CollectKey(s) \/ \E k \in KeyIds, p \in Passes : KeyAppears(s, k, p)
      PROVE  Contract!Next
  BY <1>4, GoneStep, MadeStep DEF Contract!Next
<1>5. CASE SignAgain \/ \E k \in KeyIds : SignFirst(k)
  BY <1>5, SignStep DEF Contract!Next
<1>6. CASE /\ requests' = requests /\ rev' = rev /\ signerKeys' = signerKeys
           /\ repos' = repos /\ signatures' = signatures
  BY <1>6, Unseen DEF Contract!vars
<1>7. ASSUME NEW s \in Signers, GiveTargets(s)
      PROVE  UNCHANGED Contract!vars
  BY <1>7, GivenStep
<1>. QED
  BY <1>1, <1>2, <1>3, <1>4, <1>5, <1>6, <1>7, Writers

\* The ImageSignRequest reconciler keeps its contract with its users, whatever
\* caches, crashes, retries and stale snapshots make of its attempts: it
\* answers a request once, Success only when it is earned, and records the
\* keys of repositories as they were bound, next to those recorded before.
THEOREM ContractKept == Spec => KeepsContract
<1>1. Init => UidsOld /\ Contract!Init
  BY InitUids, InitRefines
<1>2. IInv /\ UidsOld /\ [Next]_vars => UidsOld'
  BY UidsStep
<1>3. IInv /\ UidsOld /\ [Next]_vars => [Contract!Next]_Contract!vars
  BY StepRefines
<1>. QED
  BY <1>1, <1>2, <1>3, Invariance, PTL DEF Spec, KeepsContract, Contract!Spec
=============================================================================
