------------------------- MODULE SignRequest_proofs -------------------------
(***************************************************************************)
(* IInv is an invariant of SignRequest, for any sets of names, keys and    *)
(* passphrases and any bounds; type correctness, StoredKeyOpensRepo,       *)
(* SuccessIsBacked, ResponseFinal and StoredKeysKept follow.               *)
(*                                                                         *)
(* The argument: the copies of a SignerKey that anyone may act on are old  *)
(* versions of it (CopiesStep); a repository is bound once, under the root *)
(* key of the snapshot the attempt works from (ReposStep); so what an old  *)
(* copy records stays true, and a SignerKey that still has that root key   *)
(* still records it (LiveStep).                                            *)
(***************************************************************************)
EXTENDS SignRequestInv, TLAPS

(***************************************************************************)
(* Types.                                                                  *)
(***************************************************************************)
LEMMA InitialKeyType ==
  ASSUME NEW shape \in {"absent", "nil", "map"}, NEW id \in KeyIds, NEW p \in Passes
  PROVE  InitialKey(shape, id, p) \in SignerKey \cup {None}
BY DEF InitialKey, SignerKey, TrustKey, TargetMap, EmptyMap

LEMMA IdleType == Idle \in Worker
BY PodAssumption DEF Idle, Worker, Steps

\* The updates of its locals the worker makes keep its type.
LEMMA WorkerUpdates ==
  ASSUME w \in Worker
  PROVE  /\ \A s \in Steps : [w EXCEPT !.pc = s] \in Worker
         /\ \A s \in Steps, a \in Answers : [w EXCEPT !.pc = s, !.answer = a] \in Worker
         /\ \A s \in Steps : [w EXCEPT !.pc = s, !.panics = TRUE] \in Worker
         /\ \A s \in Steps, n \in PodNames : [w EXCEPT !.pc = s, !.pod = n] \in Worker
         /\ \A s \in Steps, n \in PodNames, a \in Answers :
              [w EXCEPT !.pc = s, !.pod = n, !.answer = a] \in Worker
         /\ \A s \in Steps, r \in Requests, q \in Request :
              [w EXCEPT !.pc = s, !.name = r, !.obj = q] \in Worker
         /\ \A s \in Steps, k \in StartKey : [w EXCEPT !.pc = s, !.tkey = k] \in Worker
         /\ \A s \in Steps, key \in SignerKey, k \in StartKey :
              /\ [w EXCEPT !.pc = s, !.key = key, !.tkey = k] \in Worker
              /\ [w EXCEPT !.pc = s, !.key = key, !.tkey = k, !.added = TRUE] \in Worker
         /\ PollsAgain(w.tries) => [w EXCEPT !.tries = @ + 1] \in Worker
<1>1. \A s \in Steps : [w EXCEPT !.pc = s] \in Worker
  BY DEF Worker
<1>2. \A s \in Steps, a \in Answers : [w EXCEPT !.pc = s, !.answer = a] \in Worker
  BY DEF Worker
<1>3. \A s \in Steps : [w EXCEPT !.pc = s, !.panics = TRUE] \in Worker
  BY DEF Worker
<1>4. \A s \in Steps, n \in PodNames : [w EXCEPT !.pc = s, !.pod = n] \in Worker
  BY DEF Worker
<1>5. \A s \in Steps, n \in PodNames, a \in Answers :
        [w EXCEPT !.pc = s, !.pod = n, !.answer = a] \in Worker
  BY DEF Worker
<1>6. \A s \in Steps, r \in Requests, q \in Request :
        [w EXCEPT !.pc = s, !.name = r, !.obj = q] \in Worker
  BY DEF Worker
<1>7. \A s \in Steps, k \in StartKey : [w EXCEPT !.pc = s, !.tkey = k] \in Worker
  BY DEF Worker
<1>8. \A s \in Steps, key \in SignerKey, k \in StartKey :
        /\ [w EXCEPT !.pc = s, !.key = key, !.tkey = k] \in Worker
        /\ [w EXCEPT !.pc = s, !.key = key, !.tkey = k, !.added = TRUE] \in Worker
  BY DEF Worker
<1>9. PollsAgain(w.tries) => [w EXCEPT !.tries = @ + 1] \in Worker
  BY PodAssumption DEF Worker, PollsAgain
<1>. QED
  BY <1>1, <1>2, <1>3, <1>4, <1>5, <1>6, <1>7, <1>8, <1>9

LEMMA RecordedType ==
  ASSUME NEW key \in SignerKey, NEW t \in Targets
  PROVE  /\ Recorded(key, t) \in TrustKey \cup {None}
         /\ Recorded(key, t) # None => Recorded(key, t) \in StartKey
<1>1. Recorded(key, t) \in TrustKey \cup {None}
  BY DEF Recorded, SignerKey, TargetMap
<1>2. TrustKey \subseteq StartKey
  BY DEF TrustKey, StartKey
<1>. QED
  BY <1>1, <1>2

\* What the shape of the worker says of its locals in one place.
LEMMA Locals ==
  ASSUME IInv, w.pc # "idle"
  PROVE  /\ w \in Worker /\ w.name \in Requests /\ w.obj \in Request
         /\ Signer \in Signers /\ Target \in Targets
         /\ w.pc \in KeyedSteps => w.key \in SignerKey /\ w.tkey \in StartKey
         /\ w.pc \in PodSteps => w.pod \in PodNames
<1>1. /\ w \in Worker /\ w.name \in Requests /\ w.obj \in Request
      /\ w.pc \in KeyedSteps => w.key \in SignerKey /\ w.tkey \in StartKey
      /\ w.pc \in PodSteps => w.pod \in PodNames
  BY DEF IInv, TypeOK, WorkerShape
<1>2. Signer \in Signers /\ Target \in Targets
  BY <1>1 DEF Signer, Target, Request
<1>. QED
  BY <1>1, <1>2

LEMMA ReadKeyType ==
  ASSUME NEW pod \in Pod, NEW phrase \in Passes, NEW k \in ReadTrustKey(pod, "target", phrase)
  PROVE  k \in TrustKey
BY DEF ReadTrustKey, Pod, KeyFile, TrustKey

\* A SignerKey that is given targets is another object without target keys.
LEMMA GivenTargets ==
  ASSUME IInv, NEW s \in Signers, GiveTargets(s)
  PROVE  /\ signerKeys[s] \in SignerKey /\ signerKeys'[s] \in SignerKey
         /\ signerKeys' = [signerKeys EXCEPT ![s] = signerKeys'[s]]
         /\ signerKeys'[s].root = signerKeys[s].root
         /\ \A t \in Targets : /\ Recorded(signerKeys[s], t) = None
                              /\ Recorded(signerKeys'[s], t) = None
<1>1. signerKeys \in [Signers -> SignerKey \cup {None}]
  BY DEF IInv, TypeOK
<1>2. signerKeys[s] \in SignerKey /\ signerKeys[s].targets = Nil
  BY <1>1 DEF GiveTargets
<1>3. EmptyMap \in [Targets -> TrustKey \cup {None}] /\ EmptyMap # Nil
  BY RequestAssumption DEF EmptyMap
<1>4. /\ signerKeys' = [signerKeys EXCEPT ![s] = signerKeys'[s]]
      /\ signerKeys'[s] = [signerKeys[s] EXCEPT !.targets = EmptyMap]
  BY <1>1 DEF GiveTargets
<1>5. /\ signerKeys'[s] \in SignerKey /\ signerKeys'[s].root = signerKeys[s].root
      /\ signerKeys'[s].targets = EmptyMap
  BY <1>2, <1>3, <1>4 DEF SignerKey, TargetMap
<1>6. \A t \in Targets : Recorded(signerKeys[s], t) = None /\ Recorded(signerKeys'[s], t) = None
  BY <1>2, <1>3, <1>5 DEF Recorded, EmptyMap
<1>. QED
  BY <1>2, <1>4, <1>5, <1>6

LEMMA TrustKeyIsStartKey == TrustKey \subseteq StartKey /\ \A p \in Passes : NewTargetKey(p) \in StartKey
BY DEF TrustKey, StartKey, NewTargetKey

\* The worker keeps its type.
LEMMA WorkerStep ==
  ASSUME IInv, [Next]_vars
  PROVE  w' \in Worker
<1>0. w \in Worker
  BY DEF IInv, TypeOK
<1>1. ASSUME NEW r \in Requests, GetSignRequest(r) PROVE w' \in Worker
  <2>1. reqCache[r] \in Request
    BY <1>1 DEF GetSignRequest, IInv, TypeOK
  <2>. QED
    BY Zenon, <1>0, <1>1, <2>1, WorkerUpdates DEF GetSignRequest, Steps
<1>2. ASSUME GetSigner PROVE w' \in Worker
  BY Zenon, <1>0, <1>2, WorkerUpdates DEF GetSigner, FailTo, Steps, Answers
<1>3. ASSUME GetSignerKey PROVE w' \in Worker
  <2>1. Signer \in Signers /\ Target \in Targets
    BY <1>3, Locals DEF GetSignerKey, At
  <2>2. keyCache[Signer] # None => keyCache[Signer] \in SignerKey
    BY <2>1 DEF IInv, TypeOK
  <2>3. CASE keyCache[Signer] = None
    BY Zenon, <1>0, <1>3, <2>3, WorkerUpdates DEF GetSignerKey, FailTo, Steps, Answers
  <2>4. CASE keyCache[Signer] # None /\ Recorded(keyCache[Signer], Target) # None
    <3>1. Recorded(keyCache[Signer], Target) \in StartKey
      BY <2>1, <2>2, <2>4, RecordedType
    <3>2. w' = [w EXCEPT !.pc = "create", !.key = keyCache[Signer],
                         !.tkey = Recorded(keyCache[Signer], Target)]
      BY Zenon, <1>3, <2>4 DEF GetSignerKey
    <3>. QED
      BY Zenon, <1>0, <2>2, <2>4, <3>1, <3>2, WorkerUpdates DEF Steps
  <2>5. CASE keyCache[Signer] # None /\ Recorded(keyCache[Signer], Target) = None
    <3>1. PICK p \in Passes :
            w' = [w EXCEPT !.pc = "create", !.key = keyCache[Signer],
                           !.tkey = NewTargetKey(p), !.added = TRUE]
      BY Zenon, <1>3, <2>5 DEF GetSignerKey
    <3>. QED
      BY Zenon, <1>0, <2>2, <2>5, <3>1, TrustKeyIsStartKey, WorkerUpdates DEF Steps
  <2>. QED
    BY <2>3, <2>4, <2>5
<1>4. ASSUME NEW n \in PodNames, StartCreates(n) \/ StartFindsName(n) \/ StartFails(n)
      PROVE  w' \in Worker
  <2>1. CASE StartCreates(n)
    BY Zenon, <1>0, <2>1, WorkerUpdates DEF StartCreates, Steps
  <2>2. CASE StartFindsName(n)
    BY Zenon, <1>0, <2>2, WorkerUpdates DEF StartFindsName, Steps
  <2>3. CASE StartFails(n)
    <3>1. w' = [w EXCEPT !.pc = "close", !.pod = n, !.answer = "Fail"]
      BY <2>3 DEF StartFails
    <3>. QED
      BY Zenon, <1>0, <3>1, WorkerUpdates DEF Steps, Answers
  <2>. QED
    BY <1>4, <2>1, <2>2, <2>3
<1>5. ASSUME PollPod PROVE w' \in Worker
  BY Zenon, <1>0, <1>5, WorkerUpdates DEF PollPod, StartGivesUp, FailTo, Steps, Answers
<1>6. ASSUME LoadImage PROVE w' \in Worker
  BY Zenon, <1>0, <1>6, WorkerUpdates DEF LoadImage, FailTo, Steps, Answers
<1>7. ASSUME SignFails \/ SignAgain \/ \E k \in KeyIds : SignFirst(k) PROVE w' \in Worker
  BY Zenon, <1>0, <1>7, WorkerUpdates
     DEF SignFails, SignAgain, SignFirst, Published, AfterSign, FailTo, Steps, Answers
<1>8. ASSUME ReadTargetKey PROVE w' \in Worker
  <2>1. w.pod \in PodNames /\ w.tkey \in StartKey
    BY <1>8, Locals DEF ReadTargetKey, At, PodSteps, KeyedSteps
  <2>2. pods[w.pod] # None => pods[w.pod] \in Pod
    BY <2>1 DEF IInv, TypeOK, PodTypeOK
  <2>3. w.tkey.pass \in Passes
    BY <2>1 DEF StartKey
  <2>. QED
    BY Zenon, <1>0, <1>8, <2>2, <2>3, ReadKeyType, TrustKeyIsStartKey, WorkerUpdates
       DEF ReadTargetKey, FailTo, Steps, Answers
<1>9. ASSUME PatchSignerKey \/ Close PROVE w' \in Worker
  BY Zenon, <1>0, <1>9, WorkerUpdates DEF PatchSignerKey, Close, FailTo, Steps, Answers
<1>10. ASSUME Respond \/ Crash PROVE w' \in Worker
  BY Zenon, <1>10, IdleType DEF Respond, Crash
<1>. QED
  BY <1>0, <1>1, <1>2, <1>3, <1>4, <1>5, <1>6, <1>7, <1>8, <1>9, <1>10
     DEF Next, Attempt, Take, SkipRequest, Restart, Resync, SyncRequest, SyncSigner, SyncKey,
         PodStarts, PodEvent, Elsewhere, Environment, CreateRequest, EditRequest,
         DeleteRequest, UserWrites, DeleteSigner, CreateSigner, CollectKey, KeyAppears,
         GiveTargets, PodLost, vars

\* Which steps change a variable.
LEMMA Writers ==
  ASSUME [Next]_vars
  PROVE  /\ \/ pods' = pods
            \/ \E n \in PodNames : StartCreates(n) \/ StartFails(n) \/ PodStarts(n) \/ PodLost(n)
            \/ Close \/ \E k \in KeyIds : SignFirst(k)
         /\ podCache' = podCache \/ \E n \in PodNames : PodEvent(n)
         /\ \/ minted' = minted
            \/ \E k \in KeyIds : SignFirst(k)
            \/ \E s \in Signers, k \in KeyIds, p \in Passes : KeyAppears(s, k, p)
         /\ \/ requests' = requests /\ rev' = rev
            \/ requests' = requests /\ PatchSignerKey
            \/ Respond
            \/ \E r \in Requests : CreateRequest(r) \/ EditRequest(r) \/ DeleteRequest(r)
         /\ reqCache' = reqCache \/ \E r \in Requests : SyncRequest(r)
         /\ \/ signerKeys' = signerKeys
            \/ PatchSignerKey
            \/ \E s \in Signers : CollectKey(s) \/ GiveTargets(s)
            \/ \E s \in Signers, k \in KeyIds, p \in Passes : KeyAppears(s, k, p)
         /\ keyCache' = keyCache \/ \E s \in Signers : SyncKey(s)
         /\ repos' = repos \/ \E k \in KeyIds : SignFirst(k)
         /\ \/ signatures' = signatures
            \/ SignAgain \/ \E k \in KeyIds : SignFirst(k)
<1>. USE DEF Next, Attempt, Take, SkipRequest, GetSignRequest, GetSigner, GetSignerKey,
             StartCreates, StartFindsName, StartFails, PollPod, LoadImage, SignFails,
             ReadTargetKey, Close, Crash, Restart, Resync, SyncSigner,
             PodStarts, KubeletRuns, PodEvent, SyncPod, Elsewhere, Environment,
             DeleteSigner, CreateSigner, PodLost, vars, podVars, apiVars, viewVars, notary
<1>1. \/ pods' = pods
      \/ \E n \in PodNames : StartCreates(n) \/ StartFails(n) \/ PodStarts(n) \/ PodLost(n)
      \/ Close \/ \E k \in KeyIds : SignFirst(k)
  BY DEF SignAgain, PatchSignerKey, Respond, SyncRequest, SyncKey,
         CreateRequest, EditRequest, DeleteRequest, UserWrites, CollectKey, KeyAppears,
         GiveTargets
<1>2. podCache' = podCache \/ \E n \in PodNames : PodEvent(n)
  BY DEF SignAgain, SignFirst, PatchSignerKey, Respond, SyncRequest, SyncKey,
         CreateRequest, EditRequest, DeleteRequest, UserWrites, CollectKey, KeyAppears,
         GiveTargets
<1>3. \/ minted' = minted
      \/ \E k \in KeyIds : SignFirst(k)
      \/ \E s \in Signers, k \in KeyIds, p \in Passes : KeyAppears(s, k, p)
  BY DEF SignAgain, PatchSignerKey, Respond, SyncRequest, SyncKey,
         CreateRequest, EditRequest, DeleteRequest, UserWrites, CollectKey, GiveTargets
<1>4. \/ requests' = requests /\ rev' = rev
      \/ requests' = requests /\ PatchSignerKey
      \/ Respond
      \/ \E r \in Requests : CreateRequest(r) \/ EditRequest(r) \/ DeleteRequest(r)
  BY DEF SignAgain, SignFirst, PatchSignerKey, SyncRequest, SyncKey, CollectKey, KeyAppears,
         GiveTargets
<1>5. reqCache' = reqCache \/ \E r \in Requests : SyncRequest(r)
  BY DEF SignAgain, SignFirst, PatchSignerKey, Respond, SyncKey,
         CreateRequest, EditRequest, DeleteRequest, UserWrites, CollectKey, KeyAppears,
         GiveTargets
<1>6. \/ signerKeys' = signerKeys
      \/ PatchSignerKey
      \/ \E s \in Signers : CollectKey(s) \/ GiveTargets(s)
      \/ \E s \in Signers, k \in KeyIds, p \in Passes : KeyAppears(s, k, p)
  BY DEF SignAgain, SignFirst, Respond, SyncRequest, SyncKey,
         CreateRequest, EditRequest, DeleteRequest, UserWrites
<1>7. keyCache' = keyCache \/ \E s \in Signers : SyncKey(s)
  BY DEF SignAgain, SignFirst, PatchSignerKey, Respond, SyncRequest,
         CreateRequest, EditRequest, DeleteRequest, UserWrites, CollectKey, KeyAppears,
         GiveTargets
<1>8. repos' = repos \/ \E k \in KeyIds : SignFirst(k)
  BY DEF SignAgain, PatchSignerKey, Respond, SyncRequest, SyncKey,
         CreateRequest, EditRequest, DeleteRequest, UserWrites, CollectKey, KeyAppears,
         GiveTargets
<1>9. signatures' = signatures \/ SignAgain \/ \E k \in KeyIds : SignFirst(k)
  BY DEF PatchSignerKey, Respond, SyncRequest, SyncKey,
         CreateRequest, EditRequest, DeleteRequest, UserWrites, CollectKey, KeyAppears,
         GiveTargets
<1>. QED
  BY <1>1, <1>2, <1>3, <1>4, <1>5, <1>6, <1>7, <1>8, <1>9

\* What a step may do to the queue, the counters and the sets of names.
LEMMA BookkeepingMoves ==
  ASSUME [Next]_vars
  PROVE  /\ \/ queue' = queue
            \/ \E r \in Requests : queue' = queue \ {r} \/ queue' = queue \cup {r}
            \/ queue' = {} \/ queue' = CachedRequests \/ queue' = queue \cup CachedRequests
         /\ ops' = ops \/ (ops < MaxOps /\ ops' = ops + 1)
         /\ faults' = faults \/ (faults < MaxFaults /\ faults' = faults + 1)
         /\ \/ imageSigners' = imageSigners
            \/ \E s \in Signers : imageSigners' \in {imageSigners \ {s}, imageSigners \cup {s}}
         /\ orphans' = orphans \/ \E s \in Signers : orphans' \in {orphans \ {s}, orphans \cup {s}}
         /\ \/ signerCache' = signerCache
            \/ \E s \in Signers : signerCache' \in {signerCache \ {s}, signerCache \cup {s}}
         /\ up' \in {up, TRUE, FALSE, ~w.panics}
<1>. USE DEF Next, Attempt, Take, SkipRequest, GetSignRequest, GetSigner,
         GetSignerKey, StartCreates, StartFindsName, StartFails, PollPod, LoadImage,
         SignFails, SignAgain, SignFirst, Published, ReadTargetKey, PatchSignerKey, Close,
         Respond, Crash, Restart, Resync, SyncRequest, SyncSigner, SyncKey,
         PodStarts, PodEvent, Elsewhere, Environment, CreateRequest, EditRequest,
         DeleteRequest, UserWrites, DeleteSigner, CreateSigner, CollectKey, KeyAppears,
         GiveTargets, PodLost, Fault, NoFault, vars, podVars, apiVars, viewVars, notary
<1>1. \/ queue' = queue
      \/ \E r \in Requests : queue' = queue \ {r} \/ queue' = queue \cup {r}
      \/ queue' = {} \/ queue' = CachedRequests \/ queue' = queue \cup CachedRequests
  OBVIOUS
<1>2. ops' = ops \/ (ops < MaxOps /\ ops' = ops + 1)
  OBVIOUS
<1>3. faults' = faults \/ (faults < MaxFaults /\ faults' = faults + 1)
  OBVIOUS
<1>4. \/ imageSigners' = imageSigners
      \/ \E s \in Signers : imageSigners' \in {imageSigners \ {s}, imageSigners \cup {s}}
  OBVIOUS
<1>5. orphans' = orphans \/ \E s \in Signers : orphans' \in {orphans \ {s}, orphans \cup {s}}
  OBVIOUS
<1>6. \/ signerCache' = signerCache
      \/ \E s \in Signers : signerCache' \in {signerCache \ {s}, signerCache \cup {s}}
  OBVIOUS
<1>7. up' \in {up, TRUE, FALSE, ~w.panics}
  OBVIOUS
<1>. QED
  BY <1>1, <1>2, <1>3, <1>4, <1>5, <1>6, <1>7

LEMMA BookkeepingStep ==
  ASSUME IInv, [Next]_vars
  PROVE  /\ imageSigners' \in SUBSET Signers /\ orphans' \in SUBSET Signers
         /\ signerCache' \in SUBSET Signers
         /\ queue' \in SUBSET Requests /\ up' \in BOOLEAN
         /\ ops' \in 0..MaxOps /\ faults' \in 0..MaxFaults
<1>1. TypeOK
  BY DEF IInv
<1>2. queue' \in SUBSET Requests
  BY <1>1, BookkeepingMoves DEF TypeOK, CachedRequests
<1>3. ops' \in 0..MaxOps /\ faults' \in 0..MaxFaults
  <2>1. MaxOps \in Nat /\ MaxFaults \in Nat
    BY RequestAssumption
  <2>2. ops \in 0..MaxOps /\ faults \in 0..MaxFaults
    BY <1>1 DEF TypeOK
  <2>3. ops' = ops \/ (ops < MaxOps /\ ops' = ops + 1)
    BY BookkeepingMoves
  <2>4. faults' = faults \/ (faults < MaxFaults /\ faults' = faults + 1)
    BY BookkeepingMoves
  <2>. QED
    BY <2>1, <2>2, <2>3, <2>4
<1>4. /\ imageSigners' \in SUBSET Signers /\ orphans' \in SUBSET Signers
      /\ signerCache' \in SUBSET Signers
  BY <1>1, BookkeepingMoves DEF TypeOK
<1>5. up' \in BOOLEAN
  BY <1>1, BookkeepingMoves DEF TypeOK
<1>. QED
  BY <1>2, <1>3, <1>4, <1>5

LEMMA StartedPodType ==
  ASSUME IInv, w.pc = "create"
  PROVE  StartedPod \in Pod
<1>1. w.key \in SignerKey /\ w.tkey \in StartKey
  BY Locals DEF KeyedSteps
<1>2. w.tkey.id # None => w.tkey \in TrustKey
  BY Locals, <1>1 DEF IInv, PodMatches, KeyedSteps
<1>3. StoredFile("target", w.tkey) \in SUBSET KeyFile
  BY <1>2 DEF StoredFile, TrustKey, KeyFile, Roles
<1>4. StoredFile("root", w.key.root) \in SUBSET KeyFile
  BY <1>1 DEF StoredFile, SignerKey, TrustKey, KeyFile, Roles
<1>5. w.key.root.pass \in Passes /\ w.tkey.pass \in Passes
  BY <1>1 DEF SignerKey, TrustKey, StartKey
<1>. QED
  BY <1>3, <1>4, <1>5 DEF StartedPod, NewDindPod, Pod, Phases

\* The pod in which docker generated a target key.
LEMMA GeneratedPod ==
  ASSUME IInv, NEW k \in KeyIds, SignFirst(k)
  PROVE  /\ w.pod \in PodNames /\ pods[w.pod] \in Pod
         /\ \E pod \in Pod :
              /\ pods' = [pods EXCEPT ![w.pod] = pod]
              /\ \E f \in pod.files : f.role = "target" /\ f.id = k
<1>1. w.pc = "sign" /\ w.pod \in PodNames /\ pods[w.pod] # None
  BY Locals DEF SignFirst, At, PodSteps, PodRuns
<1>2. pods[w.pod] \in Pod /\ w.tkey \in StartKey
  BY <1>1, Locals DEF IInv, TypeOK, PodTypeOK, KeyedSteps
<1>. DEFINE f == [role |-> "target", id |-> k, enc |-> pods[w.pod].env["target"]]
            pod == [pods[w.pod] EXCEPT !.files = @ \cup {f}]
<1>3. pods[w.pod].env["target"] \in Passes
  BY <1>1, <1>2 DEF IInv, PodMatches, StartKey
<1>4. f \in KeyFile
  BY <1>3 DEF KeyFile, Roles
<1>5. pod \in Pod /\ f \in pod.files
  BY <1>2, <1>4 DEF Pod
<1>6. pods' = [pods EXCEPT ![w.pod] = pod]
  BY DEF SignFirst, Generate
<1>. HIDE DEF pod
<1>. QED
  BY <1>1, <1>2, <1>5, <1>6

\* Pods, their cache and the minted keys keep their types.
LEMMA PodTypesStep ==
  ASSUME IInv, [Next]_vars
  PROVE  PodTypeOK'
<1>1. PodTypeOK
  BY DEF IInv, TypeOK
<1>2. podCache' \in [PodNames -> Phases \cup {None}]
  <2>1. CASE podCache' = podCache
    BY <1>1, <2>1 DEF PodTypeOK
  <2>2. ASSUME NEW n \in PodNames, PodEvent(n)
        PROVE  podCache' \in [PodNames -> Phases \cup {None}]
    BY <1>1, <2>2 DEF PodEvent, SyncPod, PhaseOf, PodTypeOK, Pod
  <2>. QED
    BY <2>1, <2>2, Writers
<1>3. minted' \in SUBSET KeyIds
  BY <1>1, Writers DEF PodTypeOK, SignFirst, Generate, KeyAppears
<1>4. pods' \in [PodNames -> Pod \cup {None}]
  <2>1. CASE pods' = pods
    BY <1>1, <2>1 DEF PodTypeOK
  <2>2. ASSUME NEW n \in PodNames, StartCreates(n) \/ StartFails(n)
        PROVE  pods' \in [PodNames -> Pod \cup {None}]
    <3>1. StartedPod \in Pod
      BY <2>2, StartedPodType DEF StartCreates, StartFails, At
    <3>. QED
      BY <1>1, <2>2, <3>1 DEF PodTypeOK, StartCreates, StartFails, PodCreated
  <2>3. ASSUME NEW n \in PodNames, PodStarts(n)
        PROVE  pods' \in [PodNames -> Pod \cup {None}]
    BY <1>1, <2>3 DEF PodTypeOK, PodStarts, KubeletRuns, Pod, Phases
  <2>4. ASSUME NEW n \in PodNames, PodLost(n)
        PROVE  pods' \in [PodNames -> Pod \cup {None}]
    BY <1>1, <2>4 DEF PodTypeOK, PodLost, PodDeleted
  <2>5. ASSUME Close PROVE pods' \in [PodNames -> Pod \cup {None}]
    BY <1>1, <2>5 DEF PodTypeOK, Close, PodDeleted
  <2>6. ASSUME NEW k \in KeyIds, SignFirst(k)
        PROVE  pods' \in [PodNames -> Pod \cup {None}]
    BY <1>1, <2>6, GeneratedPod DEF PodTypeOK
  <2>. QED
    BY <2>1, <2>2, <2>3, <2>4, <2>5, <2>6, Writers
<1>. QED
  BY <1>2, <1>3, <1>4 DEF PodTypeOK

\* A merge patch of a SignerKey with a trust key is a SignerKey.
LEMMA MergePatchType ==
  ASSUME NEW key \in SignerKey, NEW t \in Targets, NEW k \in TrustKey
  PROVE  /\ MergePatch(key, t, k) \in SignerKey
         /\ MergePatch(key, t, k).root = key.root
         /\ \A x \in Targets :
              Recorded(MergePatch(key, t, k), x) = IF x = t THEN k ELSE Recorded(key, x)
<1>1. CASE key.targets = Nil
  <2>1. [EmptyMap EXCEPT ![t] = k] \in [Targets -> TrustKey \cup {None}]
    BY DEF EmptyMap
  <2>2. MergePatch(key, t, k) = [key EXCEPT !.targets = [EmptyMap EXCEPT ![t] = k]]
    BY <1>1 DEF MergePatch
  <2>3. [EmptyMap EXCEPT ![t] = k] # Nil
    BY <2>1, RequestAssumption
  <2>. QED
    BY <1>1, <2>1, <2>2, <2>3 DEF SignerKey, TargetMap, Recorded, EmptyMap
<1>2. CASE key.targets # Nil
  <2>1. key.targets \in [Targets -> TrustKey \cup {None}]
    BY <1>2 DEF SignerKey, TargetMap
  <2>2. [key.targets EXCEPT ![t] = k] \in [Targets -> TrustKey \cup {None}]
    BY <2>1
  <2>3. MergePatch(key, t, k) = [key EXCEPT !.targets = [key.targets EXCEPT ![t] = k]]
    BY <1>2 DEF MergePatch
  <2>4. [key.targets EXCEPT ![t] = k] # Nil
    BY <2>2, RequestAssumption
  <2>. QED
    BY <1>2, <2>1, <2>2, <2>3, <2>4 DEF SignerKey, TargetMap, Recorded
<1>. QED
  BY <1>1, <1>2

\* What a patch leaves at the server: nothing, the old object, or the old
\* object with the one entry.
LEMMA PatchEffect ==
  ASSUME IInv, PatchSignerKey
  PROVE  /\ w.pc = "patch" /\ Signer \in Signers /\ Target \in Targets /\ w.tkey \in TrustKey
         /\ \/ signerKeys' = signerKeys
            \/ /\ signerKeys[Signer] \in SignerKey
               /\ signerKeys' = [signerKeys EXCEPT ![Signer] =
                                   MergePatch(signerKeys[Signer], Target, w.tkey)]
<1>1. w.pc = "patch"
  BY DEF PatchSignerKey, At
<1>2. Signer \in Signers /\ Target \in Targets /\ w.tkey \in TrustKey
  BY <1>1, Locals DEF IInv, WorkerShape
<1>3. signerKeys[Signer] # None => signerKeys[Signer] \in SignerKey
  BY <1>2 DEF IInv, TypeOK
<1>4. \/ signerKeys' = signerKeys
      \/ /\ signerKeys[Signer] # None
         /\ signerKeys' = [signerKeys EXCEPT ![Signer] =
                             MergePatch(signerKeys[Signer], Target, w.tkey)]
  BY DEF PatchSignerKey
<1>. QED
  BY <1>1, <1>2, <1>3, <1>4

\* SignerKeys and their cached copies keep their types.
LEMMA KeyTypesStep ==
  ASSUME IInv, [Next]_vars
  PROVE  /\ signerKeys' \in [Signers -> SignerKey \cup {None}]
         /\ keyCache' \in [Signers -> SignerKey \cup {None}]
<1>1. /\ signerKeys \in [Signers -> SignerKey \cup {None}]
      /\ keyCache \in [Signers -> SignerKey \cup {None}]
  BY DEF IInv, TypeOK
<1>2. keyCache' \in [Signers -> SignerKey \cup {None}]
  BY <1>1, Writers DEF SyncKey
<1>3. ASSUME PatchSignerKey PROVE signerKeys' \in [Signers -> SignerKey \cup {None}]
  BY <1>1, <1>3, PatchEffect, MergePatchType
<1>4. ASSUME NEW s \in Signers, CollectKey(s)
      PROVE  signerKeys' \in [Signers -> SignerKey \cup {None}]
  BY <1>1, <1>4 DEF CollectKey
<1>5. ASSUME NEW s \in Signers, NEW k \in KeyIds, NEW p \in Passes, KeyAppears(s, k, p)
      PROVE  signerKeys' \in [Signers -> SignerKey \cup {None}]
  BY <1>1, <1>5, InitialKeyType DEF KeyAppears
<1>6. ASSUME NEW s \in Signers, GiveTargets(s)
      PROVE  signerKeys' \in [Signers -> SignerKey \cup {None}]
  BY <1>1, <1>6, GivenTargets
<1>. QED
  BY <1>1, <1>2, <1>3, <1>4, <1>5, <1>6, Writers

\* Requests, their cached copies and the revision keep their types.
LEMMA RequestTypesStep ==
  ASSUME IInv, [Next]_vars
  PROVE  /\ requests' \in [Requests -> Request \cup {None}]
         /\ reqCache' \in [Requests -> Request \cup {None}]
         /\ rev' \in Nat /\ rev' >= rev
<1>1. /\ requests \in [Requests -> Request \cup {None}]
      /\ reqCache \in [Requests -> Request \cup {None}] /\ rev \in Nat
  BY DEF IInv, TypeOK
<1>2. reqCache' \in [Requests -> Request \cup {None}]
  BY <1>1, Writers DEF SyncRequest
<1>3. ASSUME PatchSignerKey PROVE rev' \in Nat /\ rev' >= rev
  BY <1>1, <1>3 DEF PatchSignerKey
<1>4. ASSUME Respond
      PROVE  requests' \in [Requests -> Request \cup {None}] /\ rev' \in Nat /\ rev' >= rev
  <2>1. w.name \in Requests /\ w.obj \in Request /\ w \in Worker
    BY <1>4, Locals DEF Respond, At
  <2>2. [w.obj EXCEPT !.response = w.answer, !.rv = rev + 1] \in Request
    <3>1. rev + 1 \in Nat /\ w.answer \in Answers \cup {None}
      BY <1>1, <2>1 DEF Worker
    <3>. QED
      BY <2>1, <3>1 DEF Request
  <2>3. \/ requests' = requests /\ rev' = rev
        \/ /\ w.answer # None
           /\ requests' = [requests EXCEPT ![w.name] =
                             [w.obj EXCEPT !.response = w.answer, !.rv = rev + 1]]
           /\ rev' = rev + 1
    BY <1>4 DEF Respond
  <2>. QED
    BY <1>1, <2>1, <2>2, <2>3
<1>5. ASSUME NEW r \in Requests, NEW q \in Request \cup {None}, UserWrites(r, q)
      PROVE  requests' \in [Requests -> Request \cup {None}] /\ rev' \in Nat /\ rev' >= rev
  BY <1>1, <1>5 DEF UserWrites
<1>6. ASSUME NEW r \in Requests, CreateRequest(r) \/ EditRequest(r) \/ DeleteRequest(r)
      PROVE  requests' \in [Requests -> Request \cup {None}] /\ rev' \in Nat /\ rev' >= rev
  <2>1. CASE CreateRequest(r)
    <3>1. PICK s \in Signers, t \in Targets, g \in RegistryFound :
            UserWrites(r, [uid |-> rev + 1, rv |-> rev + 1, signer |-> s, target |-> t,
                           registry |-> g, response |-> None])
      BY <2>1 DEF CreateRequest
    <3>2. g \in BOOLEAN
      BY RequestAssumption
    <3>. QED
      BY <1>1, <1>5, <3>1, <3>2 DEF Request
  <2>2. CASE EditRequest(r)
    <3>1. [requests[r] EXCEPT !.rv = rev + 1] \in Request
      BY <1>1, <2>2 DEF EditRequest, Request
    <3>. QED
      BY <1>5, <2>2, <3>1 DEF EditRequest
  <2>3. CASE DeleteRequest(r)
    BY <1>5, <2>3 DEF DeleteRequest
  <2>. QED
    BY <1>6, <2>1, <2>2, <2>3
<1>7. rev' \in Nat /\ rev' >= rev
  BY <1>1, <1>3, <1>4, <1>6, Writers
<1>8. requests' \in [Requests -> Request \cup {None}]
  BY <1>1, <1>4, <1>6, Writers
<1>. QED
  BY <1>2, <1>7, <1>8

LEMMA TypesStep ==
  ASSUME IInv, [Next]_vars
  PROVE  TypeOK'
<1>1. repos \in [Targets -> Repo \cup {None}] /\ signatures \in SUBSET Nat
  BY DEF IInv, TypeOK
<1>2. ASSUME NEW k \in KeyIds, SignFirst(k)
      PROVE  repos' \in [Targets -> Repo \cup {None}] /\ signatures' \in SUBSET Nat
  <2>1. w.pc = "sign" /\ w.obj \in Request /\ w.key \in SignerKey
    BY <1>2, Locals DEF SignFirst, At, KeyedSteps
  <2>2. w.key.root.id \in KeyIds /\ w.obj.uid \in Nat
    BY <2>1 DEF SignerKey, TrustKey, Request
  <2>3. [root |-> w.key.root.id, target |-> k] \in Repo
    BY <2>2 DEF Repo
  <2>. QED
    BY <1>1, <1>2, <2>2, <2>3 DEF SignFirst, Published
<1>3. ASSUME SignAgain PROVE signatures' \in SUBSET Nat
  <2>1. w.obj.uid \in Nat
    BY <1>3, Locals DEF SignAgain, At, Request
  <2>. QED
    BY <1>1, <1>3, <2>1 DEF SignAgain, Published
<1>4. repos' \in [Targets -> Repo \cup {None}] /\ signatures' \in SUBSET Nat
  BY <1>1, <1>2, <1>3, Writers
<1>. QED
  BY <1>4, WorkerStep, BookkeepingStep, PodTypesStep, KeyTypesStep, RequestTypesStep DEF TypeOK

(***************************************************************************)
(* What a step does to the worker's locals.                                *)
(***************************************************************************)
\* A step of an attempt stays in the attempt and with its request, or is the
\* last one; nothing else touches the worker.
LEMMA AttemptMoves ==
  ASSUME IInv, [Next]_vars
  PROVE  \/ w' = w
         \/ w' = Idle /\ w.pc # "idle" /\ (Respond \/ Crash)
         \/ w' = Idle /\ w.pc = "idle" /\ Crash
         \/ \E r \in Requests : GetSignRequest(r)
         \/ /\ w.pc # "idle" /\ w'.pc # "idle"
            /\ w'.obj = w.obj /\ w'.name = w.name
            /\ \/ GetSigner \/ GetSignerKey
               \/ \E n \in PodNames : StartCreates(n) \/ StartFindsName(n) \/ StartFails(n)
               \/ PollPod \/ LoadImage
               \/ SignFails \/ SignAgain \/ \E k \in KeyIds : SignFirst(k)
               \/ ReadTargetKey \/ PatchSignerKey \/ Close
<1>1. \/ w' = w
      \/ w' = Idle /\ w.pc # "idle" /\ (Respond \/ Crash)
      \/ w' = Idle /\ w.pc = "idle" /\ Crash
      \/ \E r \in Requests : GetSignRequest(r)
      \/ GetSigner \/ GetSignerKey
      \/ \E n \in PodNames : StartCreates(n) \/ StartFindsName(n) \/ StartFails(n)
      \/ PollPod \/ LoadImage
      \/ SignFails \/ SignAgain \/ \E k \in KeyIds : SignFirst(k)
      \/ ReadTargetKey \/ PatchSignerKey \/ Close
  BY DEF Next, Attempt, Take, SkipRequest, Respond, Crash, At, Restart, Resync, SyncRequest, SyncSigner,
         SyncKey, PodStarts, PodEvent, Elsewhere, Environment, CreateRequest, EditRequest,
         DeleteRequest, UserWrites, DeleteSigner, CreateSigner, CollectKey, KeyAppears,
         GiveTargets, PodLost, vars
<1>2. w \in Worker
  BY DEF IInv, TypeOK
<1>. DEFINE Stays == w.pc # "idle" /\ w'.pc # "idle" /\ w'.obj = w.obj /\ w'.name = w.name
<1>3. ASSUME GetSigner \/ LoadImage \/ SignFails \/ Close PROVE Stays
  BY <1>2, <1>3 DEF GetSigner, LoadImage, SignFails, Close, At, FailTo, Worker
<1>4. ASSUME GetSignerKey PROVE Stays
  BY <1>2, <1>4 DEF GetSignerKey, At, FailTo, Worker
<1>5. ASSUME NEW n \in PodNames, StartCreates(n) \/ StartFindsName(n) \/ StartFails(n) PROVE Stays
  BY <1>2, <1>5 DEF StartCreates, StartFindsName, StartFails, At, FailTo, Worker
<1>6. ASSUME PollPod PROVE Stays
  BY <1>2, <1>6 DEF PollPod, StartGivesUp, At, FailTo, Worker
<1>7. ASSUME SignAgain \/ \E k \in KeyIds : SignFirst(k) PROVE Stays
  BY <1>2, <1>7 DEF SignAgain, SignFirst, Published, AfterSign, At, FailTo, Worker
<1>8. ASSUME ReadTargetKey \/ PatchSignerKey PROVE Stays
  BY <1>2, <1>8 DEF ReadTargetKey, PatchSignerKey, At, FailTo, Worker
<1>. QED
  BY <1>1, <1>3, <1>4, <1>5, <1>6, <1>7, <1>8

\* The worker's locals are set by the time they are needed.
LEMMA ShapeStep ==
  ASSUME IInv, [Next]_vars
  PROVE  WorkerShape'
<1>1. w \in Worker /\ w' \in Worker /\ WorkerShape
  BY WorkerStep DEF IInv, TypeOK
<1>2. CASE w' = w
  BY <1>1, <1>2 DEF WorkerShape
<1>3. CASE w' = Idle
  BY <1>3, RequestAssumption DEF Answers, WorkerShape, Idle, KeyedSteps, PodSteps
<1>4. ASSUME NEW r \in Requests, GetSignRequest(r) PROVE WorkerShape'
  <2>1. reqCache[r] \in Request
    BY <1>4 DEF GetSignRequest, IInv, TypeOK
  <2>2. w = Idle /\ w' = [Idle EXCEPT !.pc = "getSigner", !.name = r, !.obj = reqCache[r]]
    BY <1>1, <1>4 DEF GetSignRequest, At, WorkerShape
  <2>. QED
    BY <2>1, <2>2, PodAssumption, RequestAssumption DEF WorkerShape, KeyedSteps, PodSteps, Idle, Answers
<1>5. ASSUME GetSigner PROVE WorkerShape'
  BY <1>1, <1>5 DEF GetSigner, At, FailTo, WorkerShape, KeyedSteps, PodSteps, Worker
<1>6. ASSUME GetSignerKey PROVE WorkerShape'
  <2>1. Signer \in Signers /\ Target \in Targets
    BY <1>6, Locals DEF GetSignerKey, At
  <2>2. keyCache[Signer] # None => keyCache[Signer] \in SignerKey
    BY <2>1 DEF IInv, TypeOK
  <2>3. w.answer # "Success" /\ w.pc = "getKey"
    BY <1>1, <1>6 DEF GetSignerKey, At, WorkerShape
  <2>4. CASE keyCache[Signer] = None
    BY <1>1, <1>6, <2>3, <2>4 DEF GetSignerKey, FailTo, WorkerShape, KeyedSteps, PodSteps, Worker
  <2>5. CASE keyCache[Signer] # None
    <3>1. PICK k \in StartKey :
            \/ w' = [w EXCEPT !.pc = "create", !.key = keyCache[Signer], !.tkey = k]
            \/ w' = [w EXCEPT !.pc = "create", !.key = keyCache[Signer], !.tkey = k, !.added = TRUE]
      BY Zenon, <1>6, <2>1, <2>2, <2>5, RecordedType, TrustKeyIsStartKey DEF GetSignerKey
    <3>. QED
      BY <1>1, <2>2, <2>3, <2>5, <3>1 DEF WorkerShape, KeyedSteps, PodSteps, Worker
  <2>. QED
    BY <2>4, <2>5
<1>7. ASSUME NEW n \in PodNames, StartCreates(n) \/ StartFindsName(n) \/ StartFails(n)
      PROVE  WorkerShape'
  BY <1>1, <1>7 DEF StartCreates, StartFindsName, StartFails, At, WorkerShape, KeyedSteps, PodSteps, Worker
<1>8. ASSUME PollPod PROVE WorkerShape'
  BY <1>1, <1>8 DEF PollPod, StartGivesUp, At, FailTo, WorkerShape, KeyedSteps, PodSteps, Worker
<1>9. ASSUME LoadImage \/ SignFails PROVE WorkerShape'
  BY <1>1, <1>9 DEF LoadImage, SignFails, At, FailTo, WorkerShape, KeyedSteps, PodSteps, Worker
<1>10. ASSUME SignAgain \/ \E k \in KeyIds : SignFirst(k) PROVE WorkerShape'
  BY <1>1, <1>10 DEF SignAgain, SignFirst, Published, AfterSign, At, FailTo, WorkerShape,
                     KeyedSteps, PodSteps, Worker
<1>11. ASSUME ReadTargetKey PROVE WorkerShape'
  <2>1. w.pc = "readKey" /\ w.pod \in PodNames /\ w.tkey \in StartKey
    BY <1>11, Locals DEF ReadTargetKey, At, PodSteps, KeyedSteps
  <2>2. pods[w.pod] # None => pods[w.pod] \in Pod
    BY <2>1 DEF IInv, TypeOK, PodTypeOK
  <2>3. w.tkey.pass \in Passes
    BY <2>1 DEF StartKey
  <2>4. \/ w' = [w EXCEPT !.pc = "close", !.answer = "Fail"]
        \/ w' = [w EXCEPT !.pc = "close", !.panics = TRUE]
        \/ \E k \in TrustKey : w' = [w EXCEPT !.pc = "patch", !.tkey = k]
    BY Zenon, <1>11, <2>2, <2>3, ReadKeyType DEF ReadTargetKey, FailTo
  <2>. QED
    BY <1>1, <2>1, <2>4, TrustKeyIsStartKey DEF WorkerShape, KeyedSteps, PodSteps, Worker
<1>12. ASSUME PatchSignerKey \/ Close PROVE WorkerShape'
  BY <1>1, <1>12 DEF PatchSignerKey, Close, At, FailTo, WorkerShape, KeyedSteps, PodSteps, Worker
<1>. QED
  BY <1>2, <1>3, <1>4, <1>5, <1>6, <1>7, <1>8, <1>9, <1>10, <1>11, <1>12, AttemptMoves

(***************************************************************************)
(* What a step does to the copies of a SignerKey and to the repositories.  *)
(***************************************************************************)
LEMMA CopiesType ==
  ASSUME IInv, NEW s \in Signers, NEW key \in Copies(s), key # None
  PROVE  key \in SignerKey
<1>1. signerKeys[s] \in SignerKey \cup {None} /\ keyCache[s] \in SignerKey \cup {None}
  BY DEF IInv, TypeOK
<1>2. w.pc \in KeyedSteps => w.key \in SignerKey
  BY DEF IInv, WorkerShape
<1>. QED
  BY <1>1, <1>2 DEF Copies

\* A repository stays bound as it was; signatures and keys accumulate.
LEMMA ReposStep ==
  ASSUME IInv, [Next]_vars
  PROVE  /\ \A t \in Targets : repos[t] # None => repos'[t] = repos[t]
         /\ signatures \subseteq signatures'
         /\ minted \subseteq minted'
<1>1. repos \in [Targets -> Repo \cup {None}]
  BY DEF IInv, TypeOK
<1>2. \A t \in Targets : repos[t] # None => repos'[t] = repos[t]
  <2>1. ASSUME NEW k \in KeyIds, SignFirst(k)
        PROVE  \A t \in Targets : repos[t] # None => repos'[t] = repos[t]
    BY <1>1, <2>1 DEF SignFirst
  <2>. QED
    BY <2>1, Writers
<1>3. signatures \subseteq signatures'
  BY Writers DEF SignFirst, SignAgain, Published
<1>4. minted \subseteq minted'
  BY Writers DEF SignFirst, Generate, KeyAppears
<1>. QED
  BY <1>2, <1>3, <1>4

\* The snapshot the worker goes on with is the one it had, or the cached copy
\* of the request's signer.
LEMMA SnapshotStep ==
  ASSUME IInv, [Next]_vars, w'.pc \in KeyedSteps
  PROVE  /\ w'.obj = w.obj /\ w.pc # "idle"
         /\ \/ w.pc \in KeyedSteps /\ w'.key = w.key
            \/ w'.key = keyCache[Signer]
<1>1. w \in Worker /\ WorkerShape
  BY DEF IInv, TypeOK
<1>2. w' # Idle
  BY DEF Idle, KeyedSteps
<1>3. ASSUME NEW r \in Requests, GetSignRequest(r) PROVE FALSE
  BY <1>1, <1>3 DEF GetSignRequest, KeyedSteps, Worker
<1>4. CASE w' = w
  BY <1>1, <1>4 DEF WorkerShape, Idle, KeyedSteps
<1>. DEFINE Kept == w.pc \in KeyedSteps /\ w'.key = w.key
<1>5. ASSUME GetSigner \/ LoadImage \/ SignFails \/ Close PROVE Kept
  BY <1>1, <1>5 DEF GetSigner, LoadImage, SignFails, Close, At, FailTo, Worker, KeyedSteps
<1>6. ASSUME GetSignerKey PROVE w'.key = keyCache[Signer]
  <2>1. w'.pc # "respond"
    BY DEF KeyedSteps
  <2>2. ~ FailTo("respond")
    BY <1>1, <2>1 DEF FailTo, Worker
  <2>3. PICK k : \/ w' = [w EXCEPT !.pc = "create", !.key = keyCache[Signer], !.tkey = k]
                 \/ w' = [w EXCEPT !.pc = "create", !.key = keyCache[Signer], !.tkey = k, !.added = TRUE]
    BY Zenon, <1>6, <2>2 DEF GetSignerKey
  <2>. QED
    BY <1>1, <2>3 DEF Worker
<1>7. ASSUME NEW n \in PodNames, StartCreates(n) \/ StartFindsName(n) \/ StartFails(n) PROVE Kept
  BY <1>1, <1>7 DEF StartCreates, StartFindsName, StartFails, At, Worker, KeyedSteps
<1>8. ASSUME PollPod PROVE Kept
  BY <1>1, <1>8 DEF PollPod, StartGivesUp, At, FailTo, Worker, KeyedSteps
<1>9. ASSUME SignAgain \/ \E k \in KeyIds : SignFirst(k) PROVE Kept
  BY <1>1, <1>9 DEF SignAgain, SignFirst, Published, AfterSign, At, FailTo, Worker, KeyedSteps
<1>10. ASSUME ReadTargetKey \/ PatchSignerKey PROVE Kept
  BY <1>1, <1>10 DEF ReadTargetKey, PatchSignerKey, At, FailTo, Worker, KeyedSteps
<1>. QED
  BY <1>2, <1>3, <1>4, <1>5, <1>6, <1>7, <1>8, <1>9, <1>10, AttemptMoves

\* A copy after a step is one from before it, the patched SignerKey, a new one
\* without target keys, or the SignerKey with an empty map for no map.
LEMMA CopiesStep ==
  ASSUME IInv, [Next]_vars, NEW s \in Signers, NEW key \in Copies(s)', key # None
  PROVE  \/ key \in Copies(s)
         \/ /\ PatchSignerKey /\ s = Signer /\ signerKeys[s] \in SignerKey
            /\ key = MergePatch(signerKeys[s], Target, w.tkey)
            /\ key = signerKeys'[s]
         \/ \E k \in KeyIds, p \in Passes : KeyAppears(s, k, p) /\ key = InitialKey("nil", k, p)
         \/ GiveTargets(s) /\ key = signerKeys'[s]
<1>1. /\ signerKeys \in [Signers -> SignerKey \cup {None}]
      /\ keyCache \in [Signers -> SignerKey \cup {None}]
  BY DEF IInv, TypeOK
<1>2. keyCache'[s] \in {keyCache[s], signerKeys[s]}
  BY <1>1, Writers DEF SyncKey
<1>3. \/ signerKeys'[s] \in {signerKeys[s], None}
      \/ /\ PatchSignerKey /\ s = Signer /\ signerKeys[s] \in SignerKey
         /\ signerKeys'[s] = MergePatch(signerKeys[s], Target, w.tkey)
      \/ \E k \in KeyIds, p \in Passes :
           KeyAppears(s, k, p) /\ signerKeys'[s] = InitialKey("nil", k, p)
      \/ GiveTargets(s)
  <2>1. CASE PatchSignerKey
    BY <1>1, <2>1, PatchEffect
  <2>2. ASSUME NEW x \in Signers, CollectKey(x) PROVE signerKeys'[s] \in {signerKeys[s], None}
    BY <1>1, <2>2 DEF CollectKey
  <2>3. ASSUME NEW x \in Signers, NEW k \in KeyIds, NEW p \in Passes, KeyAppears(x, k, p)
        PROVE  \/ signerKeys'[s] = signerKeys[s]
               \/ KeyAppears(s, k, p) /\ signerKeys'[s] = InitialKey("nil", k, p)
    <3>1. signerKeys' = [signerKeys EXCEPT ![x] = InitialKey("nil", k, p)]
      BY <2>3 DEF KeyAppears
    <3>. QED
      BY <1>1, <2>3, <3>1
  <2>4. ASSUME NEW x \in Signers, GiveTargets(x), x # s PROVE signerKeys'[s] = signerKeys[s]
    BY <1>1, <2>4 DEF GiveTargets
  <2>. QED
    BY <2>1, <2>2, <2>3, <2>4, Writers
<1>4. CASE key = signerKeys'[s] \/ key = keyCache'[s]
  BY <1>2, <1>3, <1>4 DEF Copies
<1>5. CASE w'.pc \in KeyedSteps /\ w'.obj.signer = s /\ key = w'.key
  BY <1>5, SnapshotStep DEF Copies, Signer
<1>. QED
  BY <1>4, <1>5 DEF Copies

\* A repository is bound only while no copy of a SignerKey records a key for
\* it, by an attempt that will record the new one.
LEMMA SignFirstEffect ==
  ASSUME IInv, NEW k \in KeyIds, SignFirst(k)
  PROVE  /\ w.pc = "sign" /\ Target \in Targets /\ Signer \in Signers
         /\ w.key \in SignerKey /\ w.pod \in PodNames /\ w.added
         /\ repos[Target] = None
         /\ repos' = [repos EXCEPT ![Target] = [root |-> w.key.root.id, target |-> k]]
         /\ \A s \in Signers : \A key \in Copies(s) : key # None => Recorded(key, Target) = None
<1>1. /\ w.pc = "sign" /\ Target \in Targets /\ Signer \in Signers
      /\ w.key \in SignerKey /\ w.pod \in PodNames
  BY Locals DEF SignFirst, At, KeyedSteps, PodSteps
<1>2. /\ repos[Target] = None
      /\ repos' = [repos EXCEPT ![Target] = [root |-> w.key.root.id, target |-> k]]
  BY DEF SignFirst
<1>3. \A s \in Signers : \A key \in Copies(s) : key # None => Recorded(key, Target) = None
  BY <1>1, <1>2 DEF IInv, EntriesOpen
<1>4. w.key \in Copies(Signer)
  BY <1>1 DEF Copies, KeyedSteps, Signer
<1>5. w.key # None /\ Recorded(w.key, Target) = None
  BY <1>1, <1>3, <1>4, RequestAssumption
<1>6. w.added
  <2>1. ~w.added => w.tkey \in TrustKey /\ w.tkey = Recorded(w.key, Target)
    BY <1>1 DEF IInv, PodMatches
  <2>. QED
    BY <1>5, <2>1, PodAssumption
<1>. QED
  BY <1>1, <1>2, <1>3, <1>6

LEMMA NewKeyIsEmpty ==
  ASSUME NEW k \in KeyIds, NEW p \in Passes
  PROVE  /\ InitialKey("nil", k, p).root.id = k
         /\ InitialKey("nil", k, p) # None
         /\ \A t \in Targets : Recorded(InitialKey("nil", k, p), t) = None
<1>1. InitialKey("nil", k, p) = [root |-> [id |-> k, enc |-> p, pass |-> p], targets |-> Nil]
  BY DEF InitialKey
<1>2. InitialKey("nil", k, p) \in SignerKey
  BY <1>1 DEF SignerKey, TrustKey, TargetMap
<1>. QED
  BY <1>1, <1>2, RequestAssumption DEF Recorded

LEMMA RootsStep ==
  ASSUME IInv, [Next]_vars
  PROVE  RootsMinted'
<1>1. RootsMinted
  BY DEF IInv
<1>2. ASSUME NEW s \in Signers, NEW key \in Copies(s)', key # None
      PROVE  key.root.id \in minted'
  <2>1. CASE key \in Copies(s)
    BY <1>1, <1>2, <2>1, ReposStep DEF RootsMinted
  <2>2. CASE PatchSignerKey /\ s = Signer /\ signerKeys[s] \in SignerKey
             /\ key = MergePatch(signerKeys[s], Target, w.tkey)
    <3>1. key.root = signerKeys[s].root
      BY <2>2, PatchEffect, MergePatchType
    <3>2. signerKeys[s] \in Copies(s) /\ signerKeys[s] # None
      BY <2>2, RequestAssumption DEF Copies
    <3>. QED
      BY <1>1, <3>1, <3>2, ReposStep DEF RootsMinted
  <2>3. ASSUME NEW k \in KeyIds, NEW p \in Passes, KeyAppears(s, k, p), key = InitialKey("nil", k, p)
        PROVE  key.root.id \in minted'
    BY <2>3, NewKeyIsEmpty DEF KeyAppears
  <2>4. CASE GiveTargets(s) /\ key = signerKeys'[s]
    <3>1. signerKeys[s] \in Copies(s) /\ signerKeys[s] # None
      BY <2>4, GivenTargets, RequestAssumption DEF Copies
    <3>. QED
      BY <1>1, <2>4, <3>1, GivenTargets, ReposStep DEF RootsMinted
  <2>. QED
    BY <1>2, <2>1, <2>2, <2>3, <2>4, CopiesStep
<1>3. ASSUME NEW t \in Targets, repos'[t] # None
      PROVE  repos'[t].root \in minted'
  <2>1. CASE repos[t] # None
    BY <1>1, <2>1, ReposStep DEF RootsMinted
  <2>2. CASE repos[t] = None
    <3>1. repos \in [Targets -> Repo \cup {None}]
      BY DEF IInv, TypeOK
    <3>2. PICK k \in KeyIds : SignFirst(k)
      BY <1>3, <2>2, Writers
    <3>3. repos'[t].root = w.key.root.id
      BY <1>3, <2>2, <3>1, <3>2, SignFirstEffect
    <3>4. w.key \in Copies(Signer) /\ w.key # None /\ Signer \in Signers
      BY <3>2, SignFirstEffect, RequestAssumption DEF Copies, KeyedSteps, Signer
    <3>. QED
      BY <1>1, <3>3, <3>4, ReposStep DEF RootsMinted
  <2>. QED
    BY <2>1, <2>2
<1>. QED
  BY <1>2, <1>3 DEF RootsMinted

LEMMA EntriesStep ==
  ASSUME IInv, [Next]_vars
  PROVE  EntriesOpen'
<1>1. SUFFICES ASSUME NEW s \in Signers, NEW t \in Targets, NEW key \in Copies(s)',
                      key # None, Recorded(key, t) # None
               PROVE  /\ repos'[t] # None
                      /\ Recorded(key, t).id = repos'[t].target
                      /\ Recorded(key, t).enc = Recorded(key, t).pass
  BY DEF EntriesOpen, Recorded
<1>. DEFINE Open(e) == repos[t] # None /\ e.id = repos[t].target /\ e.enc = e.pass
<1>2. SUFFICES Open(Recorded(key, t))
  BY ReposStep
<1>3. ASSUME NEW old \in Copies(s), old # None, Recorded(old, t) # None
      PROVE  Open(Recorded(old, t))
  BY <1>3 DEF IInv, EntriesOpen
<1>4. CASE key \in Copies(s)
  BY <1>1, <1>3, <1>4
<1>5. CASE PatchSignerKey /\ s = Signer /\ signerKeys[s] \in SignerKey
           /\ key = MergePatch(signerKeys[s], Target, w.tkey)
  <2>1. signerKeys[s] \in Copies(s) /\ signerKeys[s] # None
    BY <1>5, RequestAssumption DEF Copies
  <2>2. w.pc = "patch" /\ Target \in Targets /\ w.tkey \in TrustKey
    BY <1>5, PatchEffect
  <2>3. Recorded(key, t) = IF t = Target THEN w.tkey ELSE Recorded(signerKeys[s], t)
    BY <1>5, <2>2, MergePatchType
  <2>4. /\ repos[Target] # None
        /\ w.tkey.id = repos[Target].target /\ w.tkey.enc = w.tkey.pass
    BY <2>2 DEF IInv, KeyInTransit
  <2>. QED
    BY <1>1, <1>3, <2>1, <2>3, <2>4
<1>6. ASSUME NEW k \in KeyIds, NEW p \in Passes, KeyAppears(s, k, p), key = InitialKey("nil", k, p)
      PROVE  FALSE
  BY <1>1, <1>6, NewKeyIsEmpty
<1>7. ASSUME GiveTargets(s), key = signerKeys'[s]
      PROVE  FALSE
  BY <1>1, <1>7, GivenTargets
<1>. QED
  BY <1>1, <1>4, <1>5, <1>6, <1>7, CopiesStep

\* What makes a signature last: the SignerKey a repository was bound under
\* keeps its entry, and no other SignerKey ever has its root key.
LEMMA LiveStep ==
  ASSUME IInv, [Next]_vars, NEW s \in Signers, NEW t \in Targets,
         repos[t] # None, LiveRecords(s, t)
  PROVE  LiveRecords(s, t)'
<1>1. SUFFICES ASSUME signerKeys'[s] # None, signerKeys'[s].root.id = repos[t].root
               PROVE  Recorded(signerKeys'[s], t) # None
  BY ReposStep DEF LiveRecords, Recorded
<1>2. signerKeys \in [Signers -> SignerKey \cup {None}]
  BY DEF IInv, TypeOK
<1>3. CASE signerKeys'[s] = signerKeys[s]
  BY <1>1, <1>3 DEF LiveRecords
<1>4. ASSUME PatchSignerKey, signerKeys'[s] # signerKeys[s]
      PROVE  Recorded(signerKeys'[s], t) # None
  <2>1. /\ s = Signer /\ signerKeys[s] \in SignerKey /\ Target \in Targets /\ w.tkey \in TrustKey
        /\ signerKeys'[s] = MergePatch(signerKeys[s], Target, w.tkey)
    BY <1>2, <1>4, PatchEffect
  <2>2. /\ signerKeys'[s].root = signerKeys[s].root
        /\ Recorded(signerKeys'[s], t) = IF t = Target THEN w.tkey ELSE Recorded(signerKeys[s], t)
    BY <2>1, MergePatchType
  <2>3. w.tkey # None /\ signerKeys[s] # None
    BY <2>1, PodAssumption, RequestAssumption
  <2>. QED
    BY <1>1, <2>2, <2>3 DEF LiveRecords
<1>5. ASSUME NEW x \in Signers, CollectKey(x), signerKeys'[s] # signerKeys[s] PROVE FALSE
  BY <1>1, <1>2, <1>5 DEF CollectKey
<1>6. ASSUME NEW x \in Signers, NEW k \in KeyIds, NEW p \in Passes, KeyAppears(x, k, p),
             signerKeys'[s] # signerKeys[s]
      PROVE  FALSE
  <2>1. signerKeys'[s] = InitialKey("nil", k, p) /\ k \notin minted
    BY <1>2, <1>6 DEF KeyAppears
  <2>2. repos[t].root \in minted
    BY DEF IInv, RootsMinted
  <2>. QED
    BY <1>1, <2>1, <2>2, NewKeyIsEmpty
<1>7. ASSUME NEW x \in Signers, GiveTargets(x), signerKeys'[s] # signerKeys[s] PROVE FALSE
  <2>1. x = s
    BY <1>2, <1>7 DEF GiveTargets
  <2>2. signerKeys[s] # None /\ signerKeys[s].root.id = repos[t].root
    BY <1>1, <1>7, <2>1, GivenTargets, RequestAssumption
  <2>. QED
    BY <1>7, <2>1, <2>2, GivenTargets DEF LiveRecords
<1>. QED
  BY <1>3, <1>4, <1>5, <1>6, <1>7, Writers

LEMMA LiveKeepsStep ==
  ASSUME IInv, [Next]_vars
  PROVE  LiveKeepsEntries'
<1>1. SUFFICES ASSUME NEW s \in Signers, NEW t \in Targets, NEW key \in Copies(s)',
                      key # None, Recorded(key, t) # None
               PROVE  LiveRecords(s, t)'
  BY DEF LiveKeepsEntries, Recorded
<1>2. ASSUME NEW old \in Copies(s), old # None, Recorded(old, t) # None
      PROVE  LiveRecords(s, t)'
  BY <1>2, LiveStep DEF IInv, EntriesOpen, LiveKeepsEntries
<1>3. CASE key \in Copies(s)
  BY <1>1, <1>2, <1>3
<1>4. CASE PatchSignerKey /\ s = Signer /\ signerKeys[s] \in SignerKey
           /\ key = MergePatch(signerKeys[s], Target, w.tkey)
           /\ key = signerKeys'[s]
  <2>1. signerKeys[s] \in Copies(s) /\ signerKeys[s] # None
    BY <1>4, RequestAssumption DEF Copies
  <2>2. w.pc = "patch" /\ Target \in Targets /\ w.tkey \in TrustKey
    BY <1>4, PatchEffect
  <2>3. CASE Recorded(signerKeys[s], t) # None
    BY <1>2, <2>1, <2>3
  <2>4. CASE t = Target
    BY <1>1, <1>4 DEF LiveRecords, Recorded
  <2>5. signerKeys[s] \in SignerKey /\ key = MergePatch(signerKeys[s], Target, w.tkey)
    BY <1>4
  <2>6. Recorded(MergePatch(signerKeys[s], Target, w.tkey), t)
          = IF t = Target THEN w.tkey ELSE Recorded(signerKeys[s], t)
    BY <2>2, <2>5, MergePatchType
  <2>. QED
    BY <1>1, <2>3, <2>4, <2>5, <2>6
<1>5. ASSUME NEW k \in KeyIds, NEW p \in Passes, KeyAppears(s, k, p), key = InitialKey("nil", k, p)
      PROVE  FALSE
  BY <1>1, <1>5, NewKeyIsEmpty
<1>6. ASSUME GiveTargets(s), key = signerKeys'[s]
      PROVE  FALSE
  BY <1>1, <1>6, GivenTargets
<1>. QED
  BY <1>1, <1>3, <1>4, <1>5, <1>6, CopiesStep

LEMMA VersionsStep ==
  ASSUME IInv, [Next]_vars
  PROVE  Versions'
<1>1. /\ requests \in [Requests -> Request \cup {None}]
      /\ reqCache \in [Requests -> Request \cup {None}]
      /\ rev \in Nat /\ w \in Worker /\ Versions /\ WorkerShape
  BY DEF IInv, TypeOK
<1>2. /\ requests' \in [Requests -> Request \cup {None}]
      /\ rev' \in Nat /\ rev' >= rev
  BY RequestTypesStep
\* A request changes to a newer version only.
<1>3. \A r \in Requests :
        \/ requests'[r] = requests[r]
        \/ requests'[r] = None
        \/ requests'[r].rv = rev + 1 /\ rev' = rev + 1
  <2>1. CASE Respond
    <3>1. w.obj \in Request /\ w.name \in Requests
      BY <2>1, Locals DEF Respond, At
    <3>2. [w.obj EXCEPT !.response = w.answer, !.rv = rev + 1].rv = rev + 1
      BY <3>1 DEF Request
    <3>3. \/ requests' = requests
          \/ /\ requests' = [requests EXCEPT ![w.name] =
                               [w.obj EXCEPT !.response = w.answer, !.rv = rev + 1]]
             /\ rev' = rev + 1
      BY <2>1 DEF Respond
    <3>. QED
      BY <1>1, <3>1, <3>2, <3>3
  <2>2. ASSUME NEW x \in Requests, CreateRequest(x)
        PROVE  \A r \in Requests : \/ requests'[r] = requests[r]
                                   \/ requests'[r].rv = rev + 1 /\ rev' = rev + 1
    BY <1>1, <2>2 DEF CreateRequest, UserWrites
  <2>3. ASSUME NEW x \in Requests, EditRequest(x)
        PROVE  \A r \in Requests : \/ requests'[r] = requests[r]
                                   \/ requests'[r].rv = rev + 1 /\ rev' = rev + 1
    <3>1. requests[x] \in Request
      BY <1>1, <2>3 DEF EditRequest
    <3>2. [requests[x] EXCEPT !.rv = rev + 1].rv = rev + 1
      BY <3>1 DEF Request
    <3>. QED
      BY <1>1, <2>3, <3>2 DEF EditRequest, UserWrites
  <2>4. ASSUME NEW x \in Requests, DeleteRequest(x)
        PROVE  \A r \in Requests : requests'[r] = requests[r] \/ requests'[r] = None
    BY <1>1, <2>4 DEF DeleteRequest, UserWrites
  <2>. QED
    BY <2>1, <2>2, <2>3, <2>4, Writers
<1>4. \A r \in Requests : reqCache'[r] = reqCache[r] \/ reqCache'[r] = requests[r]
  BY <1>1, Writers DEF SyncRequest
<1>5. ASSUME NEW r \in Requests
      PROVE  /\ requests'[r] # None => requests'[r].rv <= rev'
             /\ reqCache'[r] # None => reqCache'[r].rv <= rev'
             /\ SameVersion(reqCache'[r], requests'[r])
  <2>1. /\ requests[r] # None => requests[r].rv \in Nat /\ requests[r].rv <= rev
        /\ reqCache[r] # None => reqCache[r].rv \in Nat /\ reqCache[r].rv <= rev
        /\ SameVersion(reqCache[r], requests[r])
    BY <1>1 DEF Versions, Request
  <2>2. requests'[r] # None => requests'[r].rv <= rev'
    BY <1>1, <1>2, <1>3, <2>1
  <2>3. reqCache'[r] # None => reqCache'[r].rv \in Nat /\ reqCache'[r].rv <= rev
    BY <1>4, <2>1
  <2>4. SameVersion(reqCache'[r], requests[r])
    BY <1>4, <2>1 DEF SameVersion
  <2>5. SameVersion(reqCache'[r], requests'[r])
    BY <1>1, <1>3, <2>3, <2>4 DEF SameVersion
  <2>. QED
    BY <1>1, <1>2, <2>2, <2>3, <2>5
<1>6. ASSUME w'.pc # "idle"
      PROVE  /\ w'.obj.response = None
             /\ w'.obj.rv <= rev'
             /\ SameVersion(w'.obj, requests'[w'.name])
             /\ SameVersion(w'.obj, reqCache'[w'.name])
  \* The request in hand was read from the cache now or before.
  <2>1. /\ w'.name \in Requests /\ w'.obj \in Request
        /\ w'.obj.response = None
        /\ w'.obj.rv <= rev
        /\ SameVersion(w'.obj, requests[w'.name])
        /\ SameVersion(w'.obj, reqCache[w'.name])
    <3>1. ASSUME NEW r \in Requests, GetSignRequest(r)
          PROVE  w'.name = r /\ w'.obj = reqCache[r] /\ reqCache[r] \in Request
                 /\ reqCache[r].response = None
      BY <1>1, <3>1 DEF GetSignRequest, Worker
    <3>2. CASE \E r \in Requests : GetSignRequest(r)
      <4>1. PICK r \in Requests : GetSignRequest(r)
        BY <3>2
      <4>2. /\ w'.name = r /\ w'.obj = reqCache[r] /\ reqCache[r] \in Request
            /\ reqCache[r].response = None /\ reqCache[r] # None
        BY <3>1, <4>1, RequestAssumption
      <4>3. reqCache[r].rv <= rev /\ SameVersion(reqCache[r], requests[r])
        BY <1>1, <4>2 DEF Versions
      <4>. QED
        BY <4>2, <4>3 DEF SameVersion
    <3>3. CASE w'.obj = w.obj /\ w'.name = w.name /\ w.pc # "idle"
      BY <1>1, <3>3 DEF Versions, WorkerShape
    <3>. QED
      BY <1>6, <3>2, <3>3, AttemptMoves DEF Idle
  <2>2. w'.obj.rv \in Nat /\ w'.obj # None
    BY <2>1, RequestAssumption DEF Request
  <2>3. w'.obj.rv <= rev'
    BY <1>1, <1>2, <2>1, <2>2
  <2>4. SameVersion(w'.obj, requests'[w'.name])
    BY <1>1, <1>3, <2>1, <2>2 DEF SameVersion
  <2>5. SameVersion(w'.obj, reqCache'[w'.name])
    BY <1>4, <2>1 DEF SameVersion
  <2>. QED
    BY <2>1, <2>3, <2>4, <2>5
<1>. QED
  BY <1>5, <1>6 DEF Versions, SameVersion

(***************************************************************************)
(* The key of the attempt in progress.                                     *)
(***************************************************************************)
\* A pod outside its first steps is changed by its kubelet, by its loss and by
\* docker only.
LEMMA PodStep ==
  ASSUME IInv, [Next]_vars, NEW n \in PodNames, pods[n] # None, pods'[n] # None
  PROVE  \/ pods'[n].env = pods[n].env /\ pods'[n].files = pods[n].files
         \/ \E k \in KeyIds : SignFirst(k) /\ n = w.pod
<1>1. pods \in [PodNames -> Pod \cup {None}]
  BY DEF IInv, TypeOK, PodTypeOK
<1>2. CASE pods' = pods
  BY <1>2
<1>3. ASSUME NEW x \in PodNames, StartCreates(x) \/ StartFails(x) PROVE pods'[n] = pods[n]
  BY <1>1, <1>3 DEF StartCreates, StartFails, PodCreated
<1>4. ASSUME NEW x \in PodNames, PodStarts(x)
      PROVE  pods'[n].env = pods[n].env /\ pods'[n].files = pods[n].files
  BY <1>1, <1>4 DEF PodStarts, KubeletRuns, Pod
<1>5. ASSUME NEW x \in PodNames, PodLost(x) PROVE pods'[n] = pods[n]
  BY <1>1, <1>5 DEF PodLost, PodDeleted
<1>6. ASSUME Close PROVE pods'[n] = pods[n]
  BY <1>1, <1>6 DEF Close, PodDeleted
<1>7. ASSUME NEW k \in KeyIds, SignFirst(k), n # w.pod PROVE pods'[n] = pods[n]
  BY <1>1, <1>7 DEF SignFirst, Generate
<1>. QED
  BY <1>2, <1>3, <1>4, <1>5, <1>6, <1>7, Writers

\* What StartedPod holds.
LEMMA StartedPodKeys ==
  ASSUME IInv, w.pc = "create"
  PROVE  /\ StartedPod.env.target = w.tkey.pass
         /\ w.added => \A f \in StartedPod.files : f.role # "target"
<1>1. w.added => w.tkey.id = None
  BY DEF IInv, PodMatches
<1>2. \A f \in StoredFile("root", w.key.root) : f.role # "target"
  BY DEF StoredFile
<1>3. w.added => StoredFile("target", w.tkey) = {}
  BY <1>1 DEF StoredFile
<1>. QED
  BY <1>2, <1>3 DEF StartedPod, NewDindPod

\* SignAgain needs the recorded key, which only a recorded entry brings into
\* the pod.
LEMMA SignAgainEffect ==
  ASSUME IInv, SignAgain
  PROVE  /\ w.pc = "sign" /\ ~w.added
         /\ repos[Target] # None /\ Recorded(w.key, Target) # None
<1>1. w.pc = "sign" /\ w.pod \in PodNames /\ pods[w.pod] # None /\ repos[Target] # None
  BY Locals DEF SignAgain, At, PodRuns, PodSteps
<1>2. \E f \in pods[w.pod].files : f.role = "target"
  BY DEF SignAgain, Opens
<1>3. ~w.added
  BY <1>1, <1>2 DEF IInv, PodMatches
<1>4. w.tkey \in TrustKey /\ w.tkey = Recorded(w.key, Target)
  BY <1>1, <1>3 DEF IInv, PodMatches
<1>. QED
  BY <1>1, <1>3, <1>4, PodAssumption

LEMMA PodMatchesStep ==
  ASSUME IInv, [Next]_vars
  PROVE  PodMatches'
<1>1. w \in Worker /\ w' \in Worker /\ PodMatches /\ pods \in [PodNames -> Pod \cup {None}]
  BY WorkerStep DEF IInv, TypeOK, PodTypeOK
\* A step that keeps the locals of an attempt keeps PodMatches.
<1>2. ASSUME w.pc \in {"poll", "load", "sign"},
             w'.pod = w.pod, w'.tkey = w.tkey, w'.key = w.key, w'.obj = w.obj, w'.added = w.added,
             \A k \in KeyIds : ~SignFirst(k)
      PROVE  PodMatches'
  <2>1. w.pod \in PodNames
    BY <1>2, Locals DEF PodSteps
  <2>2. pods'[w.pod] # None /\ pods[w.pod] # None =>
          pods'[w.pod].env = pods[w.pod].env /\ pods'[w.pod].files = pods[w.pod].files
    BY <1>2, <2>1, PodStep
  <2>3. pods'[w.pod] # None => pods[w.pod] # None
    BY <1>1, <1>2, <2>1, Writers DEF StartCreates, StartFails, At, PodStarts, KubeletRuns,
                                      PodLost, Close, PodDeleted
  <2>. QED
    BY <1>1, <1>2, <2>1, <2>2, <2>3 DEF PodMatches, Target, Recorded
<1>3. CASE w' = w /\ w.pc \in {"poll", "load", "sign"}
  <2>1. \A k \in KeyIds : ~SignFirst(k)
    BY <1>1, <1>3 DEF SignFirst, Published, AfterSign, FailTo, Worker
  <2>. QED
    BY <1>2, <1>3, <2>1
<1>4. CASE w' = w /\ w.pc \notin {"poll", "load", "sign"}
  BY <1>1, <1>4 DEF PodMatches, Target, Recorded
<1>5. CASE w' = Idle
  BY <1>5 DEF Idle, PodMatches
<1>6. ASSUME w'.pc \notin {"create", "poll", "load", "sign"} PROVE PodMatches'
  BY <1>6 DEF PodMatches
<1>7. ASSUME NEW r \in Requests, GetSignRequest(r) PROVE PodMatches'
  BY <1>1, <1>6, <1>7 DEF GetSignRequest, Worker
<1>8. ASSUME GetSigner \/ SignFails \/ ReadTargetKey \/ PatchSignerKey \/ Close
      PROVE  w'.pc \notin {"create", "poll", "load", "sign"}
  BY <1>1, <1>8 DEF GetSigner, SignFails, ReadTargetKey, PatchSignerKey, Close, FailTo, Worker
<1>9. ASSUME SignAgain \/ \E k \in KeyIds : SignFirst(k)
      PROVE  w'.pc \notin {"create", "poll", "load", "sign"}
  BY <1>1, <1>9 DEF SignAgain, SignFirst, Published, AfterSign, FailTo, Worker
<1>10. ASSUME GetSignerKey PROVE PodMatches'
  <2>1. Signer \in Signers /\ Target \in Targets /\ w.pc = "getKey"
    BY <1>10, Locals DEF GetSignerKey, At
  <2>2. keyCache[Signer] # None => keyCache[Signer] \in SignerKey
    BY <2>1 DEF IInv, TypeOK
  <2>3. ~w.added
    BY <2>1 DEF IInv, WorkerShape
  <2>4. CASE FailTo("respond")
    BY <1>1, <1>6, <2>4 DEF FailTo, Worker
  <2>5. CASE /\ keyCache[Signer] # None /\ Recorded(keyCache[Signer], Target) # None
             /\ w' = [w EXCEPT !.pc = "create", !.key = keyCache[Signer],
                               !.tkey = Recorded(keyCache[Signer], Target)]
    <3>1. Recorded(keyCache[Signer], Target) \in TrustKey
      BY <2>1, <2>2, <2>5, RecordedType
    <3>2. /\ w'.pc = "create" /\ w'.key = keyCache[Signer] /\ ~w'.added
          /\ w'.tkey = Recorded(keyCache[Signer], Target) /\ w'.obj = w.obj
      BY <1>1, <2>3, <2>5 DEF Worker
    <3>. QED
      BY <3>1, <3>2 DEF PodMatches, Target, Recorded
  <2>6. ASSUME NEW p \in Passes,
               w' = [w EXCEPT !.pc = "create", !.key = keyCache[Signer],
                              !.tkey = NewTargetKey(p), !.added = TRUE]
        PROVE  PodMatches'
    <3>1. w'.pc = "create" /\ w'.added /\ w'.tkey = NewTargetKey(p)
      BY <1>1, <2>6 DEF Worker
    <3>. QED
      BY <3>1 DEF PodMatches, NewTargetKey
  <2>. QED
    BY Zenon, <1>10, <2>4, <2>5, <2>6 DEF GetSignerKey
<1>11. ASSUME NEW n \in PodNames, StartFindsName(n) \/ StartFails(n)
       PROVE  w'.pc \notin {"create", "poll", "load", "sign"}
  BY <1>1, <1>11 DEF StartFindsName, StartFails, Worker
<1>12. ASSUME NEW n \in PodNames, StartCreates(n) PROVE PodMatches'
  <2>1. /\ w.pc = "create" /\ w'.pc = "poll" /\ w'.pod = n /\ w'.tkey = w.tkey /\ w'.key = w.key
        /\ w'.obj = w.obj /\ w'.added = w.added
    BY <1>1, <1>12 DEF StartCreates, At, Worker
  <2>2. pods'[n] = StartedPod
    BY <1>1, <1>12 DEF StartCreates, PodCreated
  <2>. QED
    BY <1>1, <2>1, <2>2, StartedPodKeys DEF PodMatches, Target, Recorded
<1>13. ASSUME PollPod \/ LoadImage PROVE PodMatches'
  <2>1. /\ w.pc \in {"poll", "load"} /\ w'.pod = w.pod /\ w'.tkey = w.tkey /\ w'.key = w.key
        /\ w'.obj = w.obj /\ w'.added = w.added
    BY <1>1, <1>13 DEF PollPod, LoadImage, StartGivesUp, FailTo, At, Worker
  <2>2. \A k \in KeyIds : ~SignFirst(k)
    BY <2>1 DEF SignFirst, At
  <2>. QED
    BY <1>2, <2>1, <2>2
<1>. QED
  BY <1>3, <1>4, <1>5, <1>6, <1>7, <1>8, <1>9, <1>10, <1>11, <1>12, <1>13, AttemptMoves

LEMMA TransitStep ==
  ASSUME IInv, [Next]_vars
  PROVE  KeyInTransit'
<1>1. /\ w \in Worker /\ w' \in Worker /\ KeyInTransit /\ WorkerShape
      /\ pods \in [PodNames -> Pod \cup {None}] /\ repos \in [Targets -> Repo \cup {None}]
  BY WorkerStep DEF IInv, TypeOK, PodTypeOK
<1>2. SUFFICES ASSUME w'.pc \in {"readKey", "patch"}
               PROVE  /\ w'.obj.uid \in signatures'
                      /\ repos'[Target'] # None
                      /\ repos'[Target'].root = w'.key.root.id
                      /\ \A s \in Signers : \A key \in Copies(s)' :
                           key # None => Recorded(key, Target') = None
                      /\ w'.pc = "readKey" /\ pods'[w'.pod] # None =>
                           \A f \in pods'[w'.pod].files :
                             f.role = "target" => f.id = repos'[Target'].target /\ f.enc = w'.tkey.pass
                      /\ w'.pc = "patch" => /\ w'.tkey.id = repos'[Target'].target
                                            /\ w'.tkey.enc = w'.tkey.pass
  BY DEF KeyInTransit, Recorded
\* No copy gains an entry for the target before the patch.
<1>3. ASSUME ~PatchSignerKey, NEW t \in Targets,
             \A s \in Signers : \A key \in Copies(s) : key # None => Recorded(key, t) = None
      PROVE  \A s \in Signers : \A key \in Copies(s)' : key # None => Recorded(key, t) = None
  BY <1>3, CopiesStep, NewKeyIsEmpty, GivenTargets
<1>4. CASE w' = w
  <2>1. /\ w.pod \in PodNames /\ Target \in Targets /\ w.pc \in {"readKey", "patch"}
        /\ Target' = Target
    BY <1>2, <1>4, Locals DEF PodSteps, Target
  <2>2. ~PatchSignerKey /\ \A k \in KeyIds : ~SignFirst(k)
    BY <1>1, <1>4, <2>1 DEF PatchSignerKey, SignFirst, FailTo, At, Worker
  <2>3. /\ w.obj.uid \in signatures' /\ repos'[Target] = repos[Target]
        /\ repos[Target] # None
    BY <1>1, <2>1, ReposStep DEF KeyInTransit
  <2>4. \A s \in Signers : \A key \in Copies(s)' : key # None => Recorded(key, Target) = None
    BY <1>1, <1>3, <2>1, <2>2 DEF KeyInTransit
  <2>5. pods'[w.pod] # None => pods[w.pod] # None /\ pods'[w.pod].files = pods[w.pod].files
    <3>1. pods'[w.pod] # None => pods[w.pod] # None
      BY <1>1, <2>1, Writers DEF StartCreates, StartFails, At, PodStarts, KubeletRuns,
                                 PodLost, Close, PodDeleted, SignFirst
    <3>. QED
      BY <2>1, <2>2, <3>1, PodStep
  <2>. QED
    BY <1>1, <1>4, <2>1, <2>3, <2>4, <2>5 DEF KeyInTransit
<1>5. ASSUME NEW k \in KeyIds, SignFirst(k)
      PROVE  /\ w'.obj.uid \in signatures'
             /\ repos'[Target'] # None
             /\ repos'[Target'].root = w'.key.root.id
             /\ \A s \in Signers : \A key \in Copies(s)' :
                  key # None => Recorded(key, Target') = None
             /\ w'.pc = "readKey"
             /\ pods'[w'.pod] # None =>
                  \A f \in pods'[w'.pod].files :
                    f.role = "target" => f.id = repos'[Target'].target /\ f.enc = w'.tkey.pass
  <2>1. /\ w.pc = "sign" /\ Target \in Targets /\ w.pod \in PodNames /\ w.added
        /\ repos' = [repos EXCEPT ![Target] = [root |-> w.key.root.id, target |-> k]]
        /\ \A s \in Signers : \A key \in Copies(s) : key # None => Recorded(key, Target) = None
    BY <1>5, SignFirstEffect
  <2>2. ~FailTo("close")
    BY <1>1, <1>2 DEF FailTo, Worker
  <2>3. w' = [w EXCEPT !.pc = "readKey"] /\ signatures' = signatures \cup {w.obj.uid}
    BY <1>5, <2>1, <2>2 DEF SignFirst, Published, AfterSign
  <2>4. /\ w'.pc = "readKey" /\ w'.obj = w.obj /\ w'.key = w.key /\ w'.pod = w.pod /\ w'.tkey = w.tkey
        /\ Target' = Target
    BY <1>1, <2>3 DEF Worker, Target
  <2>5. ~PatchSignerKey
    BY <2>1 DEF PatchSignerKey, At
  <2>6. repos'[Target] = [root |-> w.key.root.id, target |-> k] /\ repos'[Target] # None
    <3>1. w.key.root.id \in KeyIds
      BY <1>5, SignFirstEffect DEF SignerKey, TrustKey
    <3>2. [root |-> w.key.root.id, target |-> k] \in Repo
      BY <3>1 DEF Repo
    <3>. QED
      BY <1>1, <2>1, <3>2, RequestAssumption
  <2>7. /\ pods[w.pod] \in Pod /\ pods[w.pod].env.target = w.tkey.pass
        /\ \A f \in pods[w.pod].files : f.role # "target"
    BY <1>1, <1>5, <2>1 DEF SignFirst, PodRuns, IInv, PodMatches
  <2>8. pods'[w.pod].files =
          pods[w.pod].files \cup {[role |-> "target", id |-> k, enc |-> pods[w.pod].env["target"]]}
    BY <1>1, <1>5, <2>1, <2>7 DEF SignFirst, Generate, Pod
  <2>. QED
    BY <1>3, <2>1, <2>3, <2>4, <2>5, <2>6, <2>7, <2>8
<1>6. ASSUME ReadTargetKey
      PROVE  /\ w'.obj.uid \in signatures'
             /\ repos'[Target'] # None
             /\ repos'[Target'].root = w'.key.root.id
             /\ \A s \in Signers : \A key \in Copies(s)' :
                  key # None => Recorded(key, Target') = None
             /\ w'.pc = "patch"
             /\ w'.tkey.id = repos'[Target'].target
             /\ w'.tkey.enc = w'.tkey.pass
  <2>1. w.pc = "readKey" /\ Target \in Targets /\ w.pod \in PodNames
    BY <1>6, Locals DEF ReadTargetKey, At, PodSteps
  <2>2. PICK k \in ReadTrustKey(pods[w.pod], "target", w.tkey.pass) :
          pods[w.pod] # None /\ w' = [w EXCEPT !.pc = "patch", !.tkey = k]
    <3>1. w'.pc # "close"
      BY <1>2
    <3>2. ~FailTo("close") /\ w' # [w EXCEPT !.pc = "close", !.panics = TRUE]
      BY <1>1, <3>1 DEF FailTo, Worker
    <3>. QED
      BY Zenon, <1>6, <3>2 DEF ReadTargetKey
  <2>3. /\ w'.pc = "patch" /\ w'.obj = w.obj /\ w'.key = w.key /\ w'.tkey = k /\ Target' = Target
    BY <1>1, <2>2 DEF Worker, Target
  <2>4. k.id = repos[Target].target /\ k.enc = k.pass
    BY <1>1, <2>1, <2>2 DEF KeyInTransit, ReadTrustKey
  <2>5. /\ w.obj.uid \in signatures' /\ repos'[Target] = repos[Target]
        /\ repos[Target] # None /\ repos[Target].root = w.key.root.id
    BY <1>1, <2>1, ReposStep DEF KeyInTransit
  <2>6. ~PatchSignerKey
    BY <2>1 DEF PatchSignerKey, At
  <2>7. \A s \in Signers : \A key \in Copies(s)' : key # None => Recorded(key, Target) = None
    BY <1>1, <1>3, <2>1, <2>6 DEF KeyInTransit
  <2>. QED
    BY <2>3, <2>4, <2>5, <2>7
<1>7. ASSUME SignAgain PROVE FALSE
  <2>1. ~w.added
    BY <1>7, SignAgainEffect
  <2>. QED
    BY <1>1, <1>2, <1>7, <2>1 DEF SignAgain, Published, AfterSign, FailTo, Worker
<1>8. ASSUME GetSigner \/ LoadImage \/ SignFails \/ PatchSignerKey \/ Close PROVE FALSE
  BY <1>1, <1>2, <1>8 DEF GetSigner, LoadImage, SignFails, PatchSignerKey, Close, FailTo, Worker
<1>9. ASSUME GetSignerKey PROVE FALSE
  BY <1>1, <1>2, <1>9 DEF GetSignerKey, FailTo, Worker
<1>10. ASSUME NEW n \in PodNames, StartCreates(n) \/ StartFindsName(n) \/ StartFails(n) PROVE FALSE
  BY <1>1, <1>2, <1>10 DEF StartCreates, StartFindsName, StartFails, Worker
<1>11. ASSUME PollPod PROVE FALSE
  BY <1>1, <1>2, <1>11 DEF PollPod, StartGivesUp, FailTo, At, Worker
<1>12. ASSUME NEW r \in Requests, GetSignRequest(r) PROVE FALSE
  BY <1>1, <1>2, <1>12 DEF GetSignRequest, Worker
<1>13. w' # Idle
  BY <1>2 DEF Idle
<1>. QED
  BY <1>2, <1>4, <1>5, <1>6, <1>7, <1>8, <1>9, <1>10, <1>11, <1>12, <1>13, AttemptMoves

(***************************************************************************)
(* Successes.                                                              *)
(***************************************************************************)
\* A backed request stays backed.
LEMMA BackedStep ==
  ASSUME IInv, [Next]_vars, NEW req \in Request, Backed(req)
  PROVE  Backed(req)'
<1>1. req.uid \in signatures /\ req.signer \in Signers /\ req.target \in Targets
      /\ repos[req.target] # None /\ LiveRecords(req.signer, req.target)
  BY DEF Backed, Request
<1>2. req.uid \in signatures' /\ repos'[req.target] = repos[req.target]
  BY <1>1, ReposStep
<1>3. LiveRecords(req.signer, req.target)'
  BY <1>1, LiveStep
<1>. QED
  BY <1>1, <1>2, <1>3 DEF Backed

\* A step that reaches a success leaves the attempt's request backed: the
\* signature was made with a recorded key, or the patch has recorded it.
LEMMA SuccessReached ==
  ASSUME IInv, [Next]_vars, w.answer # "Success", w'.answer = "Success"
  PROVE  w'.obj = w.obj /\ w.obj \in Request /\ Backed(w.obj)'
<1>1. w \in Worker /\ w' \in Worker
  BY WorkerStep DEF IInv, TypeOK
<1>2. /\ w.pc # "idle" /\ w'.obj = w.obj
      /\ SignAgain \/ (\E k \in KeyIds : SignFirst(k)) \/ PatchSignerKey
  <2>1. w' # w /\ w' # Idle
    BY RequestAssumption DEF Idle, Answers
  <2>2. ASSUME NEW r \in Requests, GetSignRequest(r) PROVE FALSE
    BY <1>1, <2>2 DEF GetSignRequest, Worker
  <2>3. ASSUME GetSigner \/ PollPod \/ LoadImage \/ SignFails PROVE FALSE
    BY <1>1, <2>3 DEF GetSigner, PollPod, StartGivesUp, LoadImage, SignFails, FailTo, Worker
  <2>4. ASSUME GetSignerKey PROVE FALSE
    BY <1>1, <2>4 DEF GetSignerKey, FailTo, Worker
  <2>5. ASSUME NEW n \in PodNames, StartCreates(n) \/ StartFindsName(n) \/ StartFails(n)
        PROVE  FALSE
    BY <1>1, <2>5 DEF StartCreates, StartFindsName, StartFails, Worker
  <2>6. ASSUME ReadTargetKey \/ Close PROVE FALSE
    BY <1>1, <2>6 DEF ReadTargetKey, Close, FailTo, Worker
  <2>. QED
    BY <2>1, <2>2, <2>3, <2>4, <2>5, <2>6, AttemptMoves
<1>3. w.obj \in Request /\ Signer \in Signers /\ Target \in Targets
  BY <1>2, Locals
<1>4. ASSUME NEW k \in KeyIds, SignFirst(k) PROVE FALSE
  <2>1. w.added
    BY <1>4, SignFirstEffect
  <2>. QED
    BY <1>1, <1>4, <2>1 DEF SignFirst, Published, AfterSign, FailTo, Worker
<1>5. CASE SignAgain
  <2>1. w.pc = "sign" /\ repos[Target] # None /\ Recorded(w.key, Target) # None
    BY <1>5, SignAgainEffect
  <2>2. w.obj.uid \in signatures'
    <3>1. ~FailTo("close")
      BY <1>1 DEF FailTo, Worker
    <3>. QED
      BY <1>5, <3>1 DEF SignAgain, Published
  <2>3. w.key \in Copies(Signer) /\ w.key # None
    BY <1>1, <2>1, Locals, RequestAssumption DEF Copies, KeyedSteps, Signer
  <2>4. LiveRecords(Signer, Target)
    BY <1>3, <2>1, <2>3 DEF IInv, LiveKeepsEntries
  <2>5. LiveRecords(Signer, Target)'
    <3>1. \A s \in Signers, t \in Targets :
            repos[t] # None /\ LiveRecords(s, t) => LiveRecords(s, t)'
      BY LiveStep
    <3>. QED
      BY <1>2, <1>3, <2>1, <2>4, <3>1 DEF Signer, Target, LiveRecords
  <2>6. repos'[Target] # None
    BY <1>3, <2>1, ReposStep
  <2>. QED
    BY <1>2, <1>3, <2>2, <2>5, <2>6 DEF Backed, Signer, Target, LiveRecords
<1>6. CASE PatchSignerKey
  <2>1. w.pc = "patch" /\ w.tkey \in TrustKey
    BY <1>6, PatchEffect
  <2>2. signerKeys[Signer] # None /\ signerKeys[Signer] \in SignerKey
        /\ signerKeys' = [signerKeys EXCEPT ![Signer] = MergePatch(@, Target, w.tkey)]
    <3>1. ~FailTo("close")
      BY <1>1 DEF FailTo, Worker
    <3>2. signerKeys[Signer] # None
          /\ signerKeys' = [signerKeys EXCEPT ![Signer] = MergePatch(@, Target, w.tkey)]
      BY <1>6, <3>1 DEF PatchSignerKey
    <3>. QED
      BY <1>3, <3>2 DEF IInv, TypeOK
  <2>3. Recorded(signerKeys'[Signer], Target) = w.tkey
    <3>1. signerKeys'[Signer] = MergePatch(signerKeys[Signer], Target, w.tkey)
      BY <1>3, <2>2 DEF IInv, TypeOK
    <3>. QED
      BY <1>3, <2>1, <2>2, <3>1, MergePatchType
  <2>4. w.tkey # None
    BY <2>1, PodAssumption
  <2>5. w.obj.uid \in signatures /\ repos[Target] # None
    BY <2>1 DEF IInv, KeyInTransit
  <2>6. w.obj.uid \in signatures' /\ repos'[Target] # None
    BY <1>3, <2>5, ReposStep
  <2>. QED
    BY <1>2, <1>3, <2>3, <2>4, <2>6 DEF Backed, LiveRecords, Signer, Target, Recorded
<1>. QED
  BY <1>2, <1>3, <1>4, <1>5, <1>6

LEMMA SuccessesStep ==
  ASSUME IInv, [Next]_vars
  PROVE  Successes'
<1>1. /\ w \in Worker /\ w' \in Worker /\ Successes
      /\ requests \in [Requests -> Request \cup {None}]
      /\ WorkerShape
  BY WorkerStep DEF IInv, TypeOK
<1>2. w'.answer = "Success" => Backed(w.obj)'
  <2>1. SUFFICES ASSUME w'.answer = "Success" PROVE Backed(w.obj)'
    OBVIOUS
  <2>2. CASE w.answer = "Success"
    <3>1. w.pc # "idle"
      BY <1>1, <2>2 DEF WorkerShape
    <3>2. w.obj \in Request /\ Backed(w.obj)
      BY <1>1, <2>2, <3>1, Locals DEF Successes
    <3>3. w'.obj = w.obj
      <4>1. w' # Idle
        BY <2>1, RequestAssumption DEF Idle, Answers
      <4>2. \A r \in Requests : ~GetSignRequest(r)
        BY <3>1 DEF GetSignRequest, At
      <4>. QED
        BY <4>1, <4>2, AttemptMoves
    <3>4. \A req \in Request : Backed(req) => Backed(req)'
      BY BackedStep
    <3>. QED
      BY <3>2, <3>3, <3>4 DEF Backed, LiveRecords
  <2>3. CASE w.answer # "Success"
    BY <2>1, <2>3, SuccessReached DEF Backed, LiveRecords
  <2>. QED
    BY <2>2, <2>3
<1>3. ASSUME NEW r \in Requests, requests'[r] # None, requests'[r].response = "Success"
      PROVE  Backed(requests[r])'
  <2>1. \A req \in Request : Backed(req) => Backed(req)'
    BY BackedStep
  <2>2. CASE requests'[r] = requests[r]
    <3>1. requests[r] \in Request /\ Backed(requests[r])
      BY <1>1, <1>3, <2>2 DEF Successes
    <3>. QED
      BY <2>1, <2>2, <3>1 DEF Backed, LiveRecords
  <2>3. ASSUME EditRequest(r)
        PROVE  Backed(requests[r])'
    <3>1. requests[r] \in Request /\ requests'[r] = [requests[r] EXCEPT !.rv = rev + 1]
      BY <1>1, <2>3 DEF EditRequest, UserWrites
    <3>2. /\ requests'[r].uid = requests[r].uid /\ requests'[r].target = requests[r].target
          /\ requests'[r].signer = requests[r].signer
          /\ requests[r].response = "Success"
      BY <1>3, <3>1 DEF Request
    <3>3. Backed(requests[r]) /\ requests[r] # None
      BY <1>1, <3>1, <3>2, RequestAssumption DEF Successes
    <3>. QED
      BY <2>1, <3>1, <3>2, <3>3 DEF Backed, LiveRecords
  <2>4. ASSUME Respond, requests'[r] # requests[r]
        PROVE  Backed(requests[r])'
    <3>1. w.pc # "idle" /\ w.obj \in Request
      BY <2>4, Locals DEF Respond, At
    <3>2. requests'[r] = [w.obj EXCEPT !.response = w.answer, !.rv = rev + 1]
      BY <1>1, <2>4 DEF Respond
    <3>3. /\ requests'[r].uid = w.obj.uid /\ requests'[r].target = w.obj.target
          /\ requests'[r].signer = w.obj.signer /\ w.answer = "Success"
      BY <1>3, <3>1, <3>2 DEF Request
    <3>4. Backed(w.obj)
      BY <1>1, <3>3 DEF Successes
    <3>. QED
      BY <2>1, <3>1, <3>3, <3>4 DEF Backed, LiveRecords
  <2>5. ASSUME CreateRequest(r) \/ DeleteRequest(r) PROVE FALSE
    <3>1. ~DeleteRequest(r)
      BY <1>1, <1>3 DEF DeleteRequest, UserWrites
    <3>2. requests'[r].response = None
      BY <1>1, <2>5, <3>1 DEF CreateRequest, UserWrites
    <3>. QED
      BY <1>3, <3>2, RequestAssumption DEF Answers
  <2>6. ASSUME NEW x \in Requests, x # r, CreateRequest(x) \/ EditRequest(x) \/ DeleteRequest(x)
        PROVE  requests'[r] = requests[r]
    BY <1>1, <2>6 DEF CreateRequest, EditRequest, DeleteRequest, UserWrites
  <2>. QED
    BY <2>2, <2>3, <2>4, <2>5, <2>6, Writers
<1>. QED
  BY <1>2, <1>3 DEF Successes, Backed, LiveRecords

LEMMA IInvStep ==
  ASSUME IInv, [Next]_vars
  PROVE  IInv'
BY TypesStep, ShapeStep, VersionsStep, RootsStep, EntriesStep, LiveKeepsStep,
   PodMatchesStep, TransitStep, SuccessesStep DEF IInv

(***************************************************************************)
(* The initial states.                                                     *)
(***************************************************************************)
LEMMA InitKeys ==
  ASSUME Init
  PROVE  /\ signerKeys \in [Signers -> SignerKey \cup {None}]
         /\ minted \in SUBSET KeyIds
         /\ \A s \in Signers : signerKeys[s] # None => signerKeys[s].root.id \in minted
         /\ \A s \in Signers, t \in Targets :
              signerKeys[s] # None => Recorded(signerKeys[s], t) = None
<1>1. PICK shape \in [Signers -> KeyShapes], rootId \in [Signers -> KeyIds], p \in Passes :
        /\ signerKeys = [s \in Signers |-> InitialKey(shape[s], rootId[s], p)]
        /\ minted = {rootId[s] : s \in {x \in Signers : shape[x] # "absent"}}
  BY DEF Init
<1>2. \A s \in Signers : shape[s] \in {"absent", "nil", "map"} /\ rootId[s] \in KeyIds
  BY RequestAssumption
<1>3. signerKeys \in [Signers -> SignerKey \cup {None}]
  BY <1>1, <1>2, InitialKeyType
<1>4. minted \in SUBSET KeyIds
  BY <1>1, <1>2
<1>5. ASSUME NEW s \in Signers, signerKeys[s] # None
      PROVE  /\ signerKeys[s].root.id \in minted
             /\ \A t \in Targets : Recorded(signerKeys[s], t) = None
  <2>1. signerKeys[s] = InitialKey(shape[s], rootId[s], p)
    BY <1>1
  <2>2. shape[s] # "absent"
    BY <1>5, <2>1 DEF InitialKey
  <2>3. signerKeys[s] = [root    |-> [id |-> rootId[s], enc |-> p, pass |-> p],
                         targets |-> IF shape[s] = "nil" THEN Nil ELSE EmptyMap]
    BY <2>1, <2>2 DEF InitialKey
  <2>4. rootId[s] \in minted
    BY <1>1, <2>2
  <2>. QED
    BY <2>3, <2>4 DEF Recorded, EmptyMap
<1>. QED
  BY <1>3, <1>4, <1>5

LEMMA InitTypes ==
  ASSUME Init
  PROVE  TypeOK
<1>1. PodTypeOK
  BY InitKeys DEF Init, PodTypeOK
<1>2. /\ requests \in [Requests -> Request \cup {None}]
      /\ reqCache \in [Requests -> Request \cup {None}]
  BY DEF Init
<1>3. /\ imageSigners \in SUBSET Signers /\ orphans \in SUBSET Signers
      /\ signerCache \in SUBSET Signers
  BY DEF Init
<1>4. /\ signerKeys \in [Signers -> SignerKey \cup {None}]
      /\ keyCache \in [Signers -> SignerKey \cup {None}]
  <2>1. keyCache \in [Signers -> SignerKey \cup {None}]
    BY DEF Init
  <2>. QED
    BY <2>1, InitKeys
<1>5. queue \in SUBSET Requests /\ up \in BOOLEAN /\ w \in Worker
  BY IdleType DEF Init
<1>6. repos \in [Targets -> Repo \cup {None}] /\ signatures \in SUBSET Nat
  BY DEF Init
<1>7. rev \in Nat /\ ops \in 0..MaxOps /\ faults \in 0..MaxFaults
  BY RequestAssumption DEF Init
<1>. QED
  BY <1>1, <1>2, <1>3, <1>4, <1>5, <1>6, <1>7 DEF TypeOK

LEMMA InitInv ==
  ASSUME Init
  PROVE  IInv
<1>1. /\ w = Idle /\ rev = 0
      /\ requests = [r \in Requests |-> None] /\ reqCache = [r \in Requests |-> None]
      /\ keyCache = [s \in Signers |-> None] /\ repos = [t \in Targets |-> None]
  BY DEF Init
<1>2. w.pc = "idle" /\ w.answer = None /\ w.added = FALSE
  BY <1>1 DEF Idle
<1>3. None # "Success"
  BY RequestAssumption DEF Answers
<1>4. WorkerShape
  BY <1>1, <1>2, <1>3 DEF WorkerShape, KeyedSteps, PodSteps
<1>5. Versions
  BY <1>1, <1>2 DEF Versions, SameVersion
<1>6. \A s \in Signers : Copies(s) = {signerKeys[s], None}
  BY <1>1, <1>2 DEF Copies, KeyedSteps
<1>7. RootsMinted
  BY <1>1, <1>6, InitKeys DEF RootsMinted
<1>8. \A s \in Signers, t \in Targets : \A key \in Copies(s) :
        key # None => Recorded(key, t) = None
  BY <1>6, InitKeys
<1>9. EntriesOpen /\ LiveKeepsEntries
  BY <1>8 DEF EntriesOpen, LiveKeepsEntries
<1>10. PodMatches /\ KeyInTransit
  BY <1>2 DEF PodMatches, KeyInTransit
<1>11. Successes
  BY <1>1, <1>2, <1>3 DEF Successes
<1>. QED
  BY InitTypes, <1>4, <1>5, <1>7, <1>9, <1>10, <1>11 DEF IInv

(***************************************************************************)
(* The theorems.                                                           *)
(***************************************************************************)
\* The inductive invariant holds in every reachable state: between any two
\* steps of an attempt, whatever users, caches, crashes and lost pods do.
THEOREM Invariance == Spec => []IInv
<1>1. Init => IInv
  BY InitInv
<1>2. IInv /\ [Next]_vars => IInv'
  BY IInvStep
<1>. QED
  BY <1>1, <1>2, PTL DEF Spec

\* Every variable keeps its type; in particular the worker's locals are set
\* when a step reads them, and its retry counter stays below MaxRetryCount.
THEOREM TypeCorrect == Spec => []TypeOK
<1>1. IInv => TypeOK
  BY DEF IInv
<1>. QED
  BY <1>1, Invariance, PTL

\* A target key recorded in a SignerKey is the one the notary bound the
\* repository to, and its recorded passphrase opens it: AddTargetKey and
\* readTrustKey never pair a key with another attempt's passphrase.
THEOREM RecordedKeysOpen == Spec => []StoredKeyOpensRepo
<1>1. IInv => StoredKeyOpensRepo
  <2>1. SUFFICES ASSUME IInv, NEW s \in Signers, NEW t \in Targets,
                        signerKeys[s] # None, Recorded(signerKeys[s], t) # None
                 PROVE  /\ repos[t] # None
                        /\ Recorded(signerKeys[s], t).id = repos[t].target
                        /\ Recorded(signerKeys[s], t).enc = Recorded(signerKeys[s], t).pass
    BY DEF StoredKeyOpensRepo
  <2>2. signerKeys[s] \in Copies(s)
    BY DEF Copies
  <2>. QED
    BY <2>1, <2>2 DEF IInv, EntriesOpen
<1>. QED
  BY <1>1, Invariance, PTL

\* A stored "Success" has a signature for its own request behind it, and the
\* repository's key is in the SignerKey it was signed with: response() runs
\* only after SignImage and, for a new key, AddTargetKey returned.
THEOREM SuccessBacked == Spec => []SuccessIsBacked
<1>1. IInv => SuccessIsBacked
  <2>1. SUFFICES ASSUME IInv, NEW r \in Requests,
                        requests[r] # None, requests[r].response = "Success"
                 PROVE  /\ requests[r].uid \in signatures
                        /\ repos[requests[r].target] # None
                        /\ signerKeys[requests[r].signer] # None
                           /\ signerKeys[requests[r].signer].root.id
                                = repos[requests[r].target].root
                           => /\ Recorded(signerKeys[requests[r].signer], requests[r].target) # None
                              /\ Recorded(signerKeys[requests[r].signer], requests[r].target).id
                                   = repos[requests[r].target].target
    BY DEF SuccessIsBacked
  <2>2. Backed(requests[r])
    BY <2>1 DEF IInv, Successes
  <2>3. requests[r].signer \in Signers /\ requests[r].target \in Targets
    BY <2>1 DEF IInv, TypeOK, Request
  <2>4. signerKeys[requests[r].signer] \in Copies(requests[r].signer)
    BY DEF Copies
  <2>. QED
    BY <2>1, <2>2, <2>3, <2>4 DEF IInv, EntriesOpen, Backed, LiveRecords
<1>. QED
  BY <1>1, Invariance, PTL

\* An answered request keeps its answer until it is deleted: response() writes
\* an unanswered snapshot, and only over the same version of the object.
THEOREM AnswersFinal == Spec => ResponseFinal
<1>1. ASSUME IInv, [Next]_vars, NEW r \in Requests,
             requests[r] # None, requests[r].response # None, requests'[r] # None
      PROVE  requests'[r].response = requests[r].response
  <2>1. requests \in [Requests -> Request \cup {None}] /\ requests[r] \in Request
    BY <1>1 DEF IInv, TypeOK
  <2>2. ASSUME Respond PROVE requests'[r] = requests[r]
    <3>1. w.pc # "idle"
      BY <2>2 DEF Respond, At
    <3>2. w.obj \in Request /\ w.obj.response = None /\ SameVersion(w.obj, requests[w.name])
      BY <1>1, <3>1, Locals DEF IInv, Versions
    <3>3. w.obj # None
      BY <3>2, RequestAssumption
    <3>4. r = w.name => ~UpdateAccepted(requests[w.name], w.obj)
      BY <1>1, <3>2, <3>3 DEF UpdateAccepted, SameVersion
    <3>. QED
      BY <2>1, <2>2, <3>4 DEF Respond
  <2>3. ASSUME NEW x \in Requests, CreateRequest(x) \/ EditRequest(x) \/ DeleteRequest(x)
        PROVE  requests'[r].response = requests[r].response
    BY <1>1, <2>1, <2>3 DEF CreateRequest, EditRequest, DeleteRequest, UserWrites, Request
  <2>. QED
    BY <1>1, <2>2, <2>3, Writers
<1>2. IInv /\ [Next]_vars =>
        [\A r \in Requests :
           /\ requests[r] # None /\ requests[r].response # None
           /\ requests'[r] # None
           => requests'[r].response = requests[r].response]_vars
  BY <1>1
<1>. QED
  BY <1>2, Invariance, PTL DEF Spec, ResponseFinal

\* What a SignerKey records for a target it goes on recording, while it exists.
LEMMA EntryKept ==
  ASSUME IInv, [Next]_vars, NEW s \in Signers, NEW t \in Targets,
         signerKeys[s] # None, Recorded(signerKeys[s], t) # None, signerKeys'[s] # None
  PROVE  Recorded(signerKeys'[s], t) = Recorded(signerKeys[s], t)
<1>1. signerKeys \in [Signers -> SignerKey \cup {None}]
  BY DEF IInv, TypeOK
<1>2. CASE PatchSignerKey
  <2>1. w.pc = "patch" /\ Signer \in Signers /\ Target \in Targets /\ w.tkey \in TrustKey
    BY <1>2, PatchEffect
  <2>2. signerKeys[s] \in Copies(s)
    BY DEF Copies
  <2>3. t # Target
    BY <2>1, <2>2 DEF IInv, KeyInTransit
  <2>. QED
    BY <1>1, <1>2, <2>1, <2>3, PatchEffect, MergePatchType
<1>3. ASSUME NEW x \in Signers, CollectKey(x)
      PROVE  signerKeys'[s] = signerKeys[s]
  BY <1>1, <1>3 DEF CollectKey
<1>4. ASSUME NEW x \in Signers, NEW k \in KeyIds, NEW p \in Passes, KeyAppears(x, k, p)
      PROVE  signerKeys'[s] = signerKeys[s]
  BY <1>1, <1>4 DEF KeyAppears
<1>5. ASSUME NEW x \in Signers, GiveTargets(x)
      PROVE  signerKeys'[s] = signerKeys[s]
  BY <1>1, <1>5, GivenTargets DEF GiveTargets
<1>. QED
  BY <1>2, <1>3, <1>4, <1>5, Writers DEF Recorded

\* Recording a target key neither loses nor changes another: AddTargetKey's
\* patch sets one entry, one that no SignerKey has yet.
THEOREM RecordedKeysKept == Spec => StoredKeysKept
<1>1. IInv /\ [Next]_vars =>
        [\A s \in Signers, t \in Targets :
           /\ signerKeys[s] # None /\ Recorded(signerKeys[s], t) # None
           /\ signerKeys'[s] # None
           => Recorded(signerKeys'[s], t) = Recorded(signerKeys[s], t)]_vars
  BY EntryKept DEF Recorded
<1>. QED
  BY <1>1, Invariance, PTL DEF Spec, StoredKeysKept
=============================================================================
