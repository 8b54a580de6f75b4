---------------------------- MODULE RootKey_proofs ----------------------------
(***************************************************************************)
(* RootKey: type correctness, RootKeyKept, RootKeyOpens, CreatedMeansKey   *)
(* and PodsAccounted, for any names, keys, passphrases and bounds.         *)
(*                                                                         *)
(* The argument for CreatedMeansKey: a status update is accepted only if   *)
(* the ImageSigner is still the version the attempt read (Versions), which *)
(* was never deleted since; so the SignerKey made with its uid as owner    *)
(* cannot have been collected (KeyInHand).                                 *)
(***************************************************************************)
EXTENDS RootKey, FiniteSetTheorems, TLAPS

\* Steps at which the worker has a pod with its passphrase in it, and those
\* at which it has named a pod that it will close.
KeySteps == {"poll", "generate", "readKey"}
PodSteps == {"poll", "generate", "readKey", "createKey", "close"}

\* The locals an attempt has set by the time it reaches a step.
WorkerShape ==
  /\ w.pc = "idle" => w = Idle
  /\ w.pc # "idle" => /\ w.name \in Signers /\ w.obj \in ImageSigner
                      /\ w.keyState \in KeyState \/ w.keyState = w.obj.keyState
  /\ w.pc = "create" \/ w.pc \in KeySteps => w.pass \in Passes
  /\ w.pc \in PodSteps => w.pod \in PodNames
  /\ w.pc = "getKey" \/ w.pc = "create" => w.pod = None
  /\ w.pc = "createKey" => w.key \in TrustKey /\ w.key.enc = w.key.pass
  /\ HasCreated(w) => w.pc \in {"close", "report"}

\* Object versions: none is newer than the server's revision, and two copies
\* with the same version are the same.
Old(signer, r) == signer # None => signer.uid <= r /\ signer.rv <= r

SameVersion(a, b) == a # None /\ b # None /\ a.rv = b.rv => a = b

Versions ==
  /\ \A s \in Signers : /\ Old(imageSigners[s], rev) /\ Old(signerCache[s], rev)
                        /\ SameVersion(signerCache[s], imageSigners[s])
  /\ w.pc # "idle" => Old(w.obj, rev) /\ SameVersion(w.obj, imageSigners[w.name])

\* What is in the attempt's pod opens with the attempt's passphrase.
PodKeys ==
  w.pc \in KeySteps /\ pods[w.pod] # None =>
    /\ pods[w.pod].env.root = w.pass
    /\ \A f \in pods[w.pod].files : f.enc = w.pass

\* A SignerKey that belongs to the ImageSigner with that uid, and has that key.
Owned(key, uid, id) == key # None /\ key.owner = uid /\ key.root.id = id

\* A created key that is still to be reported exists, as long as its
\* ImageSigner does.
KeyInHand ==
  HasCreated(w) =>
    \/ imageSigners[w.name] = None \/ imageSigners[w.name].uid # w.obj.uid
    \/ Owned(signerKeys[w.name], w.obj.uid, w.keyState.rootKeyId)

RootInv ==
  TypeOK /\ WorkerShape /\ Versions /\ PodKeys /\ KeyInHand /\ CreatedMeansKey /\ RootKeyOpens

(***************************************************************************)
(* Who writes what.                                                        *)
(***************************************************************************)
LEMMA Writers ==
  ASSUME [Next]_vars
  PROVE  /\ \/ pods' = pods
            \/ \E n \in PodNames : StartCreates(n) \/ StartFails(n) \/ PodStarts(n) \/ PodLost(n)
            \/ Close \/ \E k \in KeyIds : GenerateRoot(k)
         /\ podCache' = podCache \/ \E n \in PodNames : PodEvent(n)
         /\ minted' = minted \/ \E k \in KeyIds : GenerateRoot(k)
         /\ \/ imageSigners' = imageSigners /\ rev' = rev
            \/ imageSigners' = imageSigners /\ CreateSignerKey
            \/ Report
            \/ \E s \in Signers : CreateSigner(s) \/ EditSigner(s) \/ DeleteSigner(s)
         /\ signerCache' = signerCache \/ \E s \in Signers : SyncSigner(s)
         /\ signerKeys' = signerKeys \/ CreateSignerKey \/ \E s \in Signers : CollectKey(s)
         /\ keyCache' = keyCache \/ \E s \in Signers : SyncKey(s)
<1>. USE DEF Next, Attempt, Take, SkipSigner, GetImageSigner, CheckKey, StartCreates,
             StartFindsName, StartFails, PollPod, GenerateFails, ReadRootKey, Close,
             Crash, Restart, Resync, PodStarts, KubeletRuns, PodEvent, SyncPod, Elsewhere,
             PodLost, vars, podVars, apiVars, viewVars
<1>1. \/ pods' = pods
      \/ \E n \in PodNames : StartCreates(n) \/ StartFails(n) \/ PodStarts(n) \/ PodLost(n)
      \/ Close \/ \E k \in KeyIds : GenerateRoot(k)
  BY DEF CreateSignerKey, Report, SyncSigner, SyncKey, CreateSigner, EditSigner, DeleteSigner,
         UserWrites, CollectKey
<1>2. podCache' = podCache \/ \E n \in PodNames : PodEvent(n)
  BY DEF GenerateRoot, CreateSignerKey, Report, SyncSigner, SyncKey, CreateSigner, EditSigner,
         DeleteSigner, UserWrites, CollectKey
<1>3. minted' = minted \/ \E k \in KeyIds : GenerateRoot(k)
  BY DEF CreateSignerKey, Report, SyncSigner, SyncKey, CreateSigner, EditSigner, DeleteSigner,
         UserWrites, CollectKey
<1>4. \/ imageSigners' = imageSigners /\ rev' = rev
      \/ imageSigners' = imageSigners /\ CreateSignerKey
      \/ Report
      \/ \E s \in Signers : CreateSigner(s) \/ EditSigner(s) \/ DeleteSigner(s)
  BY DEF GenerateRoot, CreateSignerKey, SyncSigner, SyncKey, CollectKey
<1>5. signerCache' = signerCache \/ \E s \in Signers : SyncSigner(s)
  BY DEF GenerateRoot, CreateSignerKey, Report, SyncKey, CreateSigner, EditSigner, DeleteSigner,
         UserWrites, CollectKey
<1>6. signerKeys' = signerKeys \/ CreateSignerKey \/ \E s \in Signers : CollectKey(s)
  BY DEF GenerateRoot, Report, SyncSigner, SyncKey, CreateSigner, EditSigner, DeleteSigner,
         UserWrites
<1>7. keyCache' = keyCache \/ \E s \in Signers : SyncKey(s)
  BY DEF GenerateRoot, CreateSignerKey, Report, SyncSigner, CreateSigner, EditSigner,
         DeleteSigner, UserWrites, CollectKey
<1>. QED
  BY <1>1, <1>2, <1>3, <1>4, <1>5, <1>6, <1>7

LEMMA BookkeepingMoves ==
  ASSUME [Next]_vars
  PROVE  /\ \/ queue' = queue
            \/ \E s \in Signers : queue' = queue \ {s} \/ queue' = queue \cup {s}
            \/ queue' = {} \/ queue' = CachedSigners \/ queue' = queue \cup CachedSigners
         /\ ops' = ops \/ (ops < MaxOps /\ ops' = ops + 1)
         /\ faults' = faults \/ (faults < MaxFaults /\ faults' = faults + 1)
         /\ up' = up \/ up' \in BOOLEAN
<1>. USE DEF Next, Attempt, Take, SkipSigner, GetImageSigner, CheckKey, StartCreates,
             StartFindsName, StartFails, PollPod, GenerateFails, GenerateRoot, ReadRootKey,
             CreateSignerKey, Close, Report, Crash, Restart, Resync, SyncSigner, SyncKey,
             PodStarts, PodEvent, Elsewhere, CreateSigner, EditSigner, DeleteSigner, UserWrites,
             CollectKey, PodLost, vars
<1>1. \/ queue' = queue
      \/ \E s \in Signers : queue' = queue \ {s} \/ queue' = queue \cup {s}
      \/ queue' = {} \/ queue' = CachedSigners \/ queue' = queue \cup CachedSigners
  OBVIOUS
<1>2. ops' = ops \/ (ops < MaxOps /\ ops' = ops + 1)
  OBVIOUS
<1>3. faults' = faults \/ (faults < MaxFaults /\ faults' = faults + 1)
  BY DEF Fault, NoFault
<1>4. up' = up \/ up' \in BOOLEAN
  OBVIOUS
<1>. QED
  BY <1>1, <1>2, <1>3, <1>4

(***************************************************************************)
(* Types of the worker.                                                    *)
(***************************************************************************)
LEMMA FailedType == Failed \in KeyState
BY DEF Failed, KeyState

LEMMA CreatedType ==
  ASSUME NEW id \in KeyIds
  PROVE  [created |-> TRUE, rootKeyId |-> id] \in KeyState
BY DEF KeyState

LEMMA IdleType == Idle \in Worker
BY PodAssumption DEF Idle, Worker, Steps

\* The updates of its locals the worker makes keep its type.
LEMMA WorkerUpdates ==
  ASSUME w \in Worker
  PROVE  /\ \A s \in Steps : [w EXCEPT !.pc = s] \in Worker
         /\ \A s \in Steps, k \in KeyState : [w EXCEPT !.pc = s, !.keyState = k] \in Worker
         /\ \A s \in Steps, n \in PodNames : [w EXCEPT !.pc = s, !.pod = n] \in Worker
         /\ \A s \in Steps, n \in PodNames, k \in KeyState :
              [w EXCEPT !.pc = s, !.pod = n, !.keyState = k] \in Worker
         /\ \A s \in Steps, x \in Signers, q \in ImageSigner :
              [w EXCEPT !.pc = s, !.name = x, !.obj = q, !.keyState = q.keyState] \in Worker
         /\ \A s \in Steps, p \in Passes : [w EXCEPT !.pc = s, !.pass = p] \in Worker
         /\ \A s \in Steps, k \in TrustKey : [w EXCEPT !.pc = s, !.key = k] \in Worker
         /\ PollsAgain(w.tries) => [w EXCEPT !.tries = @ + 1] \in Worker
<1>1. \A s \in Steps : [w EXCEPT !.pc = s] \in Worker
  BY DEF Worker
<1>2. \A s \in Steps, k \in KeyState : [w EXCEPT !.pc = s, !.keyState = k] \in Worker
  BY DEF Worker
<1>3. \A s \in Steps, n \in PodNames : [w EXCEPT !.pc = s, !.pod = n] \in Worker
  BY DEF Worker
<1>4. \A s \in Steps, n \in PodNames, k \in KeyState :
        [w EXCEPT !.pc = s, !.pod = n, !.keyState = k] \in Worker
  BY DEF Worker
<1>5. \A s \in Steps, x \in Signers, q \in ImageSigner :
        [w EXCEPT !.pc = s, !.name = x, !.obj = q, !.keyState = q.keyState] \in Worker
  <2>1. \A q \in ImageSigner : q.keyState \in KeyState \cup {None}
    BY DEF ImageSigner
  <2>. QED
    BY <2>1 DEF Worker
<1>6. \A s \in Steps, p \in Passes : [w EXCEPT !.pc = s, !.pass = p] \in Worker
  BY DEF Worker
<1>7. \A s \in Steps, k \in TrustKey : [w EXCEPT !.pc = s, !.key = k] \in Worker
  BY DEF Worker
<1>8. PollsAgain(w.tries) => [w EXCEPT !.tries = @ + 1] \in Worker
  BY PodAssumption DEF Worker, PollsAgain
<1>. QED
  BY <1>1, <1>2, <1>3, <1>4, <1>5, <1>6, <1>7, <1>8

\* The locals a step of an attempt relies on.
LEMMA Locals ==
  ASSUME RootInv, w.pc # "idle"
  PROVE  /\ w \in Worker /\ w.name \in Signers /\ w.obj \in ImageSigner
         /\ w.keyState \in KeyState \/ w.keyState = w.obj.keyState
         /\ w.pc = "create" \/ w.pc \in KeySteps => w.pass \in Passes
         /\ w.pc \in PodSteps => w.pod \in PodNames
         /\ w.pc \in PodSteps /\ pods[w.pod] # None => pods[w.pod] \in Pod
BY DEF RootInv, TypeOK, PodTypeOK, WorkerShape

LEMMA ReadKeyType ==
  ASSUME NEW pod \in Pod, NEW phrase \in Passes, NEW k \in ReadTrustKey(pod, "root", phrase)
  PROVE  k \in TrustKey /\ k.pass = phrase /\ \E f \in pod.files : k.enc = f.enc
BY DEF ReadTrustKey, Pod, KeyFile, TrustKey

(***************************************************************************)
(* What a step does to the worker.                                         *)
(***************************************************************************)
\* Every step but the first and the last of an attempt, by what it assigns.
LEMMA AttemptMoves ==
  ASSUME RootInv, [Next]_vars
  PROVE  \/ w' = w
         \/ w' = Idle
         \/ \E s \in Signers : GetImageSigner(s)
         \/ CheckKey
         \/ \E n \in PodNames : StartCreates(n) \/ StartFindsName(n) \/ StartFails(n)
         \/ PollPod \/ GenerateFails \/ (\E k \in KeyIds : GenerateRoot(k))
         \/ ReadRootKey \/ CreateSignerKey \/ Close
BY DEF Next, Attempt, Take, SkipSigner, Report, Crash, Restart, Resync, SyncSigner, SyncKey,
       PodStarts, PodEvent, Elsewhere, CreateSigner, EditSigner, DeleteSigner, UserWrites,
       CollectKey, PodLost, vars

LEMMA WorkerMoves ==
  ASSUME RootInv, [Next]_vars
  PROVE  \/ w' = w
         \/ w' = Idle
         \/ \E s \in Signers :
              /\ GetImageSigner(s) /\ signerCache[s] \in ImageSigner
              /\ w' = [w EXCEPT !.pc = "getKey", !.name = s, !.obj = signerCache[s],
                                !.keyState = signerCache[s].keyState]
         \/ /\ w.pc = "getKey"
            /\ \/ w' = [w EXCEPT !.pc = "report"]
               \/ \E p \in Passes : w' = [w EXCEPT !.pc = "create", !.pass = p]
         \/ \E n \in PodNames :
              /\ w.pc = "create"
              /\ \/ StartCreates(n) /\ w' = [w EXCEPT !.pc = "poll", !.pod = n]
                 \/ w' = [w EXCEPT !.pc = "close", !.pod = n, !.keyState = Failed]
         \/ /\ w.pc \in KeySteps \cup {"createKey"}
            /\ w' = [w EXCEPT !.pc = "close", !.keyState = Failed]
         \/ /\ w.pc = "poll"
            /\ \/ w' = [w EXCEPT !.pc = "generate"]
               \/ PollsAgain(w.tries) /\ w' = [w EXCEPT !.tries = @ + 1]
         \/ w.pc = "generate" /\ w' = [w EXCEPT !.pc = "readKey"]
         \/ /\ w.pc = "readKey" /\ pods[w.pod] # None
            /\ \E k \in ReadTrustKey(pods[w.pod], "root", w.pass) :
                 w' = [w EXCEPT !.pc = "createKey", !.key = k]
         \/ /\ w.pc = "createKey" /\ CreateSignerKey
            /\ signerKeys' = [signerKeys EXCEPT ![w.name] =
                                [root |-> w.key, owner |-> w.obj.uid]]
            /\ w' = [w EXCEPT !.pc = "close",
                              !.keyState = [created |-> TRUE, rootKeyId |-> w.key.id]]
         \/ w.pc = "close" /\ w' = [w EXCEPT !.pc = "report"]
<1>1. ASSUME NEW s \in Signers, GetImageSigner(s)
      PROVE  /\ signerCache[s] \in ImageSigner
             /\ w' = [w EXCEPT !.pc = "getKey", !.name = s, !.obj = signerCache[s],
                               !.keyState = signerCache[s].keyState]
  BY <1>1 DEF GetImageSigner, RootInv, TypeOK
<1>2. ASSUME CheckKey
      PROVE  /\ w.pc = "getKey"
             /\ \/ w' = [w EXCEPT !.pc = "report"]
                \/ \E p \in Passes : w' = [w EXCEPT !.pc = "create", !.pass = p]
  BY Zenon, <1>2 DEF CheckKey, At
<1>3. ASSUME NEW n \in PodNames, StartCreates(n) \/ StartFindsName(n) \/ StartFails(n)
      PROVE  /\ w.pc = "create"
             /\ \/ StartCreates(n) /\ w' = [w EXCEPT !.pc = "poll", !.pod = n]
                \/ w' = [w EXCEPT !.pc = "close", !.pod = n, !.keyState = Failed]
  BY Zenon, <1>3 DEF StartCreates, StartFindsName, FindsNotRunning, StartFails, At
<1>4. ASSUME PollPod
      PROVE  /\ w.pc = "poll"
             /\ \/ w' = [w EXCEPT !.pc = "close", !.keyState = Failed]
                \/ w' = [w EXCEPT !.pc = "generate"]
                \/ PollsAgain(w.tries) /\ w' = [w EXCEPT !.tries = @ + 1]
  BY Zenon, <1>4 DEF PollPod, StartGivesUp, FailTo, At
<1>5. ASSUME GenerateFails \/ \E k \in KeyIds : GenerateRoot(k)
      PROVE  /\ w.pc = "generate"
             /\ \/ w' = [w EXCEPT !.pc = "close", !.keyState = Failed]
                \/ w' = [w EXCEPT !.pc = "readKey"]
  BY Zenon, <1>5 DEF GenerateFails, GenerateRoot, FailTo, At
<1>6. ASSUME ReadRootKey
      PROVE  /\ w.pc = "readKey"
             /\ \/ w' = [w EXCEPT !.pc = "close", !.keyState = Failed]
                \/ /\ pods[w.pod] # None
                   /\ \E k \in ReadTrustKey(pods[w.pod], "root", w.pass) :
                        w' = [w EXCEPT !.pc = "createKey", !.key = k]
  BY Zenon, <1>6 DEF ReadRootKey, FailTo, At
<1>7. ASSUME CreateSignerKey
      PROVE  /\ w.pc = "createKey"
             /\ \/ w' = [w EXCEPT !.pc = "close", !.keyState = Failed]
                \/ /\ signerKeys' = [signerKeys EXCEPT ![w.name] =
                                       [root |-> w.key, owner |-> w.obj.uid]]
                   /\ w' = [w EXCEPT !.pc = "close",
                                     !.keyState = [created |-> TRUE, rootKeyId |-> w.key.id]]
  BY Zenon, <1>7 DEF CreateSignerKey, FailTo, At
<1>8. ASSUME Close PROVE w.pc = "close" /\ w' = [w EXCEPT !.pc = "report"]
  BY Zenon, <1>8 DEF Close, At
<1>9. "poll" \in KeySteps /\ "generate" \in KeySteps /\ "readKey" \in KeySteps
  BY DEF KeySteps
<1>. QED
  BY Zenon, AttemptMoves, <1>1, <1>2, <1>3, <1>4, <1>5, <1>6, <1>7, <1>8, <1>9

LEMMA WorkerTypeStep ==
  ASSUME RootInv, [Next]_vars
  PROVE  w' \in Worker
<1>1. w \in Worker
  BY DEF RootInv, TypeOK
<1>2. /\ "report" \in Steps /\ "create" \in Steps /\ "poll" \in Steps /\ "close" \in Steps
      /\ "generate" \in Steps /\ "readKey" \in Steps /\ "createKey" \in Steps /\ "getKey" \in Steps
  BY DEF Steps
<1>3. ASSUME NEW s \in Signers, signerCache[s] \in ImageSigner,
             w' = [w EXCEPT !.pc = "getKey", !.name = s, !.obj = signerCache[s],
                            !.keyState = signerCache[s].keyState]
      PROVE  w' \in Worker
  BY Zenon, <1>1, <1>2, <1>3, WorkerUpdates
<1>4. ASSUME w.pc = "readKey", pods[w.pod] # None,
             NEW k \in ReadTrustKey(pods[w.pod], "root", w.pass),
             w' = [w EXCEPT !.pc = "createKey", !.key = k]
      PROVE  w' \in Worker
  <2>1. pods[w.pod] \in Pod /\ w.pass \in Passes
    BY <1>4, Locals DEF PodSteps, KeySteps
  <2>2. k \in TrustKey
    BY <2>1, ReadKeyType
  <2>. QED
    BY Zenon, <1>1, <1>2, <1>4, <2>2, WorkerUpdates
<1>5. ASSUME w.pc = "createKey",
             w' = [w EXCEPT !.pc = "close",
                            !.keyState = [created |-> TRUE, rootKeyId |-> w.key.id]]
      PROVE  w' \in Worker
  <2>1. w.key.id \in KeyIds
    BY <1>5 DEF RootInv, WorkerShape, TrustKey
  <2>. QED
    BY Zenon, <1>1, <1>2, <1>5, <2>1, CreatedType, WorkerUpdates
<1>6. CASE /\ w.pc = "getKey"
           /\ \/ w' = [w EXCEPT !.pc = "report"]
              \/ \E p \in Passes : w' = [w EXCEPT !.pc = "create", !.pass = p]
  <2>1. CASE w' = [w EXCEPT !.pc = "report"]
    BY Zenon, <1>1, <1>2, <2>1, WorkerUpdates
  <2>2. ASSUME NEW p \in Passes, w' = [w EXCEPT !.pc = "create", !.pass = p]
        PROVE  w' \in Worker
    BY Zenon, <1>1, <1>2, <2>2, WorkerUpdates
  <2>. QED
    BY <1>6, <2>1, <2>2
<1>7. ASSUME NEW n \in PodNames,
             \/ w' = [w EXCEPT !.pc = "poll", !.pod = n]
             \/ w' = [w EXCEPT !.pc = "close", !.pod = n, !.keyState = Failed]
      PROVE  w' \in Worker
  <2>1. CASE w' = [w EXCEPT !.pc = "poll", !.pod = n]
    BY Zenon, <1>1, <1>2, <2>1, WorkerUpdates
  <2>2. CASE w' = [w EXCEPT !.pc = "close", !.pod = n, !.keyState = Failed]
    BY Zenon, <1>1, <1>2, <2>2, FailedType, WorkerUpdates
  <2>. QED
    BY <1>7, <2>1, <2>2
<1>8. CASE w' = [w EXCEPT !.pc = "close", !.keyState = Failed]
  BY Zenon, <1>1, <1>2, <1>8, FailedType, WorkerUpdates
<1>9. CASE \/ w' = [w EXCEPT !.pc = "generate"]
           \/ PollsAgain(w.tries) /\ w' = [w EXCEPT !.tries = @ + 1]
           \/ w' = [w EXCEPT !.pc = "readKey"]
           \/ w' = [w EXCEPT !.pc = "report"]
  BY Zenon, <1>1, <1>2, <1>9, WorkerUpdates
<1>10. CASE w' = w \/ w' = Idle
  BY <1>1, <1>10, IdleType
<1>. QED
  BY WorkerMoves, <1>3, <1>4, <1>5, <1>6, <1>7, <1>8, <1>9, <1>10

\* The fields a step changes.
LEMMA ShapeStep ==
  ASSUME RootInv, [Next]_vars
  PROVE  WorkerShape'
<1>1. w \in Worker /\ w' \in Worker /\ WorkerShape
  BY WorkerTypeStep DEF RootInv, TypeOK
<1>. USE DEF WorkerShape, KeySteps, PodSteps, HasCreated
<1>2. CASE w' = w
  BY <1>1, <1>2
<1>3. CASE w' = Idle
  BY <1>3 DEF Idle
<1>4. ASSUME NEW s \in Signers, GetImageSigner(s), signerCache[s] \in ImageSigner,
             w' = [w EXCEPT !.pc = "getKey", !.name = s, !.obj = signerCache[s],
                            !.keyState = signerCache[s].keyState]
      PROVE  WorkerShape'
  <2>1. /\ w'.pc = "getKey" /\ w'.name = s /\ w'.obj = signerCache[s]
        /\ w'.keyState = signerCache[s].keyState
    BY <1>1, <1>4 DEF Worker
  <2>2. ~HasCreated(signerCache[s])
    BY <1>4 DEF GetImageSigner
  <2>3. w'.pod = None
    <3>1. w = Idle
      BY <1>1, <1>4 DEF GetImageSigner, At
    <3>. QED
      BY <1>1, <1>4, <3>1 DEF Worker, Idle
  <2>. QED
    BY <1>4, <2>1, <2>2, <2>3
<1>5. CASE /\ w.pc = "getKey"
           /\ \/ w' = [w EXCEPT !.pc = "report"]
              \/ \E p \in Passes : w' = [w EXCEPT !.pc = "create", !.pass = p]
  BY <1>1, <1>5 DEF Worker
<1>6. ASSUME NEW n \in PodNames, w.pc = "create",
             \/ w' = [w EXCEPT !.pc = "poll", !.pod = n]
             \/ w' = [w EXCEPT !.pc = "close", !.pod = n, !.keyState = Failed]
      PROVE  WorkerShape'
  BY <1>1, <1>6, FailedType DEF Worker, Failed
<1>7. CASE /\ w.pc \in KeySteps \cup {"createKey"}
           /\ w' = [w EXCEPT !.pc = "close", !.keyState = Failed]
  BY <1>1, <1>7, FailedType DEF Worker, Failed
<1>8. CASE /\ w.pc = "poll"
           /\ \/ w' = [w EXCEPT !.pc = "generate"]
              \/ PollsAgain(w.tries) /\ w' = [w EXCEPT !.tries = @ + 1]
  BY <1>1, <1>8 DEF Worker
<1>9. CASE w.pc = "generate" /\ w' = [w EXCEPT !.pc = "readKey"]
  BY <1>1, <1>9 DEF Worker
<1>10. ASSUME w.pc = "readKey", pods[w.pod] # None,
              NEW k \in ReadTrustKey(pods[w.pod], "root", w.pass),
              w' = [w EXCEPT !.pc = "createKey", !.key = k]
       PROVE  WorkerShape'
  <2>1. pods[w.pod] \in Pod /\ w.pass \in Passes
    BY <1>10, Locals
  <2>2. k \in TrustKey /\ k.enc = k.pass
    <3>1. \A f \in pods[w.pod].files : f.enc = w.pass
      BY <1>10 DEF RootInv, PodKeys
    <3>. QED
      BY <2>1, <3>1, ReadKeyType
  <2>. QED
    BY <1>1, <1>10, <2>2 DEF Worker
<1>11. CASE /\ w.pc = "createKey"
            /\ w' = [w EXCEPT !.pc = "close",
                              !.keyState = [created |-> TRUE, rootKeyId |-> w.key.id]]
  <2>1. [created |-> TRUE, rootKeyId |-> w.key.id] \in KeyState
    BY <1>1, <1>11, CreatedType DEF TrustKey
  <2>. QED
    BY <1>1, <1>11, <2>1 DEF Worker
<1>12. CASE w.pc = "close" /\ w' = [w EXCEPT !.pc = "report"]
  BY <1>1, <1>12 DEF Worker
<1>. HIDE DEF WorkerShape, KeySteps, PodSteps, HasCreated
<1>. QED
  BY <1>2, <1>3, <1>4, <1>5, <1>6, <1>7, <1>8, <1>9, <1>10, <1>11, <1>12, WorkerMoves

(***************************************************************************)
(* Types of the rest.                                                      *)
(***************************************************************************)
LEMMA BookkeepingStep ==
  ASSUME RootInv, [Next]_vars
  PROVE  queue' \in SUBSET Signers /\ up' \in BOOLEAN
         /\ ops' \in 0..MaxOps /\ faults' \in 0..MaxFaults
<1>1. /\ queue \in SUBSET Signers /\ up \in BOOLEAN /\ ops \in 0..MaxOps /\ faults \in 0..MaxFaults
      /\ MaxOps \in Nat /\ MaxFaults \in Nat
  BY RootKeyAssumption DEF RootInv, TypeOK
<1>2. queue' \in SUBSET Signers
  BY <1>1, BookkeepingMoves DEF CachedSigners
<1>3. up' \in BOOLEAN
  BY <1>1, BookkeepingMoves
<1>4. ops' \in 0..MaxOps
  BY <1>1, BookkeepingMoves
<1>5. faults' \in 0..MaxFaults
  BY <1>1, BookkeepingMoves
<1>. QED
  BY <1>2, <1>3, <1>4, <1>5

LEMMA StartedPodType ==
  ASSUME RootInv, w.pc = "create"
  PROVE  StartedPod \in Pod /\ StartedPod.env.root = w.pass /\ StartedPod.files = {}
<1>1. w.pass \in Passes
  BY Locals
<1>. QED
  BY <1>1 DEF StartedPod, NewDindPod, Pod, Phases

\* What GenerateRoot puts in the pod.
LEMMA GenerateEffect ==
  ASSUME RootInv, NEW k \in KeyIds, GenerateRoot(k)
  PROVE  /\ w.pc = "generate" /\ w.pod \in PodNames /\ pods[w.pod] \in Pod
         /\ pods' = [pods EXCEPT ![w.pod].files =
                       @ \cup {[role |-> "root", id |-> k, enc |-> w.pass]}]
         /\ w.pass \in Passes /\ pods[w.pod].env.root = w.pass
<1>1. w.pc = "generate" /\ pods[w.pod] # None
  BY DEF GenerateRoot, At, PodRuns
<1>2. w.pod \in PodNames /\ pods[w.pod] \in Pod /\ w.pass \in Passes
  BY <1>1, Locals DEF PodSteps, KeySteps
<1>3. pods[w.pod].env.root = w.pass
  BY <1>1 DEF RootInv, PodKeys, KeySteps
<1>. QED
  BY <1>1, <1>2, <1>3 DEF GenerateRoot, Generate

LEMMA PodTypesStep ==
  ASSUME RootInv, [Next]_vars
  PROVE  PodTypeOK'
<1>1. PodTypeOK
  BY DEF RootInv, TypeOK
<1>2. podCache' \in [PodNames -> Phases \cup {None}]
  <2>1. ASSUME NEW n \in PodNames, PodEvent(n)
        PROVE  podCache' \in [PodNames -> Phases \cup {None}]
    BY <1>1, <2>1 DEF PodEvent, SyncPod, PhaseOf, PodTypeOK, Pod
  <2>. QED
    BY <1>1, <2>1, Writers DEF PodTypeOK
<1>3. minted' \in SUBSET KeyIds
  BY <1>1, Writers DEF PodTypeOK, GenerateRoot, Generate
<1>4. pods' \in [PodNames -> Pod \cup {None}]
  <2>1. CASE pods' = pods
    BY <1>1, <2>1 DEF PodTypeOK
  <2>2. ASSUME NEW n \in PodNames, StartCreates(n) \/ StartFails(n)
        PROVE  pods' \in [PodNames -> Pod \cup {None}]
    <3>1. StartedPod \in Pod
      BY <2>2, StartedPodType DEF StartCreates, StartFails, At
    <3>. QED
      BY <1>1, <2>2, <3>1 DEF PodTypeOK, StartCreates, StartFails, PodCreated
  <2>3. ASSUME NEW n \in PodNames, PodStarts(n)
        PROVE  pods' \in [PodNames -> Pod \cup {None}]
    BY <1>1, <2>3 DEF PodTypeOK, PodStarts, KubeletRuns, Pod, Phases
  <2>4. ASSUME NEW n \in PodNames, PodLost(n)
        PROVE  pods' \in [PodNames -> Pod \cup {None}]
    BY <1>1, <2>4 DEF PodTypeOK, PodLost, PodDeleted
  <2>5. ASSUME Close PROVE pods' \in [PodNames -> Pod \cup {None}]
    BY <1>1, <2>5 DEF PodTypeOK, Close, PodDeleted
  <2>6. ASSUME NEW k \in KeyIds, GenerateRoot(k)
        PROVE  pods' \in [PodNames -> Pod \cup {None}]
    <3>1. pods[w.pod] \in Pod /\ w.pass \in Passes /\ w.pod \in PodNames
      BY <2>6, GenerateEffect
    <3>2. [role |-> "root", id |-> k, enc |-> w.pass] \in KeyFile
      BY <3>1 DEF KeyFile, Roles
    <3>3. [pods[w.pod] EXCEPT !.files =
             @ \cup {[role |-> "root", id |-> k, enc |-> w.pass]}] \in Pod
      BY <3>1, <3>2 DEF Pod
    <3>4. pods' = [pods EXCEPT ![w.pod] = [pods[w.pod] EXCEPT !.files =
                     @ \cup {[role |-> "root", id |-> k, enc |-> w.pass]}]]
      BY <1>1, <2>6, <3>1, GenerateEffect DEF PodTypeOK
    <3>. QED
      BY <1>1, <3>1, <3>3, <3>4 DEF PodTypeOK
  <2>. QED
    BY <2>1, <2>2, <2>3, <2>4, <2>5, <2>6, Writers
<1>. QED
  BY <1>2, <1>3, <1>4 DEF PodTypeOK

(***************************************************************************)
(* ImageSigners.                                                           *)
(***************************************************************************)
\* An accepted report writes the created key into the very object the attempt
\* read.
LEMMA ReportEffect ==
  ASSUME RootInv, Report
  PROVE  /\ w.pc = "report" /\ w.name \in Signers
         /\ \/ imageSigners' = imageSigners /\ rev' = rev
            \/ /\ w.obj \in ImageSigner /\ imageSigners[w.name] = w.obj
               /\ HasCreated(w) /\ w.keyState \in KeyState
               /\ imageSigners' = [imageSigners EXCEPT ![w.name] =
                    [uid |-> w.obj.uid, rv |-> rev + 1, keyState |-> w.keyState]]
               /\ rev' = rev + 1
<1>1. /\ w.pc = "report" /\ w.name \in Signers /\ w.obj \in ImageSigner
      /\ w.keyState \in KeyState \/ w.keyState = w.obj.keyState
      /\ imageSigners \in [Signers -> ImageSigner \cup {None}]
  BY Locals DEF Report, At, RootInv, TypeOK
<1>2. ASSUME w.keyState # w.obj.keyState, Conforms(w.keyState),
             UpdateAccepted(imageSigners[w.name], w.obj),
             imageSigners' = [imageSigners EXCEPT ![w.name].keyState = w.keyState,
                                                  ![w.name].rv = rev + 1]
      PROVE  /\ imageSigners[w.name] = w.obj
             /\ HasCreated(w) /\ w.keyState \in KeyState
             /\ imageSigners' = [imageSigners EXCEPT ![w.name] =
                    [uid |-> w.obj.uid, rv |-> rev + 1, keyState |-> w.keyState]]
  <2>1. imageSigners[w.name] = w.obj
    BY <1>1, <1>2, RootKeyAssumption
       DEF RootInv, Versions, SameVersion, UpdateAccepted
  <2>2. w.keyState \in KeyState /\ w.keyState # None
    BY <1>1, <1>2, RootKeyAssumption
  <2>3. HasCreated(w)
    BY <1>2, <2>2 DEF HasCreated, Conforms
  <2>4. imageSigners'[w.name] = [uid |-> w.obj.uid, rv |-> rev + 1, keyState |-> w.keyState]
    BY <1>1, <1>2, <2>1 DEF ImageSigner
  <2>. QED
    BY <1>1, <1>2, <2>1, <2>2, <2>3, <2>4
<1>. QED
  BY <1>1, <1>2 DEF Report

\* What a step may do to the ImageSigner s.
LEMMA SignerStep ==
  ASSUME RootInv, [Next]_vars, NEW s \in Signers
  PROVE  /\ rev' \in Nat /\ rev' >= rev
         /\ \/ imageSigners'[s] = imageSigners[s]
            \/ imageSigners'[s] = None
            \/ /\ imageSigners[s] = None
               /\ imageSigners'[s] = [uid |-> rev + 1, rv |-> rev + 1, keyState |-> None]
               /\ rev' = rev + 1
            \/ /\ imageSigners[s] \in ImageSigner
               /\ imageSigners'[s] = [uid |-> imageSigners[s].uid, rv |-> rev + 1,
                                      keyState |-> imageSigners[s].keyState]
               /\ rev' = rev + 1
            \/ /\ Report /\ s = w.name /\ HasCreated(w) /\ w.keyState \in KeyState
               /\ imageSigners[s] = w.obj /\ w.obj \in ImageSigner
               /\ imageSigners'[s] = [uid |-> w.obj.uid, rv |-> rev + 1, keyState |-> w.keyState]
               /\ rev' = rev + 1
<1>1. imageSigners \in [Signers -> ImageSigner \cup {None}] /\ rev \in Nat
  BY DEF RootInv, TypeOK
<1>2. ASSUME NEW x \in Signers, CreateSigner(x)
      PROVE  /\ rev' = rev + 1
             /\ \/ imageSigners'[s] = imageSigners[s]
                \/ /\ imageSigners[s] = None
                   /\ imageSigners'[s] = [uid |-> rev + 1, rv |-> rev + 1, keyState |-> None]
  BY <1>1, <1>2 DEF CreateSigner, UserWrites
<1>3. ASSUME NEW x \in Signers, DeleteSigner(x)
      PROVE  /\ rev' = rev + 1
             /\ imageSigners'[s] = imageSigners[s] \/ imageSigners'[s] = None
  BY <1>1, <1>3 DEF DeleteSigner, UserWrites
<1>4. ASSUME NEW x \in Signers, EditSigner(x)
      PROVE  /\ rev' = rev + 1
             /\ \/ imageSigners'[s] = imageSigners[s]
                \/ /\ imageSigners[s] \in ImageSigner
                   /\ imageSigners'[s] = [uid |-> imageSigners[s].uid, rv |-> rev + 1,
                                          keyState |-> imageSigners[s].keyState]
  <2>1. imageSigners[x] \in ImageSigner
    BY <1>1, <1>4 DEF EditSigner
  <2>2. [imageSigners[x] EXCEPT !.rv = rev + 1]
          = [uid |-> imageSigners[x].uid, rv |-> rev + 1, keyState |-> imageSigners[x].keyState]
    BY <2>1 DEF ImageSigner
  <2>3. imageSigners' = [imageSigners EXCEPT ![x] =
          [uid |-> imageSigners[x].uid, rv |-> rev + 1, keyState |-> imageSigners[x].keyState]]
    BY <1>4, <2>2 DEF EditSigner, UserWrites
  <2>4. rev' = rev + 1
    BY <1>4 DEF EditSigner, UserWrites
  <2>. QED
    BY <1>1, <2>1, <2>3, <2>4
<1>5. ASSUME CreateSignerKey PROVE rev' = rev \/ rev' = rev + 1
  BY <1>5 DEF CreateSignerKey
<1>6. CASE Report
  <2>1. CASE imageSigners' = imageSigners /\ rev' = rev
    BY <1>1, <2>1
  <2>2. CASE /\ w.obj \in ImageSigner /\ imageSigners[w.name] = w.obj
             /\ HasCreated(w) /\ w.keyState \in KeyState
             /\ imageSigners' = [imageSigners EXCEPT ![w.name] =
                    [uid |-> w.obj.uid, rv |-> rev + 1, keyState |-> w.keyState]]
             /\ rev' = rev + 1
    <3>1. CASE s = w.name
      BY <1>1, <1>6, <2>2, <3>1
    <3>2. CASE s # w.name
      BY <1>1, <2>2, <3>2
    <3>. QED
      BY <3>1, <3>2
  <2>. QED
    BY <1>6, <2>1, <2>2, ReportEffect
<1>. QED
  BY <1>1, <1>2, <1>3, <1>4, <1>5, <1>6, Writers

\* What a step may do to the SignerKey s.
LEMMA KeyStep ==
  ASSUME RootInv, [Next]_vars, NEW s \in Signers
  PROVE  \/ signerKeys'[s] = signerKeys[s]
         \/ /\ signerKeys[s] # None /\ signerKeys'[s] = None
            /\ imageSigners[s] # None => imageSigners[s].uid # signerKeys[s].owner
         \/ /\ w.pc = "createKey" /\ s = w.name /\ signerKeys[s] = None
            /\ w.key \in TrustKey /\ w.key.enc = w.key.pass /\ w.obj \in ImageSigner
            /\ signerKeys'[s] = [root |-> w.key, owner |-> w.obj.uid]
<1>1. signerKeys \in [Signers -> SignerKey \cup {None}]
  BY DEF RootInv, TypeOK
<1>2. ASSUME NEW x \in Signers, CollectKey(x)
      PROVE  \/ signerKeys'[s] = signerKeys[s]
             \/ /\ signerKeys[s] # None /\ signerKeys'[s] = None
                /\ imageSigners[s] # None => imageSigners[s].uid # signerKeys[s].owner
  BY <1>1, <1>2 DEF CollectKey
<1>3. CASE CreateSignerKey
  <2>1. /\ w.pc = "createKey" /\ w.name \in Signers /\ w.obj \in ImageSigner
        /\ w.key \in TrustKey /\ w.key.enc = w.key.pass
    BY <1>3 DEF CreateSignerKey, At, RootInv, WorkerShape
  <2>2. \/ signerKeys' = signerKeys
        \/ /\ signerKeys[w.name] = None
           /\ signerKeys' = [signerKeys EXCEPT ![w.name] =
                               [root |-> w.key, owner |-> w.obj.uid]]
    BY <1>3 DEF CreateSignerKey, KeyIsNew
  <2>. QED
    BY <1>1, <2>1, <2>2
<1>. QED
  BY <1>1, <1>2, <1>3, Writers

LEMMA TypesStep ==
  ASSUME RootInv, [Next]_vars
  PROVE  TypeOK'
<1>1. /\ imageSigners \in [Signers -> ImageSigner \cup {None}]
      /\ signerCache \in [Signers -> ImageSigner \cup {None}]
      /\ signerKeys \in [Signers -> SignerKey \cup {None}]
      /\ keyCache \in [Signers -> SignerKey \cup {None}]
      /\ rev \in Nat
  BY DEF RootInv, TypeOK
<1>2. imageSigners' \in [Signers -> ImageSigner \cup {None}]
  <2>1. ASSUME NEW x \in Signers, CreateSigner(x)
        PROVE  imageSigners' \in [Signers -> ImageSigner \cup {None}]
    BY <1>1, <2>1 DEF CreateSigner, UserWrites, ImageSigner
  <2>2. ASSUME NEW x \in Signers, EditSigner(x)
        PROVE  imageSigners' \in [Signers -> ImageSigner \cup {None}]
    <3>1. imageSigners[x] \in ImageSigner
      BY <1>1, <2>2 DEF EditSigner
    <3>2. [imageSigners[x] EXCEPT !.rv = rev + 1] \in ImageSigner
      BY <1>1, <3>1 DEF ImageSigner
    <3>. QED
      BY <1>1, <2>2, <3>2 DEF EditSigner, UserWrites
  <2>3. ASSUME NEW x \in Signers, DeleteSigner(x)
        PROVE  imageSigners' \in [Signers -> ImageSigner \cup {None}]
    BY <1>1, <2>3 DEF DeleteSigner, UserWrites
  <2>4. CASE Report
    <3>1. ASSUME w.obj \in ImageSigner, w.keyState \in KeyState
          PROVE  [uid |-> w.obj.uid, rv |-> rev + 1, keyState |-> w.keyState] \in ImageSigner
      BY <1>1, <3>1 DEF ImageSigner
    <3>. QED
      BY <1>1, <2>4, <3>1, ReportEffect
  <2>. QED
    BY <1>1, <2>1, <2>2, <2>3, <2>4, Writers
<1>3. signerCache' \in [Signers -> ImageSigner \cup {None}]
  BY <1>1, Writers DEF SyncSigner
<1>4. signerKeys' \in [Signers -> SignerKey \cup {None}]
  <2>1. ASSUME NEW x \in Signers, CollectKey(x)
        PROVE  signerKeys' \in [Signers -> SignerKey \cup {None}]
    BY <1>1, <2>1 DEF CollectKey
  <2>2. CASE CreateSignerKey
    <3>1. w.name \in Signers /\ w.obj \in ImageSigner /\ w.key \in TrustKey
      BY <2>2 DEF CreateSignerKey, At, RootInv, WorkerShape
    <3>2. [root |-> w.key, owner |-> w.obj.uid] \in SignerKey
      BY <3>1 DEF SignerKey, ImageSigner
    <3>. QED
      BY <1>1, <2>2, <3>1, <3>2 DEF CreateSignerKey
  <2>. QED
    BY <1>1, <2>1, <2>2, Writers
<1>5. keyCache' \in [Signers -> SignerKey \cup {None}]
  BY <1>1, Writers DEF SyncKey
<1>6. rev' \in Nat
  BY <1>1, Writers, ReportEffect
     DEF CreateSignerKey, CreateSigner, EditSigner, DeleteSigner, UserWrites
<1>. QED
  BY <1>2, <1>3, <1>4, <1>5, <1>6, WorkerTypeStep, BookkeepingStep, PodTypesStep DEF TypeOK

(***************************************************************************)
(* Versions.                                                               *)
(***************************************************************************)
\* The attempt keeps the object it read until it ends.
LEMMA ObjStep ==
  ASSUME RootInv, [Next]_vars
  PROVE  \/ w' = Idle
         \/ w.pc # "idle" /\ w'.name = w.name /\ w'.obj = w.obj
         \/ \E s \in Signers : /\ w'.name = s /\ w'.obj = signerCache[s]
                               /\ signerCache[s] \in ImageSigner
<1>1. w \in Worker
  BY DEF RootInv, TypeOK
<1>2. ASSUME NEW s \in Signers, signerCache[s] \in ImageSigner,
             w' = [w EXCEPT !.pc = "getKey", !.name = s, !.obj = signerCache[s],
                            !.keyState = signerCache[s].keyState]
      PROVE  w'.name = s /\ w'.obj = signerCache[s]
  BY <1>1, <1>2 DEF Worker
<1>3. CASE w' = w
  BY <1>3 DEF RootInv, WorkerShape
<1>4. CASE /\ w.pc = "getKey"
           /\ \/ w' = [w EXCEPT !.pc = "report"]
              \/ \E p \in Passes : w' = [w EXCEPT !.pc = "create", !.pass = p]
  BY <1>1, <1>4 DEF Worker
<1>5. ASSUME NEW n \in PodNames, w.pc = "create",
             \/ w' = [w EXCEPT !.pc = "poll", !.pod = n]
             \/ w' = [w EXCEPT !.pc = "close", !.pod = n, !.keyState = Failed]
      PROVE  w.pc # "idle" /\ w'.name = w.name /\ w'.obj = w.obj
  BY <1>1, <1>5 DEF Worker
<1>6. CASE /\ w.pc \in KeySteps \cup {"createKey"}
           /\ w' = [w EXCEPT !.pc = "close", !.keyState = Failed]
  BY <1>1, <1>6 DEF Worker, KeySteps
<1>7. CASE /\ w.pc = "poll"
           /\ \/ w' = [w EXCEPT !.pc = "generate"]
              \/ PollsAgain(w.tries) /\ w' = [w EXCEPT !.tries = @ + 1]
  BY <1>1, <1>7 DEF Worker
<1>8. CASE w.pc = "generate" /\ w' = [w EXCEPT !.pc = "readKey"]
  BY <1>1, <1>8 DEF Worker
<1>9. ASSUME w.pc = "readKey", NEW k, w' = [w EXCEPT !.pc = "createKey", !.key = k]
      PROVE  w.pc # "idle" /\ w'.name = w.name /\ w'.obj = w.obj
  BY <1>1, <1>9 DEF Worker
<1>10. CASE /\ w.pc = "createKey"
            /\ w' = [w EXCEPT !.pc = "close",
                              !.keyState = [created |-> TRUE, rootKeyId |-> w.key.id]]
  BY <1>1, <1>10 DEF Worker
<1>11. CASE w.pc = "close" /\ w' = [w EXCEPT !.pc = "report"]
  BY <1>1, <1>11 DEF Worker
<1>. QED
  BY <1>2, <1>3, <1>4, <1>5, <1>6, <1>7, <1>8, <1>9, <1>10, <1>11, WorkerMoves

\* What is written is new, and of a new uid unless it was there.
LEMMA SignerVersion ==
  ASSUME RootInv, [Next]_vars, NEW s \in Signers
  PROVE  \/ imageSigners'[s] = None \/ imageSigners'[s] = imageSigners[s]
         \/ /\ rev' = rev + 1 /\ imageSigners'[s].rv = rev + 1
            /\ \/ imageSigners'[s].uid = rev + 1
               \/ imageSigners[s] # None /\ imageSigners'[s].uid = imageSigners[s].uid
<1>1. None \notin ImageSigner
  BY RootKeyAssumption
<1>2. CASE /\ imageSigners[s] = None
           /\ imageSigners'[s] = [uid |-> rev + 1, rv |-> rev + 1, keyState |-> None]
           /\ rev' = rev + 1
  BY <1>2
<1>3. CASE /\ imageSigners[s] \in ImageSigner
           /\ imageSigners'[s] = [uid |-> imageSigners[s].uid, rv |-> rev + 1,
                                  keyState |-> imageSigners[s].keyState]
           /\ rev' = rev + 1
  BY <1>1, <1>3
<1>4. CASE /\ imageSigners[s] = w.obj /\ w.obj \in ImageSigner
           /\ imageSigners'[s] = [uid |-> w.obj.uid, rv |-> rev + 1, keyState |-> w.keyState]
           /\ rev' = rev + 1
  BY <1>1, <1>4
<1>. QED
  BY Zenon, <1>2, <1>3, <1>4, SignerStep

\* An old copy stays the copy of what has its version: versions written are new.
LEMMA CopyStep ==
  ASSUME RootInv, [Next]_vars, NEW s \in Signers, NEW copy \in ImageSigner \cup {None},
         Old(copy, rev), SameVersion(copy, imageSigners[s])
  PROVE  Old(copy, rev') /\ SameVersion(copy, imageSigners'[s])
<1>1. rev \in Nat /\ rev' \in Nat /\ rev' >= rev
  BY SignerStep DEF RootInv, TypeOK
<1>2. copy # None => copy.uid \in Nat /\ copy.rv \in Nat
  BY DEF ImageSigner
<1>3. Old(copy, rev')
  BY <1>1, <1>2 DEF Old
<1>4. \/ imageSigners'[s] = None \/ imageSigners'[s] = imageSigners[s]
      \/ imageSigners'[s].rv = rev + 1
  BY Zenon, SignerVersion
<1>. QED
  BY <1>1, <1>2, <1>3, <1>4 DEF SameVersion, Old

LEMMA VersionsStep ==
  ASSUME RootInv, [Next]_vars
  PROVE  Versions'
<1>1. /\ imageSigners \in [Signers -> ImageSigner \cup {None}]
      /\ signerCache \in [Signers -> ImageSigner \cup {None}]
      /\ rev \in Nat
  BY DEF RootInv, TypeOK
<1>2. ASSUME NEW s \in Signers
      PROVE  /\ Old(imageSigners[s], rev) /\ Old(signerCache[s], rev)
             /\ SameVersion(signerCache[s], imageSigners[s])
  BY <1>2 DEF RootInv, Versions
<1>3. ASSUME NEW s \in Signers
      PROVE  Old(imageSigners'[s], rev')
  <2>1. rev' \in Nat /\ rev' >= rev
    BY <1>3, SignerStep
  <2>2. Old(imageSigners[s], rev)
    BY <1>2, <1>3
  <2>3. imageSigners[s] # None => imageSigners[s].uid \in Nat /\ imageSigners[s].rv \in Nat
    BY <1>1, <1>3 DEF ImageSigner
  <2>. QED
    BY <1>1, <1>3, <2>1, <2>2, <2>3, SignerVersion DEF Old
<1>4. ASSUME NEW s \in Signers
      PROVE  Old(signerCache'[s], rev') /\ SameVersion(signerCache'[s], imageSigners'[s])
  <2>1. \/ signerCache'[s] = signerCache[s]
        \/ signerCache'[s] = imageSigners[s] /\ imageSigners' = imageSigners
    BY <1>1, <1>4, Writers DEF SyncSigner, apiVars
  <2>2. CASE signerCache'[s] = signerCache[s]
    BY <1>1, <1>2, <1>4, <2>2, CopyStep DEF Old, SameVersion
  <2>3. CASE signerCache'[s] = imageSigners[s] /\ imageSigners' = imageSigners
    BY <1>3, <1>4, <2>3 DEF Old, SameVersion
  <2>. QED
    BY <2>1, <2>2, <2>3
<1>5. ASSUME w'.pc # "idle"
      PROVE  Old(w'.obj, rev') /\ SameVersion(w'.obj, imageSigners'[w'.name])
  <2>1. CASE w.pc # "idle" /\ w'.name = w.name /\ w'.obj = w.obj
    <3>1. /\ w.name \in Signers /\ w.obj \in ImageSigner
          /\ Old(w.obj, rev) /\ SameVersion(w.obj, imageSigners[w.name])
      BY <2>1, Locals DEF RootInv, Versions
    <3>2. Old(w.obj, rev') /\ SameVersion(w.obj, imageSigners'[w.name])
      BY <3>1, CopyStep
    <3>. QED
      BY <2>1, <3>2 DEF Old, SameVersion
  <2>2. ASSUME NEW s \in Signers, w'.name = s, w'.obj = signerCache[s],
               signerCache[s] \in ImageSigner
        PROVE  Old(w'.obj, rev') /\ SameVersion(w'.obj, imageSigners'[w'.name])
    BY <1>2, <2>2, CopyStep DEF Old, SameVersion
  <2>. QED
    BY <1>5, <2>1, <2>2, ObjStep DEF Idle
<1>. QED
  BY <1>3, <1>4, <1>5 DEF Versions, Old, SameVersion

(***************************************************************************)
(* The root key and its passphrase.                                        *)
(***************************************************************************)
LEMMA PodKeysStep ==
  ASSUME RootInv, [Next]_vars
  PROVE  PodKeys'
<1>1. w \in Worker /\ PodTypeOK
  BY DEF RootInv, TypeOK
<1>2. ASSUME NEW n \in PodNames, StartCreates(n), w' = [w EXCEPT !.pc = "poll", !.pod = n]
      PROVE  PodKeys'
  <2>1. w.pc = "create" /\ pods' = [pods EXCEPT ![n] = StartedPod]
    BY <1>2 DEF StartCreates, PodCreated, At
  <2>2. pods'[n] = StartedPod /\ StartedPod.env.root = w.pass /\ StartedPod.files = {}
    BY <1>1, <2>1, StartedPodType DEF PodTypeOK
  <2>3. w'.pod = n /\ w'.pass = w.pass
    BY <1>1, <1>2 DEF Worker
  <2>. QED
    BY <2>2, <2>3 DEF PodKeys
<1>3. ASSUME w.pc \in KeySteps, w'.pc \in KeySteps, w'.pod = w.pod, w'.pass = w.pass
      PROVE  PodKeys'
  <2>1. /\ w.pod \in PodNames
        /\ pods[w.pod] # None => /\ pods[w.pod] \in Pod /\ pods[w.pod].env.root = w.pass
                                 /\ \A f \in pods[w.pod].files : f.enc = w.pass
    BY <1>3, Locals DEF RootInv, PodKeys, PodSteps, KeySteps
  <2>2. SUFFICES ASSUME pods'[w.pod] # None
                 PROVE  /\ pods'[w.pod].env.root = w.pass
                        /\ \A f \in pods'[w.pod].files : f.enc = w.pass
    BY <1>3 DEF PodKeys
  <2>3. CASE pods' = pods
    BY <2>1, <2>2, <2>3
  <2>4. ASSUME NEW n \in PodNames, StartCreates(n) \/ StartFails(n)
        PROVE  FALSE
    BY <1>3, <2>4 DEF StartCreates, StartFails, At, KeySteps
  <2>5. ASSUME NEW n \in PodNames, PodStarts(n)
        PROVE  /\ pods'[w.pod].env.root = w.pass
               /\ \A f \in pods'[w.pod].files : f.enc = w.pass
    <3>1. pods[n] \in Pod /\ pods' = [pods EXCEPT ![n] = [pods[n] EXCEPT !.phase = "Running"]]
      BY <1>1, <2>5 DEF PodStarts, KubeletRuns, PodTypeOK
    <3>2. CASE n = w.pod
      BY <1>1, <2>1, <3>1, <3>2, PodAssumption DEF PodTypeOK, Pod
    <3>3. CASE n # w.pod
      BY <1>1, <2>1, <2>2, <3>1, <3>3 DEF PodTypeOK
    <3>. QED
      BY <3>2, <3>3
  <2>6. ASSUME NEW n \in PodNames, PodLost(n)
        PROVE  /\ pods'[w.pod].env.root = w.pass
               /\ \A f \in pods'[w.pod].files : f.enc = w.pass
    BY <1>1, <2>1, <2>2, <2>6 DEF PodLost, PodDeleted, PodTypeOK
  <2>7. ~Close
    BY <1>3 DEF Close, At, KeySteps
  <2>8. ASSUME NEW k \in KeyIds, GenerateRoot(k)
        PROVE  /\ pods'[w.pod].env.root = w.pass
               /\ \A f \in pods'[w.pod].files : f.enc = w.pass
    <3>1. /\ pods[w.pod] \in Pod
          /\ pods' = [pods EXCEPT ![w.pod].files =
                        @ \cup {[role |-> "root", id |-> k, enc |-> w.pass]}]
      BY <2>8, GenerateEffect
    <3>2. pods' = [pods EXCEPT ![w.pod] = [pods[w.pod] EXCEPT !.files =
                     @ \cup {[role |-> "root", id |-> k, enc |-> w.pass]}]]
      BY <1>1, <2>1, <3>1 DEF PodTypeOK
    <3>3. pods[w.pod] # None
      BY <2>8 DEF GenerateRoot, PodRuns
    <3>4. /\ pods'[w.pod].env = pods[w.pod].env
          /\ pods'[w.pod].files = pods[w.pod].files
                                    \cup {[role |-> "root", id |-> k, enc |-> w.pass]}
      BY <1>1, <2>1, <3>1, <3>2 DEF PodTypeOK, Pod
    <3>. QED
      BY <2>1, <3>3, <3>4
  <2>. QED
    BY <2>3, <2>4, <2>5, <2>6, <2>7, <2>8, Writers
<1>4. CASE w' = w
  BY <1>3, <1>4 DEF PodKeys
<1>5. ASSUME w'.pc \notin KeySteps PROVE PodKeys'
  BY <1>5 DEF PodKeys
<1>6. w' = Idle => w'.pc \notin KeySteps
  BY DEF KeySteps, Idle
<1>7. ASSUME NEW s \in Signers,
             w' = [w EXCEPT !.pc = "getKey", !.name = s, !.obj = signerCache[s],
                            !.keyState = signerCache[s].keyState]
      PROVE  w'.pc \notin KeySteps
  BY <1>1, <1>7 DEF KeySteps, Worker
<1>8. w' = [w EXCEPT !.pc = "report"] => w'.pc \notin KeySteps
  BY <1>1 DEF KeySteps, Worker
<1>9. ASSUME NEW p \in Passes, w' = [w EXCEPT !.pc = "create", !.pass = p]
       PROVE  w'.pc \notin KeySteps
  BY <1>1, <1>9 DEF KeySteps, Worker
<1>10. ASSUME NEW n \in PodNames, w' = [w EXCEPT !.pc = "close", !.pod = n, !.keyState = Failed]
       PROVE  w'.pc \notin KeySteps
  BY <1>1, <1>10 DEF KeySteps, Worker
<1>11. ASSUME NEW k, \/ w' = [w EXCEPT !.pc = "close", !.keyState = k]
                     \/ w' = [w EXCEPT !.pc = "createKey", !.key = k]
       PROVE  w'.pc \notin KeySteps
  BY <1>1, <1>11 DEF KeySteps, Worker
<1>12. CASE /\ w.pc = "poll"
           /\ \/ w' = [w EXCEPT !.pc = "generate"]
              \/ PollsAgain(w.tries) /\ w' = [w EXCEPT !.tries = @ + 1]
  BY <1>1, <1>3, <1>12 DEF Worker, KeySteps
<1>13. CASE w.pc = "generate" /\ w' = [w EXCEPT !.pc = "readKey"]
  BY <1>1, <1>3, <1>13 DEF Worker, KeySteps
<1>. QED
  BY Zenon, WorkerMoves, <1>2, <1>4, <1>5, <1>6, <1>7, <1>8, <1>9, <1>10, <1>11, <1>12, <1>13

\* A key in the attempt's pod was there before the step, or was made by it.
LEMMA PodFilesStep ==
  ASSUME RootInv, [Next]_vars, w'.pc \in KeySteps, pods'[w'.pod] # None,
         NEW f \in pods'[w'.pod].files
  PROVE  \/ w.pc \in KeySteps /\ pods[w.pod] # None /\ f \in pods[w.pod].files
         \/ f.id \in minted' \ minted
<1>. DEFINE Accounted == \/ w.pc \in KeySteps /\ pods[w.pod] # None /\ f \in pods[w.pod].files
                         \/ f.id \in minted' \ minted
<1>1. w \in Worker /\ PodTypeOK
  BY DEF RootInv, TypeOK
<1>2. ASSUME NEW n \in PodNames, StartCreates(n), w' = [w EXCEPT !.pc = "poll", !.pod = n]
      PROVE  FALSE
  <2>1. w.pc = "create" /\ pods' = [pods EXCEPT ![n] = StartedPod]
    BY <1>2 DEF StartCreates, PodCreated, At
  <2>2. pods'[n] = StartedPod /\ StartedPod.files = {}
    BY <1>1, <2>1, StartedPodType DEF PodTypeOK
  <2>3. w'.pod = n
    BY <1>1, <1>2 DEF Worker
  <2>. QED
    BY <2>2, <2>3
<1>3. ASSUME w.pc \in KeySteps, w'.pod = w.pod PROVE Accounted
  <2>1. w.pod \in PodNames /\ (pods[w.pod] # None => pods[w.pod] \in Pod)
    BY <1>3, Locals DEF PodSteps, KeySteps
  <2>2. pods'[w.pod] # None /\ f \in pods'[w.pod].files
    BY <1>3
  <2>3. CASE pods' = pods
    BY <1>3, <2>2, <2>3
  <2>4. ASSUME NEW n \in PodNames, StartCreates(n) \/ StartFails(n)
        PROVE  FALSE
    BY <1>3, <2>4 DEF StartCreates, StartFails, At, KeySteps
  <2>5. ASSUME NEW n \in PodNames, PodStarts(n)
        PROVE  Accounted
    <3>1. pods[n] \in Pod /\ pods' = [pods EXCEPT ![n] = [pods[n] EXCEPT !.phase = "Running"]]
      BY <1>1, <2>5 DEF PodStarts, KubeletRuns, PodTypeOK
    <3>2. CASE n = w.pod
      BY <1>1, <1>3, <2>1, <2>2, <3>1, <3>2, PodAssumption DEF PodTypeOK, Pod
    <3>3. CASE n # w.pod
      BY <1>1, <1>3, <2>1, <2>2, <3>1, <3>3 DEF PodTypeOK
    <3>. QED
      BY <3>2, <3>3
  <2>6. ASSUME NEW n \in PodNames, PodLost(n)
        PROVE  Accounted
    BY <1>1, <1>3, <2>1, <2>2, <2>6 DEF PodLost, PodDeleted, PodTypeOK
  <2>7. ~Close
    BY <1>3 DEF Close, At, KeySteps
  <2>8. ASSUME NEW k \in KeyIds, GenerateRoot(k)
        PROVE  Accounted
    <3>1. /\ pods[w.pod] \in Pod /\ pods[w.pod] # None
          /\ pods' = [pods EXCEPT ![w.pod].files =
                        @ \cup {[role |-> "root", id |-> k, enc |-> w.pass]}]
          /\ k \in minted' \ minted
      BY <2>8, GenerateEffect DEF GenerateRoot, Generate, PodRuns
    <3>2. pods'[w.pod].files = pods[w.pod].files
                                 \cup {[role |-> "root", id |-> k, enc |-> w.pass]}
      BY <1>1, <2>1, <3>1 DEF PodTypeOK, Pod
    <3>. QED
      BY <1>3, <2>2, <3>1, <3>2
  <2>. QED
    BY <2>3, <2>4, <2>5, <2>6, <2>7, <2>8, Writers
<1>4. CASE w' = w
  BY <1>3, <1>4
<1>5. w' = Idle => w'.pc \notin KeySteps
  BY DEF KeySteps, Idle
<1>6. ASSUME NEW s \in Signers,
             w' = [w EXCEPT !.pc = "getKey", !.name = s, !.obj = signerCache[s],
                            !.keyState = signerCache[s].keyState]
      PROVE  w'.pc \notin KeySteps
  BY <1>1, <1>6 DEF KeySteps, Worker
<1>7. w' = [w EXCEPT !.pc = "report"] => w'.pc \notin KeySteps
  BY <1>1 DEF KeySteps, Worker
<1>8. ASSUME NEW p \in Passes, w' = [w EXCEPT !.pc = "create", !.pass = p]
       PROVE  w'.pc \notin KeySteps
  BY <1>1, <1>8 DEF KeySteps, Worker
<1>9. ASSUME NEW n \in PodNames, w' = [w EXCEPT !.pc = "close", !.pod = n, !.keyState = Failed]
       PROVE  w'.pc \notin KeySteps
  BY <1>1, <1>9 DEF KeySteps, Worker
<1>10. ASSUME NEW k, \/ w' = [w EXCEPT !.pc = "close", !.keyState = k]
                     \/ w' = [w EXCEPT !.pc = "createKey", !.key = k]
       PROVE  w'.pc \notin KeySteps
  BY <1>1, <1>10 DEF KeySteps, Worker
<1>11. CASE /\ w.pc = "poll"
            /\ \/ w' = [w EXCEPT !.pc = "generate"]
               \/ PollsAgain(w.tries) /\ w' = [w EXCEPT !.tries = @ + 1]
  BY <1>1, <1>3, <1>11 DEF Worker, KeySteps
<1>12. CASE w.pc = "generate" /\ w' = [w EXCEPT !.pc = "readKey"]
  BY <1>1, <1>3, <1>12 DEF Worker, KeySteps
<1>. QED
  BY Zenon, WorkerMoves, <1>2, <1>4, <1>5, <1>6, <1>7, <1>8, <1>9, <1>10, <1>11, <1>12

\* The key about to be stored was read from the attempt's pod.
LEMMA KeyReadStep ==
  ASSUME RootInv, [Next]_vars, w'.pc = "createKey"
  PROVE  \/ w.pc = "createKey" /\ w'.key = w.key
         \/ /\ w.pc = "readKey" /\ pods[w.pod] # None
            /\ \E f \in pods[w.pod].files : f.id = w'.key.id
<1>1. w \in Worker /\ Idle.pc # "createKey"
  BY DEF RootInv, TypeOK, Idle
<1>2. ASSUME w.pc = "readKey", pods[w.pod] # None,
             NEW k \in ReadTrustKey(pods[w.pod], "root", w.pass),
             w' = [w EXCEPT !.pc = "createKey", !.key = k]
      PROVE  \E f \in pods[w.pod].files : f.id = w'.key.id
  BY <1>1, <1>2 DEF ReadTrustKey, Worker
<1>3. ASSUME NEW s \in Signers,
             w' = [w EXCEPT !.pc = "getKey", !.name = s, !.obj = signerCache[s],
                            !.keyState = signerCache[s].keyState]
      PROVE  FALSE
  BY <1>1, <1>3 DEF Worker
<1>4. ASSUME \/ w' = [w EXCEPT !.pc = "report"]
             \/ \E p \in Passes : w' = [w EXCEPT !.pc = "create", !.pass = p]
             \/ w' = [w EXCEPT !.pc = "generate"]
             \/ w' = [w EXCEPT !.pc = "readKey"]
             \/ w.pc = "poll" /\ w' = [w EXCEPT !.tries = @ + 1]
      PROVE  FALSE
  BY <1>1, <1>4 DEF Worker
<1>5. ASSUME NEW n \in PodNames,
             \/ w' = [w EXCEPT !.pc = "poll", !.pod = n]
             \/ w' = [w EXCEPT !.pc = "close", !.pod = n, !.keyState = Failed]
      PROVE  FALSE
  BY <1>1, <1>5 DEF Worker
<1>6. ASSUME NEW k, w' = [w EXCEPT !.pc = "close", !.keyState = k]
      PROVE  FALSE
  BY <1>1, <1>6 DEF Worker
<1>7. CASE w' = w
  BY <1>7
<1>8. CASE w' = Idle
  BY <1>1, <1>8
<1>. QED
  BY Zenon, WorkerMoves, <1>2, <1>3, <1>4, <1>5, <1>6, <1>7, <1>8

LEMMA RootKeyOpensStep ==
  ASSUME RootInv, [Next]_vars
  PROVE  RootKeyOpens'
<1>. SUFFICES ASSUME NEW s \in Signers, signerKeys'[s] # None
              PROVE  signerKeys'[s].root.enc = signerKeys'[s].root.pass
  BY DEF RootKeyOpens
<1>1. signerKeys[s] # None => signerKeys[s].root.enc = signerKeys[s].root.pass
  BY DEF RootInv, RootKeyOpens
<1>2. CASE signerKeys'[s] = [root |-> w.key, owner |-> w.obj.uid] /\ w.key.enc = w.key.pass
  BY <1>2
<1>. QED
  BY <1>1, <1>2, KeyStep

\* Only a key created in this attempt, or an earlier one still in hand, is
\* reported.
LEMMA CreatedMove ==
  ASSUME RootInv, [Next]_vars, HasCreated(w')
  PROVE  \/ /\ HasCreated(w) /\ w.pc # "idle"
            /\ w'.name = w.name /\ w'.obj = w.obj /\ w'.keyState = w.keyState
         \/ /\ w.pc = "createKey" /\ CreateSignerKey
            /\ signerKeys' = [signerKeys EXCEPT ![w.name] =
                                [root |-> w.key, owner |-> w.obj.uid]]
            /\ w'.name = w.name /\ w'.obj = w.obj /\ w'.keyState.rootKeyId = w.key.id
<1>1. w \in Worker /\ WorkerShape
  BY DEF RootInv, TypeOK
<1>2. w'.pc \in {"close", "report"}
  BY ShapeStep DEF WorkerShape
<1>. USE DEF HasCreated
<1>3. CASE w' = w
  BY <1>2, <1>3
<1>4. CASE w' = Idle
  BY <1>2, <1>4 DEF Idle
<1>5. ASSUME NEW s \in Signers,
             w' = [w EXCEPT !.pc = "getKey", !.name = s, !.obj = signerCache[s],
                            !.keyState = signerCache[s].keyState]
      PROVE  FALSE
  BY <1>1, <1>2, <1>5 DEF Worker
<1>6. CASE w.pc = "getKey" /\ w' = [w EXCEPT !.pc = "report"]
  BY <1>1, <1>6 DEF Worker
<1>7. ASSUME NEW p \in Passes, w' = [w EXCEPT !.pc = "create", !.pass = p]
      PROVE  FALSE
  BY <1>1, <1>2, <1>7 DEF Worker
<1>8. ASSUME NEW n \in PodNames,
             \/ w' = [w EXCEPT !.pc = "poll", !.pod = n]
             \/ w' = [w EXCEPT !.pc = "close", !.pod = n, !.keyState = Failed]
      PROVE  FALSE
  <2>1. w'.pc = "poll" => FALSE
    BY <1>2
  <2>2. w' = [w EXCEPT !.pc = "close", !.pod = n, !.keyState = Failed] => w'.keyState = Failed
    BY <1>1 DEF Worker
  <2>3. w' = [w EXCEPT !.pc = "poll", !.pod = n] => w'.pc = "poll"
    BY <1>1 DEF Worker
  <2>4. ~Failed.created
    BY DEF Failed
  <2>. QED
    BY <1>8, <2>1, <2>2, <2>3, <2>4
<1>9. CASE w' = [w EXCEPT !.pc = "close", !.keyState = Failed]
  BY <1>1, <1>9 DEF Worker, Failed
<1>10. CASE /\ w.pc = "poll"
            /\ \/ w' = [w EXCEPT !.pc = "generate"]
               \/ PollsAgain(w.tries) /\ w' = [w EXCEPT !.tries = @ + 1]
  BY <1>1, <1>2, <1>10 DEF Worker
<1>11. CASE w' = [w EXCEPT !.pc = "readKey"]
  BY <1>1, <1>2, <1>11 DEF Worker
<1>12. ASSUME NEW k, w' = [w EXCEPT !.pc = "createKey", !.key = k]
       PROVE  FALSE
  BY <1>1, <1>2, <1>12 DEF Worker
<1>13. CASE /\ w.pc = "createKey" /\ CreateSignerKey
            /\ signerKeys' = [signerKeys EXCEPT ![w.name] =
                                [root |-> w.key, owner |-> w.obj.uid]]
            /\ w' = [w EXCEPT !.pc = "close",
                              !.keyState = [created |-> TRUE, rootKeyId |-> w.key.id]]
  BY <1>1, <1>13 DEF Worker
<1>14. CASE w.pc = "close" /\ w' = [w EXCEPT !.pc = "report"]
  BY <1>1, <1>14 DEF Worker
<1>. HIDE DEF HasCreated
<1>. QED
  BY Zenon, WorkerMoves, <1>3, <1>4, <1>5, <1>6, <1>7, <1>8, <1>9, <1>10, <1>11, <1>12,
     <1>13, <1>14

LEMMA KeyInHandStep ==
  ASSUME RootInv, [Next]_vars
  PROVE  KeyInHand'
<1>. SUFFICES ASSUME HasCreated(w'), imageSigners'[w'.name] # None,
                     imageSigners'[w'.name].uid = w'.obj.uid
              PROVE  Owned(signerKeys'[w'.name], w'.obj.uid, w'.keyState.rootKeyId)
  BY DEF KeyInHand, Owned
<1>1. CASE /\ HasCreated(w) /\ w.pc # "idle"
           /\ w'.name = w.name /\ w'.obj = w.obj /\ w'.keyState = w.keyState
  <2>1. /\ w.name \in Signers /\ w.obj \in ImageSigner /\ w.obj # None
        /\ w.obj.uid \in Nat /\ rev \in Nat /\ w.obj.uid <= rev
    BY <1>1, Locals, RootKeyAssumption DEF RootInv, TypeOK, Versions, Old, ImageSigner
  <2>2. imageSigners[w.name] # None /\ imageSigners[w.name].uid = w.obj.uid
    BY <1>1, <2>1, SignerVersion
  <2>3. Owned(signerKeys[w.name], w.obj.uid, w.keyState.rootKeyId)
    BY <1>1, <2>2 DEF RootInv, KeyInHand
  <2>4. signerKeys'[w.name] = signerKeys[w.name]
    BY <2>1, <2>2, <2>3, KeyStep DEF Owned
  <2>. QED
    BY <1>1, <2>3, <2>4 DEF Owned
<1>2. CASE /\ w.pc = "createKey"
           /\ signerKeys' = [signerKeys EXCEPT ![w.name] =
                               [root |-> w.key, owner |-> w.obj.uid]]
           /\ w'.name = w.name /\ w'.obj = w.obj /\ w'.keyState.rootKeyId = w.key.id
  <2>1. w.name \in Signers /\ w.obj \in ImageSigner /\ w.key \in TrustKey
    BY <1>2, Locals DEF RootInv, WorkerShape
  <2>2. signerKeys'[w.name] = [root |-> w.key, owner |-> w.obj.uid]
    BY <1>2, <2>1 DEF RootInv, TypeOK
  <2>3. [root |-> w.key, owner |-> w.obj.uid] # None
    BY <2>1, RootKeyAssumption DEF SignerKey, ImageSigner
  <2>. QED
    BY <1>2, <2>2, <2>3 DEF Owned
<1>. QED
  BY Zenon, <1>1, <1>2, CreatedMove

LEMMA CreatedMeansKeyStep ==
  ASSUME RootInv, [Next]_vars
  PROVE  CreatedMeansKey'
<1>. SUFFICES ASSUME NEW s \in Signers, imageSigners'[s] # None, HasCreated(imageSigners'[s])
              PROVE  Owned(signerKeys'[s], imageSigners'[s].uid,
                           imageSigners'[s].keyState.rootKeyId)
  BY DEF CreatedMeansKey, Owned
<1>1. /\ imageSigners[s] # None
      /\ imageSigners[s].uid = imageSigners'[s].uid
      /\ Owned(signerKeys[s], imageSigners'[s].uid, imageSigners'[s].keyState.rootKeyId)
  <2>1. CASE imageSigners'[s] = imageSigners[s]
    BY <2>1 DEF RootInv, CreatedMeansKey, Owned
  <2>2. CASE imageSigners'[s] = [uid |-> rev + 1, rv |-> rev + 1, keyState |-> None]
    BY <2>2 DEF HasCreated
  <2>3. CASE /\ imageSigners[s] \in ImageSigner
             /\ imageSigners'[s] = [uid |-> imageSigners[s].uid, rv |-> rev + 1,
                                    keyState |-> imageSigners[s].keyState]
    <3>1. imageSigners[s] # None /\ HasCreated(imageSigners[s])
      BY <2>3, RootKeyAssumption DEF HasCreated
    <3>2. Owned(signerKeys[s], imageSigners[s].uid, imageSigners[s].keyState.rootKeyId)
      BY <3>1 DEF RootInv, CreatedMeansKey, Owned
    <3>. QED
      BY <2>3, <3>1, <3>2
  <2>4. CASE /\ s = w.name /\ HasCreated(w) /\ imageSigners[s] = w.obj /\ w.obj \in ImageSigner
             /\ imageSigners'[s] = [uid |-> w.obj.uid, rv |-> rev + 1, keyState |-> w.keyState]
    <3>1. imageSigners[w.name] # None /\ imageSigners[w.name].uid = w.obj.uid
      BY <2>4, RootKeyAssumption
    <3>2. Owned(signerKeys[w.name], w.obj.uid, w.keyState.rootKeyId)
      BY <2>4, <3>1 DEF RootInv, KeyInHand
    <3>. QED
      BY <2>4, <3>1, <3>2
  <2>. QED
    BY Zenon, <2>1, <2>2, <2>3, <2>4, SignerStep
<1>2. signerKeys'[s] = signerKeys[s]
  BY <1>1, KeyStep DEF Owned
<1>. QED
  BY <1>1, <1>2 DEF Owned

LEMMA RootInvStep ==
  ASSUME RootInv, [Next]_vars
  PROVE  RootInv'
BY TypesStep, ShapeStep, VersionsStep, PodKeysStep, KeyInHandStep, CreatedMeansKeyStep,
   RootKeyOpensStep DEF RootInv

\* The process ends, in an attempt or between two, by no step of this
\* reconciler: what it leaves behind is what a crash would.
LEMMA StopStep ==
  ASSUME RootInv, UNCHANGED <<podVars, apiVars, viewVars, ops, faults>>, up' \in BOOLEAN,
         UNCHANGED <<queue, w>> \/ (queue' = {} /\ w' = Idle)
  PROVE  RootInv'
<1>1. TypeOK'
  <2>1. PodTypeOK'
    BY DEF RootInv, TypeOK, PodTypeOK, podVars
  <2>2. w' \in Worker /\ queue' \in SUBSET Signers
    BY IdleType DEF RootInv, TypeOK
  <2>. QED
    BY <2>1, <2>2 DEF RootInv, TypeOK, apiVars, viewVars
<1>2. CASE UNCHANGED w
  BY <1>1, <1>2 DEF RootInv, WorkerShape, Versions, Old, SameVersion, PodKeys, KeyInHand, Owned,
     HasCreated, CreatedMeansKey, RootKeyOpens, podVars, apiVars, viewVars
<1>3. CASE w' = Idle
  <2>1. w'.pc = "idle" /\ w'.pod = None /\ w'.keyState = None
    BY <1>3 DEF Idle
  <2>2. WorkerShape' /\ PodKeys' /\ KeyInHand'
    BY <1>3, <2>1 DEF WorkerShape, PodKeys, KeyInHand, HasCreated, KeySteps, PodSteps
  <2>3. Versions'
    BY <2>1 DEF RootInv, Versions, Old, SameVersion, apiVars, viewVars
  <2>4. CreatedMeansKey' /\ RootKeyOpens'
    BY DEF RootInv, CreatedMeansKey, RootKeyOpens, HasCreated, apiVars
  <2>. QED
    BY <1>1, <2>2, <2>3, <2>4 DEF RootInv
<1>. QED
  BY <1>2, <1>3

(***************************************************************************)
(* The invariant, and what follows from it.                                *)
(***************************************************************************)
LEMMA InitRootInv == Init => RootInv
<1>. SUFFICES ASSUME Init PROVE RootInv
  OBVIOUS
<1>1. PodTypeOK
  BY DEF Init, PodInit, PodTypeOK
<1>2. TypeOK
  BY <1>1, IdleType, RootKeyAssumption DEF Init, TypeOK
<1>3. WorkerShape
  BY DEF Init, WorkerShape, Idle, KeySteps, PodSteps, HasCreated, Failed
<1>4. Versions
  BY DEF Init, Versions, Old, SameVersion, Idle
<1>5. PodKeys /\ KeyInHand
  BY DEF Init, PodKeys, KeyInHand, HasCreated, Idle, KeySteps
<1>6. CreatedMeansKey /\ RootKeyOpens
  BY DEF Init, CreatedMeansKey, RootKeyOpens
<1>. QED
  BY <1>2, <1>3, <1>4, <1>5, <1>6 DEF RootInv

\* RootInv holds in every state the operator, its users and the cluster can
\* reach from an empty one.
THEOREM RootInvariance == Spec => []RootInv
<1>1. RootInv /\ [Next]_vars => RootInv'
  BY RootInvStep
<1>. QED
  BY InitRootInv, <1>1, PTL DEF Spec

\* The ImageSigner reconciler keeps the types of the objects it reads and
\* writes, and of its locals.
THEOREM RootTypeCorrect == Spec => []TypeOK
<1>1. RootInv => TypeOK
  BY DEF RootInv
<1>. QED
  BY RootInvariance, <1>1, PTL

\* Whatever order users, the collector, crashes and failed calls take, an
\* ImageSigner that reports its key as created has that key.
THEOREM ReportedKeysExist == Spec => []CreatedMeansKey
<1>1. RootInv => CreatedMeansKey
  BY DEF RootInv
<1>. QED
  BY RootInvariance, <1>1, PTL

\* The passphrase createRootKey stores is the one docker encrypted the root
\* key with.
THEOREM RootKeysOpen == Spec => []RootKeyOpens
<1>1. RootInv => RootKeyOpens
  BY DEF RootInv
<1>. QED
  BY RootInvariance, <1>1, PTL

\* No step replaces the root key of a SignerKey: createRootKey only creates.
THEOREM RootKeysKept == Spec => RootKeyKept
<1>1. RootInv /\ [Next]_vars =>
        [\A s \in Signers : signerKeys[s] # None /\ signerKeys'[s] # None =>
           signerKeys'[s].root = signerKeys[s].root]_vars
  BY KeyStep
<1>. QED
  BY RootInvariance, <1>1, PTL DEF Spec, RootKeyKept

(***************************************************************************)
(* PodsAccounted: a step leaves a pod behind only if it is a fault.        *)
(***************************************************************************)
LeftPods == {n \in PodNames : pods[n] # None /\ ~(w.pod = n /\ w.pc # "report")}

\* The worker keeps its pod.
LEMMA SamePod ==
  ASSUME RootInv, pods' = pods, w'.pod = w.pod,
         w'.pc = "report" => w.pod = None \/ w.pc = "report"
  PROVE  LeftPods' \subseteq LeftPods
<1>1. None \notin PodNames
  BY RootKeyAssumption
<1>. QED
  BY <1>1 DEF LeftPods

LEMMA LeftPodsStep ==
  ASSUME RootInv, [Next]_vars
  PROVE  \/ LeftPods' \subseteq LeftPods
         \/ faults' = faults + 1 /\ \E x : LeftPods' \subseteq LeftPods \cup {x}
<1>1. w \in Worker /\ PodTypeOK
  BY DEF RootInv, TypeOK
<1>2. CASE pods' = pods /\ w' = w
  BY <1>2 DEF LeftPods
<1>3. ASSUME NEW s \in Signers, GetImageSigner(s)
      PROVE  LeftPods' \subseteq LeftPods
  <2>1. pods' = pods /\ w'.pod = w.pod /\ w'.pc = "getKey"
    BY <1>1, <1>3 DEF GetImageSigner, podVars, Worker
  <2>. QED
    BY <2>1, SamePod
<1>4. CASE CheckKey
  <2>1. pods' = pods /\ w'.pod = w.pod /\ w.pod = None
    BY <1>1, <1>4 DEF CheckKey, At, podVars, Worker, RootInv, WorkerShape
  <2>. QED
    BY <2>1, SamePod
<1>5. ASSUME NEW n \in PodNames, StartCreates(n) \/ StartFindsName(n) \/ StartFails(n)
      PROVE  LeftPods' \subseteq LeftPods
  <2>1. w'.pod = n /\ w'.pc # "report"
    BY <1>1, <1>5 DEF StartCreates, StartFindsName, StartFails, FindsNotRunning, Worker
  <2>2. \A m \in PodNames \ {n} : pods'[m] = pods[m]
    BY <1>1, <1>5 DEF StartCreates, StartFindsName, StartFails, PodCreated, podVars, PodTypeOK
  <2>3. \A m \in PodNames : w.pod # m
    BY <1>5, RootKeyAssumption
       DEF StartCreates, StartFindsName, StartFails, At, RootInv, WorkerShape
  <2>. QED
    BY <2>1, <2>2, <2>3 DEF LeftPods
<1>6. CASE PollPod \/ GenerateFails \/ ReadRootKey \/ CreateSignerKey
  <2>1. pods' = pods
    BY <1>6 DEF PollPod, GenerateFails, ReadRootKey, CreateSignerKey, podVars
  <2>2. CASE PollPod
    <3>1. w'.pod = w.pod /\ w'.pc # "report"
      BY <1>1, <2>2 DEF PollPod, At, StartGivesUp, FailTo, Worker
    <3>. QED
      BY <2>1, <3>1, SamePod
  <2>3. CASE GenerateFails
    <3>1. w'.pod = w.pod /\ w'.pc # "report"
      BY <1>1, <2>3 DEF GenerateFails, FailTo, Worker
    <3>. QED
      BY <2>1, <3>1, SamePod
  <2>4. CASE ReadRootKey
    <3>1. w'.pod = w.pod /\ w'.pc # "report"
      BY <1>1, <2>4 DEF ReadRootKey, FailTo, Worker
    <3>. QED
      BY <2>1, <3>1, SamePod
  <2>5. CASE CreateSignerKey
    <3>1. w'.pod = w.pod /\ w'.pc # "report"
      BY <1>1, <2>5 DEF CreateSignerKey, FailTo, Worker
    <3>. QED
      BY <2>1, <3>1, SamePod
  <2>. QED
    BY <1>6, <2>2, <2>3, <2>4, <2>5
<1>7. ASSUME NEW k \in KeyIds, GenerateRoot(k)
      PROVE  LeftPods' \subseteq LeftPods
  <2>1. w'.pod = w.pod /\ w'.pc # "report"
    BY <1>1, <1>7 DEF GenerateRoot, FailTo, Worker
  <2>2. \A m \in PodNames \ {w.pod} : pods'[m] = pods[m]
    BY <1>1, <1>7 DEF GenerateRoot, Generate, PodTypeOK
  <2>. QED
    BY <2>1, <2>2 DEF LeftPods
<1>8. CASE Close
  <2>1. \A m \in PodNames \ {w.pod} : pods'[m] = pods[m]
    BY <1>1, <1>8 DEF Close, PodDeleted, PodTypeOK
  <2>2. w.pod \in PodNames
    BY <1>8, Locals DEF Close, At, PodSteps
  <2>3. pods'[w.pod] = None \/ faults' = faults + 1
    BY <1>1, <1>8, <2>2 DEF Close, PodDeleted, PodTypeOK, Fault
  <2>. QED
    BY <2>1, <2>3 DEF LeftPods
<1>9. CASE Report
  BY <1>1, <1>9 DEF Report, At, podVars, LeftPods
<1>10. CASE Crash
  <2>1. pods' = pods /\ faults' = faults + 1
    BY <1>10 DEF Crash, Fault, podVars
  <2>2. LeftPods' \subseteq LeftPods \cup {w.pod}
    BY <2>1 DEF LeftPods
  <2>. QED
    BY <2>1, <2>2
<1>11. ASSUME NEW n \in PodNames, PodStarts(n) \/ PodLost(n)
       PROVE  LeftPods' \subseteq LeftPods
  <2>1. w' = w /\ \A m \in PodNames : pods'[m] # None => pods[m] # None
    BY <1>1, <1>11 DEF PodStarts, KubeletRuns, Elsewhere, PodLost, PodDeleted, PodTypeOK
  <2>. QED
    BY <2>1 DEF LeftPods
<1>12. ASSUME NEW s \in Signers, SkipSigner(s) \/ SyncSigner(s) \/ SyncKey(s)
       PROVE  pods' = pods /\ w' = w
  BY <1>12 DEF SkipSigner, SyncSigner, SyncKey, podVars
<1>13. ASSUME NEW s \in Signers,
              CreateSigner(s) \/ EditSigner(s) \/ DeleteSigner(s) \/ CollectKey(s)
       PROVE  pods' = pods /\ w' = w
  BY <1>13 DEF CreateSigner, EditSigner, DeleteSigner, UserWrites, CollectKey, podVars
<1>14. ASSUME Restart \/ Resync \/ UNCHANGED vars
       PROVE  pods' = pods /\ w' = w
  BY <1>14 DEF Restart, Resync, vars, podVars
<1>15. ASSUME NEW n \in PodNames, PodEvent(n)
       PROVE  pods' = pods /\ w' = w
  BY <1>15 DEF PodEvent, SyncPod, Elsewhere
<1>. QED
  BY Zenon, <1>2, <1>3, <1>4, <1>5, <1>6, <1>7, <1>8, <1>9, <1>10, <1>11, <1>12, <1>13,
     <1>14, <1>15 DEF Next, Attempt, Take

\* Every privileged pod left running, that no attempt in progress will close,
\* is one that a crash or a failed call left.
THEOREM PodsLeftByFaults == Spec => []PodsAccounted
<1>. DEFINE Counted == IsFiniteSet(LeftPods) /\ Cardinality(LeftPods) <= faults
<1>1. Init => Counted
  <2>1. Init => LeftPods = {} /\ faults = 0
    BY DEF Init, PodInit, LeftPods
  <2>. QED
    BY <2>1, FS_EmptySet
<1>2. RootInv /\ Counted /\ [Next]_vars => Counted'
  <2>. SUFFICES ASSUME RootInv, Counted, [Next]_vars PROVE Counted'
    OBVIOUS
  <2>1. faults \in Nat /\ (faults' = faults \/ faults' = faults + 1)
    BY BookkeepingMoves DEF RootInv, TypeOK
  <2>2. IsFiniteSet(LeftPods) /\ Cardinality(LeftPods) \in Nat
    BY FS_CardinalityType
  <2>3. CASE LeftPods' \subseteq LeftPods
    <3>1. IsFiniteSet(LeftPods') /\ Cardinality(LeftPods') <= Cardinality(LeftPods)
      BY <2>2, <2>3, FS_Subset
    <3>2. Cardinality(LeftPods') \in Nat
      BY <3>1, FS_CardinalityType
    <3>. QED
      BY <2>1, <2>2, <3>1, <3>2
  <2>4. ASSUME faults' = faults + 1, NEW x, LeftPods' \subseteq LeftPods \cup {x}
        PROVE  Counted'
    <3>1. /\ IsFiniteSet(LeftPods \cup {x})
          /\ \/ Cardinality(LeftPods \cup {x}) = Cardinality(LeftPods)
             \/ Cardinality(LeftPods \cup {x}) = Cardinality(LeftPods) + 1
      BY Zenon, <2>2, FS_AddElement
    <3>2. /\ IsFiniteSet(LeftPods')
          /\ Cardinality(LeftPods') <= Cardinality(LeftPods \cup {x})
      BY <2>4, <3>1, FS_Subset
    <3>3. Cardinality(LeftPods') \in Nat /\ Cardinality(LeftPods \cup {x}) \in Nat
      BY <3>1, <3>2, FS_CardinalityType
    <3>. QED
      BY <2>1, <2>2, <2>4, <3>1, <3>2, <3>3
  <2>. QED
    BY <2>3, <2>4, LeftPodsStep
<1>3. Counted => PodsAccounted
  BY DEF PodsAccounted, LeftPods
<1>. QED
  BY RootInvariance, <1>1, <1>2, <1>3, PTL DEF Spec
=============================================================================
