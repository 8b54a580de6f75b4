------------------------- MODULE SigningSystem_proofs -------------------------
(***************************************************************************)
(* SigningSystem: every behavior of the two reconcilers together is one of *)
(* SignRequest (RequestsSpec), whose environment is thus no more than what *)
(* RootKey, users and the garbage collector do; so the theorems about each *)
(* reconciler hold of the operator, for any names, keys and bounds.        *)
(*                                                                         *)
(* The argument: what a request sees of a SignerKey is the one the other   *)
(* reconciler made (KeysLinked), and a root key on its way into a          *)
(* SignerKey is one no request has seen (KeyUnseen).                       *)
(***************************************************************************)
EXTENDS SigningSystem, FiniteSetTheorems, TLAPS

\* The modules with the theorems about S and R.
SP == INSTANCE RootKey_proofs WITH
        pods <- sPods, podCache <- sPodCache, minted <- sMinted,
        imageSigners <- signers, signerKeys <- rootKeys, keyCache <- rootKeyCache,
        queue <- sQueue, w <- sWorker, rev <- sRev, ops <- sOps, faults <- sFaults,
        PodNames <- SignerPods, MaxOps <- SignerOps

RP == INSTANCE SignRequestPods_proofs WITH
        pods <- rPods, podCache <- rPodCache, minted <- rMinted,
        imageSigners <- Exists(signers), signerCache <- Exists(signerCache),
        orphans <- Orphans,
        queue <- rQueue, w <- rWorker, rev <- rRev, ops <- rOps, faults <- rFaults,
        KeyShapes <- {"absent", "nil"}, DeletableSigners <- Signers,
        PodNames <- RequestPods, MaxOps <- RequestOps

\* What a request sees of a SignerKey is what the ImageSigner reconciler made.
KeysLinked ==
  \A s \in Signers :
    IF rootKeys[s] = None THEN signerKeys[s] = None
    ELSE /\ signerKeys[s] # None
         /\ signerKeys[s].root = rootKeys[s].root
         /\ rootKeys[s].root.id \in rMinted
         /\ rootKeys[s].owner <= sRev

\* No request has seen a root key that is still to be stored.
Unseen(id) == id \in sMinted \ rMinted

KeyUnseen ==
  /\ sWorker.pc \in {"poll", "generate", "readKey"} /\ sPods[sWorker.pod] # None =>
       \A f \in sPods[sWorker.pod].files : Unseen(f.id)
  /\ sWorker.pc = "createKey" => Unseen(sWorker.key.id)

\* The inductive invariant: that of each reconciler, and what links them.
SysInv == SP!RootInv /\ RP!IInv /\ KeysLinked /\ KeyUnseen

(***************************************************************************)
(* The modules and their proofs.                                           *)
(***************************************************************************)
LEMMA SignerAssumptions == SP!PodAssumption /\ SP!RootKeyAssumption
BY SystemAssumption
   DEF SP!PodAssumption, SP!RootKeyAssumption, SP!KeyState, SP!ImageSigner, SP!SignerKey,
       SP!TrustKey, SP!Pod, SP!Phases, SP!KeyFile, SP!Roles, S!KeyState, S!ImageSigner,
       S!SignerKey, S!TrustKey, S!Pod, S!Phases, S!KeyFile, S!Roles

LEMMA RequestAssumptions == RP!PodAssumption /\ RP!RequestAssumption
<1>1. RP!PodAssumption
  BY SystemAssumption
     DEF RP!PodAssumption, RP!TrustKey, RP!Pod, RP!Phases, RP!KeyFile, RP!Roles, S!TrustKey,
         S!Pod, S!Phases, S!KeyFile, S!Roles
<1>2. RP!RequestAssumption
  BY SystemAssumption
     DEF RP!RequestAssumption, RP!TrustKey, RP!Answers, RP!SignerKey, RP!TargetMap,
         RP!StartKey, RP!Repo, RP!Request, S!TrustKey, R!Answers, R!SignerKey, R!TargetMap,
         R!StartKey, R!Repo, R!Request, R!TrustKey
<1>. QED
  BY <1>1, <1>2

LEMMA SignerStepsSame == [S!Next]_(S!vars) => [SP!Next]_(SP!vars)
BY Zenon
   DEF S!podVars, SP!podVars, S!StoredFile, SP!StoredFile, S!NewDindPod, SP!NewDindPod,
       S!ReadTrustKey, SP!ReadTrustKey, S!Opens, SP!Opens, S!Generate, SP!Generate,
       S!NameIsFree, SP!NameIsFree, S!PodCreated, SP!PodCreated, S!PollsAgain,
       SP!PollsAgain, S!PodRuns, SP!PodRuns, S!PodDeleted, SP!PodDeleted, S!KubeletRuns,
       SP!KubeletRuns, S!PhaseOf, SP!PhaseOf, S!SyncPod, SP!SyncPod, S!apiVars,
       SP!apiVars, S!viewVars, SP!viewVars, S!vars, SP!vars, S!Idle, SP!Idle, S!Fault,
       SP!Fault, S!NoFault, SP!NoFault, S!At, SP!At, S!Failed, SP!Failed, S!FailTo,
       SP!FailTo, S!HasCreated, SP!HasCreated, S!SkipSigner, SP!SkipSigner,
       S!GetImageSigner, SP!GetImageSigner, S!CheckKey, SP!CheckKey, S!StartedPod,
       SP!StartedPod, S!StartCreates, SP!StartCreates, S!FindsNotRunning,
       SP!FindsNotRunning, S!StartFindsName, SP!StartFindsName, S!StartFails,
       SP!StartFails, S!StartGivesUp, SP!StartGivesUp, S!PollPod, SP!PollPod,
       S!GenerateRoot, SP!GenerateRoot, S!GenerateFails, SP!GenerateFails, S!ReadRootKey,
       SP!ReadRootKey, S!KeyIsNew, SP!KeyIsNew, S!CreateSignerKey, SP!CreateSignerKey,
       S!Close, SP!Close, S!UpdateAccepted, SP!UpdateAccepted, S!Conforms, SP!Conforms,
       S!Report, SP!Report, S!Crash, SP!Crash, S!CachedSigners, SP!CachedSigners,
       S!Restart, SP!Restart, S!Resync, SP!Resync, S!SyncSigner, SP!SyncSigner,
       S!SyncKey, SP!SyncKey, S!UserWrites, SP!UserWrites, S!CreateSigner,
       SP!CreateSigner, S!EditSigner, SP!EditSigner, S!DeleteSigner, SP!DeleteSigner,
       S!CollectKey, SP!CollectKey, S!PodLost, SP!PodLost, S!Attempt, SP!Attempt, S!Take,
       SP!Take, S!Elsewhere, SP!Elsewhere, S!PodStarts, SP!PodStarts, S!PodEvent,
       SP!PodEvent, S!Next, SP!Next

LEMMA RequestStepsSame == [R!Next]_(R!vars) <=> [RP!Next]_(RP!vars)
BY Zenon
   DEF R!podVars, RP!podVars, R!StoredFile, RP!StoredFile, R!NewDindPod, RP!NewDindPod,
       R!ReadTrustKey, RP!ReadTrustKey, R!Opens, RP!Opens, R!Generate, RP!Generate,
       R!NameIsFree, RP!NameIsFree, R!PodCreated, RP!PodCreated, R!PollsAgain,
       RP!PollsAgain, R!PodRuns, RP!PodRuns, R!PodDeleted, RP!PodDeleted, R!KubeletRuns,
       RP!KubeletRuns, R!PhaseOf, RP!PhaseOf, R!SyncPod, RP!SyncPod, R!apiVars,
       RP!apiVars, R!viewVars, RP!viewVars, R!notary, RP!notary, R!vars, RP!vars, R!Idle,
       RP!Idle, R!EmptyMap, RP!EmptyMap, R!InitialKey, RP!InitialKey, R!Fault, RP!Fault,
       R!NoFault, RP!NoFault, R!At, RP!At, R!FailTo, RP!FailTo, R!Signer, RP!Signer,
       R!Target, RP!Target, R!SkipRequest, RP!SkipRequest, R!GetSignRequest,
       RP!GetSignRequest, R!GetSigner, RP!GetSigner, R!Recorded, RP!Recorded,
       R!NewTargetKey, RP!NewTargetKey, R!GetSignerKey, RP!GetSignerKey, R!StartedPod,
       RP!StartedPod, R!StartCreates, RP!StartCreates, R!StartFindsName,
       RP!StartFindsName, R!StartFails, RP!StartFails, R!StartGivesUp, RP!StartGivesUp,
       R!PollPod, RP!PollPod, R!HasRegCtl, RP!HasRegCtl, R!LoadImage, RP!LoadImage,
       R!AfterSign, RP!AfterSign, R!SignFails, RP!SignFails, R!Published, RP!Published,
       R!SignFirst, RP!SignFirst, R!SignAgain, RP!SignAgain, R!ReadTargetKey,
       RP!ReadTargetKey, R!MergePatch, RP!MergePatch, R!PatchSignerKey,
       RP!PatchSignerKey, R!Close, RP!Close, R!UpdateAccepted, RP!UpdateAccepted,
       R!Respond, RP!Respond, R!Crash, RP!Crash, R!CachedRequests, RP!CachedRequests,
       R!Restart, RP!Restart, R!Resync, RP!Resync, R!SyncRequest, RP!SyncRequest,
       R!SyncSigner, RP!SyncSigner, R!SyncKey, RP!SyncKey, R!UserWrites, RP!UserWrites,
       R!CreateRequest, RP!CreateRequest, R!EditRequest, RP!EditRequest, R!DeleteRequest,
       RP!DeleteRequest, R!DeleteSigner, RP!DeleteSigner, R!CreateSigner,
       RP!CreateSigner, R!CollectKey, RP!CollectKey, R!KeyAppears, RP!KeyAppears,
       R!GiveTargets, RP!GiveTargets, R!PodLost, RP!PodLost, R!Attempt, RP!Attempt, R!Take, RP!Take, R!Elsewhere,
       RP!Elsewhere, R!PodStarts, RP!PodStarts, R!PodEvent, RP!PodEvent, R!Environment,
       RP!Environment, R!Next, RP!Next

LEMMA RequestsInitSame == R!Init <=> RP!Init
BY Zenon
   DEF R!Init, RP!Init, R!InitialKey, RP!InitialKey, R!EmptyMap, RP!EmptyMap, R!Idle, RP!Idle

(***************************************************************************)
(* The steps of the two sides.                                             *)
(***************************************************************************)
SignerStep ==
  \/ S!Attempt \/ S!Resync
  \/ \E s \in Signers : \/ S!Take(s) \/ S!SyncSigner(s) \/ S!CollectKey(s)
                        \/ S!CreateSigner(s) \/ S!EditSigner(s) \/ S!DeleteSigner(s)
  \/ \E n \in SignerPods : S!PodEvent(n) \/ S!PodStarts(n) \/ S!PodLost(n)

RequestStep ==
  \/ R!Attempt \/ R!Resync
  \/ \E r \in Requests : \/ R!Take(r) \/ R!SyncRequest(r)
                         \/ R!CreateRequest(r) \/ R!EditRequest(r) \/ R!DeleteRequest(r)
  \/ \E s \in Signers : R!GiveTargets(s)
  \/ \E n \in RequestPods : R!PodEvent(n) \/ R!PodStarts(n) \/ R!PodLost(n)

LEMMA Sides ==
  ASSUME [Next]_vars
  PROVE  \/ UNCHANGED vars
         \/ SignerSide(SignerStep) \/ RequestSide(RequestStep)
         \/ Crash \/ Restart
         \/ \E s \in Signers : KeyEvent(s)
BY Zenon
   DEF Next, SignerAttempt, SignerResync, UsersOfSigners, RequestAttempt, RequestResync,
       UsersOfRequests, TakeSigner, SignerEvent, CollectKey, TakeRequest, RequestEvent,
       SignerPodEvent, RequestPodEvent, SignerSide, RequestSide, SignerStep, RequestStep

LEMMA StepsOfModules == (SignerStep => S!Next) /\ (RequestStep => R!Next)
BY Zenon DEF SignerStep, RequestStep, S!Next, R!Next, R!Environment

\* What a step of the signers' side may do to what requests see of it.
LEMMA SignerWrites ==
  ASSUME SignerStep
  PROVE  /\ up' = up
         /\ \/ UNCHANGED <<signers, signerCache, rootKeys, sRev>>
            \/ S!CreateSignerKey \/ S!Report
            \/ \E s \in Signers : \/ S!SyncSigner(s) \/ S!CollectKey(s) \/ S!CreateSigner(s)
                                  \/ S!EditSigner(s) \/ S!DeleteSigner(s)
<1>. USE DEF S!vars, S!podVars, S!apiVars, S!viewVars
<1>1. CASE S!Attempt
  BY <1>1
     DEF S!Attempt, S!CheckKey, S!StartCreates, S!StartFindsName, S!StartFails, S!PollPod,
         S!GenerateFails, S!GenerateRoot, S!ReadRootKey, S!CreateSignerKey, S!Close, S!Report
<1>2. ASSUME NEW s \in Signers, S!Take(s) \/ S!SyncSigner(s) \/ S!CollectKey(s)
      PROVE  /\ up' = up
             /\ \/ UNCHANGED <<signers, signerCache, rootKeys, sRev>>
                \/ S!SyncSigner(s) \/ S!CollectKey(s)
  BY <1>2 DEF S!Take, S!SkipSigner, S!GetImageSigner, S!SyncSigner, S!CollectKey
<1>3. ASSUME NEW s \in Signers, S!CreateSigner(s) \/ S!EditSigner(s) \/ S!DeleteSigner(s)
      PROVE  up' = up
  BY <1>3 DEF S!CreateSigner, S!EditSigner, S!DeleteSigner, S!UserWrites
<1>4. ASSUME S!Resync \/ \E n \in SignerPods : S!PodEvent(n) \/ S!PodStarts(n) \/ S!PodLost(n)
      PROVE  up' = up /\ UNCHANGED <<signers, signerCache, rootKeys, sRev>>
  BY <1>4 DEF S!Resync, S!PodEvent, S!PodStarts, S!PodLost, S!Elsewhere
<1>. QED
  BY ZenonT(40), <1>1, <1>2, <1>3, <1>4 DEF SignerStep

\* ... and what a step of the requests' side may do to SignerKeys.
LEMMA RequestWrites ==
  ASSUME RequestStep
  PROVE  /\ \/ signerKeys' = signerKeys \/ R!PatchSignerKey
            \/ \E s \in Signers : R!GiveTargets(s)
         /\ rMinted' = rMinted \/ \E k \in KeyIds : rMinted' = rMinted \cup {k}
         /\ keyCache' = keyCache
<1>. USE DEF R!vars, R!podVars, R!apiVars, R!viewVars
<1>1. CASE R!Attempt
  BY <1>1
     DEF R!Attempt, R!GetSigner, R!GetSignerKey, R!StartCreates, R!StartFindsName, R!StartFails,
         R!PollPod, R!LoadImage, R!SignFails, R!SignAgain, R!SignFirst, R!Generate,
         R!ReadTargetKey, R!PatchSignerKey, R!Close, R!Respond
<1>2. ASSUME NEW r \in Requests,
             \/ R!Take(r) \/ R!SyncRequest(r)
             \/ R!CreateRequest(r) \/ R!EditRequest(r) \/ R!DeleteRequest(r)
      PROVE  UNCHANGED <<signerKeys, keyCache, rMinted>>
  BY <1>2
     DEF R!Take, R!SkipRequest, R!GetSignRequest, R!SyncRequest, R!CreateRequest, R!EditRequest,
         R!DeleteRequest, R!UserWrites
<1>3. ASSUME R!Resync \/ \E n \in RequestPods : R!PodEvent(n) \/ R!PodStarts(n) \/ R!PodLost(n)
      PROVE  UNCHANGED <<signerKeys, keyCache, rMinted>>
  BY <1>3
     DEF R!Resync, R!PodEvent, R!SyncPod, R!PodStarts, R!KubeletRuns, R!PodLost, R!Elsewhere
<1>4. ASSUME NEW s \in Signers, R!GiveTargets(s)
      PROVE  UNCHANGED <<keyCache, rMinted>>
  BY <1>4 DEF R!GiveTargets
<1>. QED
  BY Zenon, <1>1, <1>2, <1>3, <1>4 DEF RequestStep

\* Types the proofs below use.
LEMMA SysTypes ==
  ASSUME SysInv
  PROVE  /\ signers \in [Signers -> SP!ImageSigner \cup {None}]
         /\ signerCache \in [Signers -> SP!ImageSigner \cup {None}]
         /\ rootKeys \in [Signers -> SP!SignerKey \cup {None}]
         /\ rootKeyCache \in [Signers -> SP!SignerKey \cup {None}]
         /\ signerKeys \in [Signers -> RP!SignerKey \cup {None}]
         /\ keyCache \in [Signers -> RP!SignerKey \cup {None}]
         /\ sWorker \in SP!Worker /\ rWorker \in RP!Worker
         /\ sRev \in Nat /\ up \in BOOLEAN
         /\ None \notin SP!ImageSigner /\ None \notin SP!SignerKey /\ None \notin RP!SignerKey
         /\ None \notin SP!Pod /\ None \notin SP!TrustKey
<1>1. SP!TypeOK /\ RP!TypeOK
  BY DEF SysInv, SP!RootInv, RP!IInv
<1>2. /\ None \notin SP!ImageSigner /\ None \notin SP!SignerKey /\ None \notin RP!SignerKey
      /\ None \notin SP!Pod /\ None \notin SP!TrustKey
  BY SignerAssumptions, RequestAssumptions
     DEF SP!PodAssumption, SP!RootKeyAssumption, RP!RequestAssumption
<1>. QED
  BY <1>1, <1>2 DEF SP!TypeOK, RP!TypeOK

(***************************************************************************)
(* Every step is one of SignRequest, or none of what it models changes.    *)
(***************************************************************************)
LEMMA Reflected ==
  ASSUME SysInv, KeysReflected
  PROVE  /\ \A s \in Signers : rootKeys'[s] = rootKeys[s] => signerKeys'[s] = signerKeys[s]
         /\ \A s \in Signers : rootKeys'[s] # rootKeys[s] =>
              signerKeys'[s] = IF rootKeys'[s] = None THEN None
                               ELSE [root |-> rootKeys'[s].root, targets |-> Nil]
         /\ signerKeys' = [s \in Signers |-> signerKeys'[s]]
         /\ (\A s \in Signers : rootKeys'[s] # None => rootKeys'[s] = rootKeys[s])
              => rMinted' = rMinted
<1>1. /\ signerKeys' = [s \in Signers |->
           IF rootKeys'[s] = rootKeys[s] THEN signerKeys[s]
           ELSE IF rootKeys'[s] = None THEN None
           ELSE [root |-> rootKeys'[s].root, targets |-> Nil]]
      /\ rMinted' = rMinted \cup {rootKeys'[s].root.id : s \in {x \in Signers : rootKeys'[x] # None}}
  BY DEF KeysReflected, Exists
<1>2. ASSUME \A s \in Signers : rootKeys'[s] # None => rootKeys'[s] = rootKeys[s]
      PROVE  rMinted' = rMinted
  <2>1. \A s \in Signers : rootKeys'[s] # None => rootKeys'[s].root.id \in rMinted
    BY <1>2 DEF SysInv, KeysLinked
  <2>. QED
    BY <1>1, <2>1
<1>. QED
  BY <1>1, <1>2

\* A step of the signers' side that requests do not see.
LEMMA UnseenStep ==
  ASSUME SysInv, KeysReflected, UNCHANGED <<up, keyCache, rWorld, rQueue, rWorker>>,
         rootKeys' = rootKeys, Exists(signers)' = Exists(signers),
         Exists(signerCache)' = Exists(signerCache), Orphans' = Orphans
  PROVE  UNCHANGED R!vars
<1>1. rMinted' = rMinted
  BY Reflected
<1>2. signerKeys' = signerKeys
  BY Reflected, SysTypes
<1>. QED
  BY <1>1, <1>2 DEF R!vars, R!podVars, R!apiVars, R!viewVars, R!notary, rWorld

\* The ImageSigner reconciler stores a root key: a SignerKey appears.
LEMMA CreateIsKeyAppears ==
  ASSUME SysInv, S!CreateSignerKey, KeysReflected,
         UNCHANGED <<keyCache, rWorld, rQueue, rWorker>>
  PROVE  \/ UNCHANGED R!vars
         \/ \E s \in Signers, k \in KeyIds, p \in Passes : R!KeyAppears(s, k, p)
<1>1. /\ up' = up /\ UNCHANGED <<signers, signerCache>> /\ sWorker.pc = "createKey"
      /\ \/ rootKeys' = rootKeys
         \/ /\ rootKeys[sWorker.name] = None
            /\ rootKeys' = [rootKeys EXCEPT ![sWorker.name] =
                              [root |-> sWorker.key, owner |-> sWorker.obj.uid]]
  BY DEF S!CreateSignerKey, S!KeyIsNew, S!At, S!apiVars, S!viewVars
<1>2. CASE rootKeys' = rootKeys
  <2>1. /\ Exists(signers)' = Exists(signers) /\ Exists(signerCache)' = Exists(signerCache)
        /\ Orphans' = Orphans
    BY <1>1, <1>2 DEF Exists, Orphans
  <2>. QED
    BY <1>1, <1>2, <2>1, UnseenStep
<1>3. ASSUME rootKeys' # rootKeys
      PROVE  \E s \in Signers, k \in KeyIds, p \in Passes : R!KeyAppears(s, k, p)
  <2>. DEFINE s == sWorker.name
              key == sWorker.key
              made == [root |-> key, owner |-> sWorker.obj.uid]
  <2>1. /\ s \in Signers /\ key \in SP!TrustKey /\ key.enc = key.pass
        /\ sWorker.obj \in SP!ImageSigner
    BY <1>1 DEF SysInv, SP!RootInv, SP!WorkerShape
  <2>2. key = [id |-> key.id, enc |-> key.pass, pass |-> key.pass] /\ key.id \in KeyIds
        /\ key.pass \in Passes
    BY <2>1 DEF SP!TrustKey
  <2>3. rootKeys[s] = None /\ signerKeys[s] = None
    BY <1>1, <1>3, <2>1 DEF SysInv, KeysLinked
  <2>4. made \in SP!SignerKey /\ made # None
    BY <2>1, SysTypes DEF SP!SignerKey, SP!ImageSigner
  <2>5. rootKeys'[s] = made /\ \A x \in Signers \ {s} : rootKeys'[x] = rootKeys[x]
    BY <1>1, <1>3, <2>1, SysTypes
  <2>6. key.id \notin rMinted
    BY <1>1 DEF SysInv, KeyUnseen, Unseen
  <2>7. rMinted' = rMinted \cup {key.id}
    <3>1. rMinted' = rMinted \cup {rootKeys'[x].root.id : x \in {y \in Signers : rootKeys'[y] # None}}
      BY DEF KeysReflected, Exists
    <3>2. \A x \in Signers \ {s} : rootKeys'[x] # None => rootKeys'[x].root.id \in rMinted
      BY <2>5 DEF SysInv, KeysLinked
    <3>3. rootKeys'[s] # None /\ rootKeys'[s].root.id = key.id
      BY <2>4, <2>5
    <3>4. key.id \in {rootKeys'[x].root.id : x \in {y \in Signers : rootKeys'[y] # None}}
      BY <2>1, <3>3
    <3>5. \A i \in {rootKeys'[x].root.id : x \in {y \in Signers : rootKeys'[y] # None}} :
            i \in rMinted \cup {key.id}
      BY <3>2, <3>3
    <3>. QED
      BY <3>1, <3>4, <3>5
  <2>8. signerKeys' = [signerKeys EXCEPT ![s] = R!InitialKey("nil", key.id, key.pass)]
    <3>1. signerKeys'[s] = [root |-> key, targets |-> Nil]
      BY <2>1, <2>3, <2>4, <2>5, Reflected
    <3>2. R!InitialKey("nil", key.id, key.pass) = [root |-> key, targets |-> Nil]
      BY <2>2 DEF R!InitialKey
    <3>3. \A x \in Signers \ {s} : signerKeys'[x] = signerKeys[x]
      BY <2>5, Reflected
    <3>. QED
      BY <3>1, <3>2, <3>3, Reflected, SysTypes
  <2>9. \/ s \in Exists(signers) /\ Orphans' = Orphans
        \/ Orphans' = Orphans \cup {s}
    <3>1. Orphans' = {x \in Signers : rootKeys'[x] # None
                        /\ (signers[x] = None \/ signers[x].uid # rootKeys'[x].owner)}
      BY <1>1 DEF Orphans, Exists
    <3>2. Orphans = {x \in Signers : rootKeys[x] # None
                       /\ (signers[x] = None \/ signers[x].uid # rootKeys[x].owner)}
      BY DEF Orphans, Exists
    <3>3. s \notin Orphans
      BY <2>3, <3>2
    <3>4. CASE s \in Orphans'
      BY <2>1, <2>5, <3>1, <3>2, <3>4
    <3>5. CASE s \notin Orphans'
      <4>1. signers[s] # None
        BY <2>1, <2>4, <2>5, <3>1, <3>5
      <4>. QED
        BY <2>1, <2>5, <3>1, <3>2, <3>3, <3>5, <4>1 DEF Exists
    <3>. QED
      BY <3>4, <3>5
  <2>10. Exists(signers)' = Exists(signers) /\ Exists(signerCache)' = Exists(signerCache)
    BY <1>1 DEF Exists
  <2>11. R!KeyAppears(s, key.id, key.pass)
    BY <1>1, <2>1, <2>2, <2>3, <2>6, <2>7, <2>8, <2>9, <2>10
       DEF R!KeyAppears, R!NoFault, R!viewVars, R!notary, rWorld
  <2>. QED
    BY <2>1, <2>2, <2>11
<1>. QED
  BY <1>2, <1>3

\* Users and the garbage collector: what they do to an ImageSigner, requests
\* see as its coming and going.
LEMMA SignerExists ==
  ASSUME SysInv, NEW s \in Signers, NEW x,
         signers' = [signers EXCEPT ![s] = x], rootKeys' = rootKeys
  PROVE  /\ x # None => Exists(signers)' = Exists(signers) \cup {s}
         /\ x = None => Exists(signers)' = Exists(signers) \ {s}
         /\ x = None => Orphans' = IF rootKeys[s] = None THEN Orphans ELSE Orphans \cup {s}
         /\ x # None /\ (signers[s] # None => x.uid = signers[s].uid)
              /\ (signers[s] = None /\ rootKeys[s] # None => x.uid # rootKeys[s].owner)
              => Orphans' = Orphans
<1>1. /\ signers'[s] = x /\ \A y \in Signers \ {s} : signers'[y] = signers[y]
  BY SysTypes
<1>2. /\ x # None => Exists(signers)' = Exists(signers) \cup {s}
      /\ x = None => Exists(signers)' = Exists(signers) \ {s}
  BY <1>1 DEF Exists
<1>3. \A y \in Signers \ {s} : y \in Orphans' <=> y \in Orphans
  BY <1>1 DEF Orphans, Exists
<1>4. /\ s \in Orphans' <=> rootKeys[s] # None /\ (x = None \/ x.uid # rootKeys[s].owner)
      /\ s \in Orphans <=>
           rootKeys[s] # None /\ (signers[s] = None \/ signers[s].uid # rootKeys[s].owner)
  BY <1>1 DEF Orphans, Exists
<1>5. Orphans \subseteq Signers /\ Orphans' \subseteq Signers
  BY DEF Orphans, Exists
<1>6. ASSUME x = None
      PROVE  Orphans' = IF rootKeys[s] = None THEN Orphans ELSE Orphans \cup {s}
  BY <1>3, <1>4, <1>5, <1>6
<1>7. ASSUME x # None, signers[s] # None => x.uid = signers[s].uid,
             signers[s] = None /\ rootKeys[s] # None => x.uid # rootKeys[s].owner
      PROVE  Orphans' = Orphans
  BY <1>3, <1>4, <1>5, <1>7
<1>. QED
  BY <1>2, <1>6, <1>7

LEMMA UsersSeen ==
  ASSUME SysInv, NEW s \in Signers, KeysReflected,
         S!CreateSigner(s) \/ S!EditSigner(s) \/ S!DeleteSigner(s),
         UNCHANGED <<keyCache, rWorld, rQueue, rWorker>>
  PROVE  UNCHANGED R!vars \/ R!CreateSigner(s) \/ R!DeleteSigner(s)
<1>1. /\ up' = up /\ UNCHANGED <<signerCache, rootKeys>>
      /\ Exists(signerCache)' = Exists(signerCache)
  BY DEF S!CreateSigner, S!EditSigner, S!DeleteSigner, S!UserWrites, S!viewVars, Exists
<1>2. signerKeys' = signerKeys /\ rMinted' = rMinted
  BY <1>1, Reflected, SysTypes
<1>3. CASE S!CreateSigner(s)
  <2>. DEFINE x == [uid |-> sRev + 1, rv |-> sRev + 1, keyState |-> None]
  <2>1. signers[s] = None /\ signers' = [signers EXCEPT ![s] = x]
    BY <1>3 DEF S!CreateSigner, S!UserWrites
  <2>2. x \in SP!ImageSigner /\ x # None
    BY SysTypes DEF SP!ImageSigner
  <2>3. rootKeys[s] # None => rootKeys[s].owner <= sRev /\ rootKeys[s].owner \in Nat
    BY SysTypes DEF SysInv, KeysLinked, SP!SignerKey
  <2>4. rootKeys[s] # None => x.uid # rootKeys[s].owner
    BY <2>3, SysTypes
  <2>5. Exists(signers)' = Exists(signers) \cup {s} /\ Orphans' = Orphans
    BY <1>1, <2>1, <2>2, <2>4, SignerExists
  <2>6. s \notin Exists(signers)
    BY <2>1 DEF Exists
  <2>7. R!CreateSigner(s)
    BY <1>1, <1>2, <2>5, <2>6
       DEF R!CreateSigner, R!NoFault, R!podVars, R!viewVars, R!notary, rWorld
  <2>. QED
    BY <2>7
<1>4. CASE S!EditSigner(s)
  <2>. DEFINE x == [signers[s] EXCEPT !.rv = sRev + 1]
  <2>1. signers[s] # None /\ signers' = [signers EXCEPT ![s] = x]
    BY <1>4 DEF S!EditSigner, S!UserWrites
  <2>2. x \in SP!ImageSigner /\ x # None /\ x.uid = signers[s].uid
    BY <2>1, SysTypes DEF SP!ImageSigner
  <2>3. Exists(signers)' = Exists(signers) \cup {s} /\ Orphans' = Orphans
    BY <1>1, <2>1, <2>2, SignerExists
  <2>4. s \in Exists(signers)
    BY <2>1 DEF Exists
  <2>. QED
    BY <1>1, <2>3, <2>4, UnseenStep
<1>5. CASE S!DeleteSigner(s)
  <2>1. signers[s] # None /\ signers' = [signers EXCEPT ![s] = None]
    BY <1>5 DEF S!DeleteSigner, S!UserWrites
  <2>2. /\ Exists(signers)' = Exists(signers) \ {s}
        /\ Orphans' = IF rootKeys[s] = None THEN Orphans ELSE Orphans \cup {s}
    BY <1>1, <2>1, SignerExists
  <2>3. s \in Exists(signers)
    BY <2>1 DEF Exists
  <2>4. rootKeys[s] = None <=> signerKeys[s] = None
    BY DEF SysInv, KeysLinked
  <2>5. R!DeleteSigner(s)
    BY <1>1, <1>2, <2>2, <2>3, <2>4
       DEF R!DeleteSigner, R!NoFault, R!podVars, R!viewVars, R!notary, rWorld
  <2>. QED
    BY <2>5
<1>. QED
  BY <1>3, <1>4, <1>5

LEMMA ReportUnseen ==
  ASSUME SysInv, KeysReflected, S!Report, UNCHANGED <<keyCache, rWorld, rQueue, rWorker>>
  PROVE  UNCHANGED R!vars
<1>1. UNCHANGED <<up, signerCache, rootKeys>> /\ Exists(signerCache)' = Exists(signerCache)
  BY DEF S!Report, S!viewVars, Exists
<1>2. sWorker.name \in Signers /\ sWorker.obj \in SP!ImageSigner
  BY DEF S!Report, S!At, SysInv, SP!RootInv, SP!WorkerShape
<1>3. CASE signers' = signers
  BY <1>1, <1>3, UnseenStep DEF Exists, Orphans
<1>4. ASSUME signers' # signers
      PROVE  Exists(signers)' = Exists(signers) /\ Orphans' = Orphans
  <2>. DEFINE s == sWorker.name
              x == [uid |-> signers[s].uid, rv |-> sRev + 1, keyState |-> sWorker.keyState]
  <2>1. /\ signers[s] # None
        /\ signers' = [signers EXCEPT ![s].keyState = sWorker.keyState, ![s].rv = sRev + 1]
    BY <1>4 DEF S!Report, S!UpdateAccepted
  <2>2. signers[s] \in SP!ImageSigner /\ sWorker.keyState \in SP!KeyState \cup {None}
    BY <1>2, <2>1, SysTypes DEF SP!Worker
  <2>3. signers'[s] = x
    BY <1>2, <2>1, <2>2, SysTypes DEF SP!ImageSigner
  <2>8. x \in SP!ImageSigner
    BY <2>2, SysTypes DEF SP!ImageSigner
  <2>4. x # None /\ x.uid = signers[s].uid
    BY <2>8, SysTypes
  <2>7. signers' = [signers EXCEPT ![s] = x]
    BY <1>2, <2>1, <2>3, SysTypes
  <2>5. Exists(signers)' = Exists(signers) \cup {s} /\ Orphans' = Orphans
    BY <1>1, <1>2, <2>1, <2>7, <2>4, SignerExists
  <2>6. s \in Exists(signers)
    BY <1>2, <2>1 DEF Exists
  <2>. QED
    BY <2>5, <2>6
<1>. QED
  BY <1>1, <1>3, <1>4, UnseenStep

\* The informer and the garbage collector.
LEMMA CacheSeen ==
  ASSUME SysInv, NEW s \in Signers, KeysReflected, S!SyncSigner(s),
         UNCHANGED <<keyCache, rWorld, rQueue, rWorker>>
  PROVE  UNCHANGED R!vars \/ R!SyncSigner(s)
<1>1. /\ UNCHANGED <<up, signers, rootKeys>>
      /\ signerCache' = [signerCache EXCEPT ![s] = signers[s]]
      /\ Exists(signers)' = Exists(signers) /\ Orphans' = Orphans
  BY DEF S!SyncSigner, S!apiVars, Exists, Orphans
<1>2. signerKeys' = signerKeys /\ rMinted' = rMinted
  BY <1>1, Reflected, SysTypes
<1>3. Exists(signerCache)' = IF s \in Exists(signers) THEN Exists(signerCache) \cup {s}
                                                      ELSE Exists(signerCache) \ {s}
  BY <1>1, SysTypes DEF Exists
<1>4. CASE (s \in Exists(signerCache)) # (s \in Exists(signers))
  BY <1>1, <1>2, <1>3, <1>4
     DEF R!SyncSigner, R!NoFault, R!podVars, R!apiVars, R!notary, rWorld
<1>5. CASE (s \in Exists(signerCache)) = (s \in Exists(signers))
  <2>1. Exists(signerCache)' = Exists(signerCache)
    BY <1>3, <1>5
  <2>. QED
    BY <1>1, <2>1, UnseenStep
<1>. QED
  BY <1>4, <1>5

LEMMA CollectSeen ==
  ASSUME SysInv, NEW s \in Signers, KeysReflected, S!CollectKey(s),
         UNCHANGED <<keyCache, rWorld, rQueue, rWorker>>
  PROVE  R!CollectKey(s)
<1>1. /\ UNCHANGED <<up, signers, signerCache>>
      /\ rootKeys[s] # None
      /\ signers[s] = None \/ signers[s].uid # rootKeys[s].owner
      /\ rootKeys' = [rootKeys EXCEPT ![s] = None]
      /\ Exists(signers)' = Exists(signers) /\ Exists(signerCache)' = Exists(signerCache)
  BY DEF S!CollectKey, S!viewVars, Exists
<1>2. rootKeys'[s] = None /\ \A x \in Signers \ {s} : rootKeys'[x] = rootKeys[x]
  BY <1>1, SysTypes
<1>3. rMinted' = rMinted
  BY <1>2, Reflected
<1>4. signerKeys' = [signerKeys EXCEPT ![s] = None]
  <2>1. signerKeys'[s] = None /\ \A x \in Signers \ {s} : signerKeys'[x] = signerKeys[x]
    BY <1>1, <1>2, Reflected
  <2>. QED
    BY <2>1, Reflected, SysTypes
<1>5. s \in Orphans /\ Orphans' = Orphans \ {s}
  BY <1>1, <1>2 DEF Orphans, Exists
<1>. QED
  BY <1>1, <1>3, <1>4, <1>5
     DEF R!CollectKey, R!NoFault, R!podVars, R!viewVars, R!notary, rWorld

LEMMA RequestsStep ==
  ASSUME SysInv, [Next]_vars
  PROVE  [R!Next]_(R!vars)
<1>1. CASE UNCHANGED vars
  BY <1>1
     DEF vars, sWorld, rWorld, rKeys, R!vars, R!podVars, R!apiVars, R!viewVars, R!notary,
         Exists, Orphans
<1>2. CASE SignerSide(SignerStep)
  <2>1. SignerStep /\ KeysReflected /\ UNCHANGED <<keyCache, rWorld, rQueue, rWorker>>
    BY <1>2 DEF SignerSide
  <2>2. CASE UNCHANGED <<signers, signerCache, rootKeys, sRev>>
    <3>1. /\ Exists(signers)' = Exists(signers) /\ Exists(signerCache)' = Exists(signerCache)
          /\ Orphans' = Orphans
      BY <2>2 DEF Exists, Orphans
    <3>. QED
      BY <2>1, <2>2, <3>1, SignerWrites, UnseenStep
  <2>3. CASE S!CreateSignerKey
    <3>1. \/ UNCHANGED R!vars
          \/ \E s \in Signers, k \in KeyIds, p \in Passes : R!KeyAppears(s, k, p)
      BY <2>1, <2>3, CreateIsKeyAppears
    <3>. QED
      BY Zenon, <3>1 DEF R!Next, R!Environment
  <2>4. CASE S!Report
    BY <2>1, <2>4, ReportUnseen
  <2>5. ASSUME NEW s \in Signers,
               \/ S!SyncSigner(s) \/ S!CollectKey(s)
               \/ S!CreateSigner(s) \/ S!EditSigner(s) \/ S!DeleteSigner(s)
        PROVE  [R!Next]_(R!vars)
    <3>1. \/ UNCHANGED R!vars \/ R!SyncSigner(s) \/ R!CollectKey(s)
          \/ R!CreateSigner(s) \/ R!DeleteSigner(s)
      BY Zenon, <2>1, <2>5, CacheSeen, CollectSeen, UsersSeen
    <3>. QED
      BY Zenon, <3>1 DEF R!Next, R!Environment
  <2>. QED
    BY Zenon, <2>1, <2>2, <2>3, <2>4, <2>5, SignerWrites
<1>3. CASE RequestSide(RequestStep)
  BY Zenon, <1>3, StepsOfModules DEF RequestSide
<1>4. CASE Crash \/ Restart
  BY Zenon, <1>4 DEF Crash, Restart, R!Next
<1>5. ASSUME NEW s \in Signers, KeyEvent(s)
      PROVE  R!SyncKey(s) \/ UNCHANGED R!vars
  <2>1. /\ keyCache' = [keyCache EXCEPT ![s] = signerKeys[s]]
        /\ UNCHANGED <<up, signers, signerCache, rootKeys, rWorld, signerKeys, rMinted, rQueue,
                       rWorker>>
        /\ Exists(signers)' = Exists(signers) /\ Exists(signerCache)' = Exists(signerCache)
        /\ Orphans' = Orphans
    BY <1>5 DEF KeyEvent, Exists, Orphans
  <2>2. CASE keyCache[s] # signerKeys[s]
    BY <2>1, <2>2 DEF R!SyncKey, R!NoFault, R!podVars, R!apiVars, R!notary, rWorld
  <2>3. CASE keyCache[s] = signerKeys[s]
    <3>1. keyCache' = keyCache
      BY <2>1, <2>3, SysTypes
    <3>. QED
      BY <2>1, <3>1 DEF R!vars, R!podVars, R!apiVars, R!viewVars, R!notary, rWorld
  <2>. QED
    BY <2>2, <2>3
<1>6. ASSUME NEW s \in Signers, KeyEvent(s)
      PROVE  [R!Next]_(R!vars)
  BY Zenon, <1>5, <1>6 DEF R!Next
<1>. QED
  BY Zenon, <1>1, <1>2, <1>3, <1>4, <1>6, Sides

(***************************************************************************)
(* The invariant.                                                          *)
(***************************************************************************)
LEMMA RequestsInvStep ==
  ASSUME SysInv, [Next]_vars
  PROVE  RP!IInv'
<1>1. [RP!Next]_(RP!vars)
  BY Zenon, RequestsStep, RequestStepsSame
<1>2. RP!IInv
  BY DEF SysInv
<1>. QED
  BY Zenon, <1>1, <1>2, RequestAssumptions, RP!IInvStep

\* Every step is one of RootKey, or one of the requests' side, which to the
\* signers is nothing, or the end of the process.
LEMMA SignersStep ==
  ASSUME SysInv, [Next]_vars
  PROVE  [S!Next]_(S!vars) \/ RequestSide(RequestStep)
<1>1. CASE UNCHANGED vars
  BY <1>1 DEF vars, sWorld, S!vars, S!podVars, S!apiVars, S!viewVars
<1>2. CASE SignerSide(SignerStep)
  BY Zenon, <1>2, StepsOfModules DEF SignerSide
<1>3. CASE Crash \/ Restart
  BY Zenon, <1>3 DEF Crash, Restart, S!Next
<1>4. ASSUME NEW s \in Signers, KeyEvent(s)
      PROVE  S!SyncKey(s) \/ UNCHANGED S!vars
  <2>1. /\ rootKeyCache' = [rootKeyCache EXCEPT ![s] = rootKeys[s]]
        /\ UNCHANGED <<up, sPods, sPodCache, sMinted, signers, signerCache, rootKeys, sRev,
                       sOps, sFaults, sQueue, sWorker>>
    BY <1>4 DEF KeyEvent
  <2>2. CASE rootKeyCache[s] # rootKeys[s]
    BY <2>1, <2>2 DEF S!SyncKey, S!NoFault, S!podVars, S!apiVars
  <2>3. CASE rootKeyCache[s] = rootKeys[s]
    <3>1. rootKeyCache' = rootKeyCache
      BY <2>1, <2>3, SysTypes
    <3>. QED
      BY <2>1, <3>1 DEF S!vars, S!podVars, S!apiVars, S!viewVars
  <2>. QED
    BY <2>2, <2>3
<1>5. ASSUME NEW s \in Signers, KeyEvent(s) PROVE [S!Next]_(S!vars)
  BY Zenon, <1>4, <1>5 DEF S!Next
<1>. QED
  BY Zenon, <1>1, <1>2, <1>3, <1>5, Sides

LEMMA SignersInvStep ==
  ASSUME SysInv, [Next]_vars
  PROVE  SP!RootInv'
<1>1. SP!RootInv
  BY DEF SysInv
<1>2. CASE [S!Next]_(S!vars)
  <2>1. [SP!Next]_(SP!vars)
    BY Zenon, <1>2, SignerStepsSame
  <2>. QED
    BY Zenon, <1>1, <2>1, SignerAssumptions, SP!RootInvStep
<1>3. CASE RequestSide(RequestStep)
  <2>1. up' \in BOOLEAN
    BY RequestsInvStep DEF RP!IInv, RP!TypeOK
  <2>2. UNCHANGED <<SP!podVars, SP!apiVars, SP!viewVars, sOps, sFaults>>
    BY <1>3 DEF RequestSide, sWorld, SP!podVars, SP!apiVars, SP!viewVars
  <2>3. UNCHANGED <<sQueue, sWorker>> \/ (sQueue' = {} /\ sWorker' = SP!Idle)
    BY <1>3 DEF RequestSide, S!Idle, SP!Idle
  <2>. QED
    BY Zenon, <1>1, <2>1, <2>2, <2>3, SignerAssumptions, SP!StopStep
<1>. QED
  BY Zenon, <1>2, <1>3, SignersStep

\* A patch adds a target to the SignerKey and keeps its root key.
LEMMA PatchKeepsRoot ==
  ASSUME SysInv, R!PatchSignerKey, NEW s \in Signers
  PROVE  /\ signerKeys[s] = None => signerKeys'[s] = None
         /\ signerKeys[s] # None => /\ signerKeys'[s] # None
                                    /\ signerKeys'[s].root = signerKeys[s].root
<1>1. RP!PatchSignerKey
  BY Zenon
     DEF R!PatchSignerKey, R!At, R!Signer, R!Target, R!MergePatch, R!EmptyMap, R!NoFault,
         R!Fault, R!FailTo, R!podVars, R!viewVars, R!notary,
         RP!PatchSignerKey, RP!At, RP!Signer, RP!Target, RP!MergePatch, RP!EmptyMap, RP!NoFault,
         RP!Fault, RP!FailTo, RP!podVars, RP!viewVars, RP!notary
<1>2. /\ RP!Signer \in Signers /\ RP!Target \in Targets /\ rWorker.tkey \in RP!TrustKey
      /\ \/ signerKeys' = signerKeys
         \/ /\ signerKeys[RP!Signer] \in RP!SignerKey
            /\ signerKeys' = [signerKeys EXCEPT ![RP!Signer] =
                                RP!MergePatch(signerKeys[RP!Signer], RP!Target, rWorker.tkey)]
  BY <1>1, RequestAssumptions, RP!PatchEffect DEF SysInv
<1>3. CASE signerKeys' = signerKeys
  BY <1>3
<1>4. ASSUME signerKeys' # signerKeys
      PROVE  /\ signerKeys'[RP!Signer] \in RP!SignerKey
             /\ signerKeys'[RP!Signer].root = signerKeys[RP!Signer].root
  <2>. DEFINE old == signerKeys[RP!Signer]
              new == RP!MergePatch(old, RP!Target, rWorker.tkey)
  <2>1. new \in RP!SignerKey /\ new.root = old.root
    BY <1>2, <1>4, RequestAssumptions, RP!MergePatchType
  <2>2. signerKeys'[RP!Signer] = new
    BY <1>2, <1>4, SysTypes
  <2>. QED
    BY <2>1, <2>2
<1>5. ASSUME signerKeys' # signerKeys, s # RP!Signer
      PROVE  signerKeys'[s] = signerKeys[s]
  BY <1>2, <1>5, SysTypes
<1>. QED
  BY <1>2, <1>3, <1>4, <1>5, SysTypes

\* So does a user who gives a SignerKey targets.
LEMMA GivenKeepsRoot ==
  ASSUME SysInv, NEW x \in Signers, R!GiveTargets(x), NEW s \in Signers
  PROVE  /\ signerKeys[s] = None => signerKeys'[s] = None
         /\ signerKeys[s] # None => /\ signerKeys'[s] # None
                                    /\ signerKeys'[s].root = signerKeys[s].root
<1>1. RP!GiveTargets(x)
  BY Zenon
     DEF R!GiveTargets, R!EmptyMap, R!NoFault, R!podVars, R!viewVars, R!notary,
         RP!GiveTargets, RP!EmptyMap, RP!NoFault, RP!podVars, RP!viewVars, RP!notary
<1>2. /\ signerKeys[x] \in RP!SignerKey /\ signerKeys'[x] \in RP!SignerKey
      /\ signerKeys' = [signerKeys EXCEPT ![x] = signerKeys'[x]]
      /\ signerKeys'[x].root = signerKeys[x].root
  BY <1>1, RequestAssumptions, RP!GivenTargets DEF SysInv
<1>3. s # x => signerKeys'[s] = signerKeys[s]
  BY <1>2, SysTypes
<1>. QED
  BY <1>2, <1>3, SysTypes

LEMMA KeysLinkedStep ==
  ASSUME SysInv, [Next]_vars
  PROVE  KeysLinked'
<1>. SUFFICES ASSUME NEW s \in Signers
              PROVE  IF rootKeys'[s] = None THEN signerKeys'[s] = None
                     ELSE /\ signerKeys'[s] # None
                          /\ signerKeys'[s].root = rootKeys'[s].root
                          /\ rootKeys'[s].root.id \in rMinted'
                          /\ rootKeys'[s].owner <= sRev'
  BY DEF KeysLinked
<1>1. IF rootKeys[s] = None THEN signerKeys[s] = None
      ELSE /\ signerKeys[s] # None
           /\ signerKeys[s].root = rootKeys[s].root
           /\ rootKeys[s].root.id \in rMinted
           /\ rootKeys[s].owner <= sRev
  BY DEF SysInv, KeysLinked
<1>2. CASE UNCHANGED <<rootKeys, signerKeys, rMinted, sRev>>
  BY <1>1, <1>2
<1>3. CASE SignerSide(SignerStep)
  <2>1. SignerStep /\ KeysReflected
    BY <1>3 DEF SignerSide
  <2>2. rMinted \subseteq rMinted' /\ (rootKeys'[s] # None => rootKeys'[s].root.id \in rMinted')
    BY <2>1 DEF KeysReflected, Exists
  <2>3. sRev' \in Nat /\ sRev <= sRev'
    <3>1. sRev' = sRev \/ sRev' = sRev + 1
      BY <2>1, SignerWrites
         DEF S!CreateSignerKey, S!Report, S!SyncSigner, S!CollectKey, S!CreateSigner,
             S!EditSigner, S!DeleteSigner, S!UserWrites, S!apiVars
    <3>. QED
      BY <3>1, SysTypes
  <2>4. CASE rootKeys'[s] = rootKeys[s]
    <3>1. signerKeys'[s] = signerKeys[s]
      BY <2>1, <2>4, Reflected
    <3>2. rootKeys[s] # None => rootKeys[s].owner \in Nat
      BY SysTypes DEF SP!SignerKey
    <3>. QED
      BY <1>1, <2>2, <2>3, <2>4, <3>1, <3>2, SysTypes
  <2>5. ASSUME rootKeys'[s] # rootKeys[s]
        PROVE  /\ signerKeys'[s] = IF rootKeys'[s] = None THEN None
                                   ELSE [root |-> rootKeys'[s].root, targets |-> Nil]
               /\ rootKeys'[s] # None => rootKeys'[s].owner <= sRev'
    <3>1. \/ rootKeys'[s] = None
          \/ /\ S!CreateSignerKey
             /\ rootKeys' = [rootKeys EXCEPT ![sWorker.name] =
                                [root |-> sWorker.key, owner |-> sWorker.obj.uid]]
      <4>1. \/ S!CreateSignerKey
            \/ \E x \in Signers : rootKeys' = [rootKeys EXCEPT ![x] = None]
        BY <2>1, <2>5, SignerWrites
           DEF S!Report, S!SyncSigner, S!CollectKey, S!CreateSigner, S!EditSigner,
               S!DeleteSigner, S!UserWrites, S!apiVars
      <4>2. S!CreateSignerKey =>
              rootKeys' = [rootKeys EXCEPT ![sWorker.name] =
                             [root |-> sWorker.key, owner |-> sWorker.obj.uid]]
        BY <2>5 DEF S!CreateSignerKey
      <4>3. \A x \in Signers : rootKeys' = [rootKeys EXCEPT ![x] = None] => rootKeys'[s] = None
        BY <2>5, SysTypes
      <4>. QED
        BY <4>1, <4>2, <4>3
    <3>2. ASSUME rootKeys'[s] # None
          PROVE  rootKeys'[s].owner <= sRev'
      <4>1. sWorker.pc = "createKey" /\ sWorker.obj \in SP!ImageSigner
        BY <3>1, <3>2 DEF S!CreateSignerKey, S!At, SysInv, SP!RootInv, SP!WorkerShape
      <4>2. sWorker.obj.uid <= sRev /\ sWorker.obj.uid \in Nat
        BY <4>1, SysTypes DEF SysInv, SP!RootInv, SP!Versions, SP!Old, SP!ImageSigner
      <4>3. rootKeys'[s].owner = sWorker.obj.uid
        BY <2>5, <3>1, <3>2, SysTypes
      <4>. QED
        BY <2>3, <4>2, <4>3, SysTypes
    <3>3. signerKeys'[s] = IF rootKeys'[s] = None THEN None
                           ELSE [root |-> rootKeys'[s].root, targets |-> Nil]
      BY <2>1, <2>5, Reflected
    <3>. QED
      BY <3>2, <3>3
  <2>6. CASE rootKeys'[s] # rootKeys[s]
    <3>1. rootKeys'[s] \in SP!SignerKey \cup {None}
      BY SignersInvStep DEF SP!RootInv, SP!TypeOK
    <3>2. ASSUME rootKeys'[s] # None
          PROVE  [root |-> rootKeys'[s].root, targets |-> Nil] # None
      <4>1. rootKeys'[s].root \in RP!TrustKey
        BY <3>1, <3>2 DEF SP!SignerKey, SP!TrustKey, RP!TrustKey
      <4>2. [root |-> rootKeys'[s].root, targets |-> Nil] \in RP!SignerKey
        BY <4>1 DEF RP!SignerKey, RP!TargetMap
      <4>. QED
        BY <4>2, SysTypes
    <3>. QED
      BY <2>2, <2>5, <2>6, <3>2
  <2>. QED
    BY <2>4, <2>6
<1>4. CASE RequestSide(RequestStep)
  <2>1. RequestStep /\ rootKeys' = rootKeys /\ sRev' = sRev
    BY <1>4 DEF RequestSide, sWorld
  <2>2. /\ rMinted \subseteq rMinted'
        /\ signerKeys' = signerKeys \/ R!PatchSignerKey \/ \E x \in Signers : R!GiveTargets(x)
    BY <2>1, RequestWrites
  <2>. QED
    BY <1>1, <2>1, <2>2, PatchKeepsRoot, GivenKeepsRoot
<1>5. CASE UNCHANGED vars
  BY <1>2, <1>5 DEF vars, sWorld, rKeys
<1>6. CASE Crash \/ Restart
  BY <1>2, <1>6
     DEF Crash, Restart, S!Crash, S!apiVars, R!Crash, R!podVars, R!apiVars, sWorld, R!Restart
<1>7. ASSUME NEW x \in Signers, KeyEvent(x)
      PROVE  UNCHANGED <<rootKeys, signerKeys, rMinted, sRev>>
  BY <1>7 DEF KeyEvent
<1>. QED
  BY Zenon, <1>2, <1>3, <1>4, <1>5, <1>6, <1>7, Sides

\* Requests see no key before it is stored: what they see, and what their pods
\* generate, is told apart from what is in the attempt's pod.
LEMMA KeyUnseenStep ==
  ASSUME SysInv, [Next]_vars
  PROVE  KeyUnseen'
<1>1. CASE UNCHANGED <<sPods, sMinted, rMinted, sWorker>>
  BY <1>1 DEF SysInv, KeyUnseen, Unseen
<1>2. CASE SignerSide(SignerStep)
  <2>1. /\ SignerStep /\ KeysReflected /\ sMinted' \cap rMinted \subseteq sMinted
    BY <1>2 DEF SignerSide
  <2>2. SP!RootInv /\ [SP!Next]_(SP!vars)
    BY ZenonT(40), <2>1, StepsOfModules, SignerStepsSame DEF SysInv
  <2>3. sMinted' = sMinted \/ \E k \in KeyIds : sMinted' = sMinted \cup {k}
    BY <2>1
       DEF SignerStep, S!Attempt, S!CheckKey, S!StartCreates, S!StartFindsName, S!StartFails,
           S!PollPod, S!GenerateFails, S!GenerateRoot, S!Generate, S!ReadRootKey,
           S!CreateSignerKey, S!Close, S!Report, S!Take, S!SkipSigner, S!GetImageSigner,
           S!SyncSigner, S!CollectKey, S!CreateSigner, S!EditSigner, S!DeleteSigner,
           S!UserWrites, S!Resync, S!PodEvent, S!SyncPod, S!PodStarts, S!KubeletRuns, S!PodLost,
           S!Elsewhere, S!podVars
  <2>4. ASSUME rMinted' = rMinted
        PROVE  KeyUnseen'
    <3>1. \A id : Unseen(id) => id \in sMinted' \ rMinted'
      BY <2>3, <2>4 DEF Unseen
    <3>2. \A id \in sMinted' \ sMinted : id \in sMinted' \ rMinted'
      BY <2>1, <2>4
    <3>3. ASSUME sWorker'.pc \in {"poll", "generate", "readKey"}, sPods'[sWorker'.pod] # None,
                 NEW f \in sPods'[sWorker'.pod].files
          PROVE  f.id \in sMinted' \ rMinted'
      <4>1. \/ /\ sWorker.pc \in {"poll", "generate", "readKey"}
               /\ sPods[sWorker.pod] # None /\ f \in sPods[sWorker.pod].files
            \/ f.id \in sMinted' \ sMinted
        BY <2>2, <3>3, SignerAssumptions, SP!PodFilesStep DEF SP!KeySteps
      <4>2. CASE f.id \in sMinted' \ sMinted
        BY <3>2, <4>2
      <4>3. CASE /\ sWorker.pc \in {"poll", "generate", "readKey"}
                 /\ sPods[sWorker.pod] # None /\ f \in sPods[sWorker.pod].files
        BY <3>1, <4>3 DEF SysInv, KeyUnseen
      <4>. QED
        BY <4>1, <4>2, <4>3
    <3>4. ASSUME sWorker'.pc = "createKey"
          PROVE  sWorker'.key.id \in sMinted' \ rMinted'
      <4>1. \/ sWorker.pc = "createKey" /\ sWorker'.key = sWorker.key
            \/ /\ sWorker.pc = "readKey" /\ sPods[sWorker.pod] # None
               /\ \E f \in sPods[sWorker.pod].files : f.id = sWorker'.key.id
        BY <2>2, <3>4, SignerAssumptions, SP!KeyReadStep
      <4>. QED
        BY <3>1, <4>1 DEF SysInv, KeyUnseen
    <3>. QED
      BY <3>3, <3>4 DEF KeyUnseen, Unseen
  <2>5. CASE UNCHANGED rootKeys
    <3>1. rMinted' = rMinted
      BY <2>1, <2>5, Reflected
    <3>. QED
      BY <2>4, <3>1
  <2>6. ASSUME S!CreateSignerKey
        PROVE  KeyUnseen'
    <3>1. \E k : sWorker' = [sWorker EXCEPT !.pc = "close", !.keyState = k]
      BY Zenon, <2>6 DEF S!CreateSignerKey, S!FailTo
    <3>2. sWorker'.pc = "close"
      BY <3>1, SysTypes DEF SP!Worker
    <3>. QED
      BY <3>2 DEF KeyUnseen
  <2>7. ASSUME NEW s \in Signers, S!CollectKey(s)
        PROVE  KeyUnseen'
    <3>1. \A x \in Signers : rootKeys'[x] # None => rootKeys'[x] = rootKeys[x]
      BY <2>7, SysTypes DEF S!CollectKey
    <3>2. rMinted' = rMinted
      BY <2>1, <3>1, Reflected
    <3>. QED
      BY <2>4, <3>2
  <2>8. ASSUME \/ S!Report
               \/ \E s \in Signers : \/ S!SyncSigner(s) \/ S!CreateSigner(s)
                                     \/ S!EditSigner(s) \/ S!DeleteSigner(s)
        PROVE  UNCHANGED rootKeys
    BY <2>8
       DEF S!Report, S!SyncSigner, S!CreateSigner, S!EditSigner, S!DeleteSigner, S!UserWrites,
           S!apiVars
  <2>. QED
    BY Zenon, <2>1, <2>5, <2>6, <2>7, <2>8, SignerWrites
<1>3. CASE RequestSide(RequestStep)
  <2>1. /\ RequestStep /\ UNCHANGED <<sPods, sMinted>>
        /\ rMinted' \cap sMinted \subseteq rMinted
        /\ sWorker' = sWorker \/ sWorker' = S!Idle
    BY <1>3 DEF RequestSide, sWorld
  <2>2. CASE sWorker' = sWorker
    BY <2>1, <2>2 DEF SysInv, KeyUnseen, Unseen
  <2>3. CASE sWorker' = S!Idle
    BY <2>3 DEF KeyUnseen, S!Idle
  <2>. QED
    BY <2>1, <2>2, <2>3
<1>4. CASE UNCHANGED vars
  BY <1>1, <1>4 DEF vars, sWorld, rKeys
<1>5. CASE Crash
  <2>1. sWorker' = S!Idle
    BY <1>5 DEF Crash, S!Crash
  <2>. QED
    BY <2>1 DEF KeyUnseen, S!Idle
<1>6. CASE Restart
  BY <1>1, <1>6 DEF Restart, S!Restart, R!Restart, R!podVars, sWorld
<1>7. ASSUME NEW x \in Signers, KeyEvent(x)
      PROVE  UNCHANGED <<sPods, sMinted, rMinted, sWorker>>
  BY <1>7 DEF KeyEvent
<1>. QED
  BY Zenon, <1>1, <1>2, <1>3, <1>4, <1>5, <1>6, <1>7, Sides

(***************************************************************************)
(* The initial states: a deployment that may have had an operator before.  *)
(***************************************************************************)
LEMMA InitKeys ==
  ASSUME Init
  PROVE  /\ \E id \in [Keyed -> KeyIds], p \in Passes :
              /\ \A s1, s2 \in Keyed : s1 # s2 => id[s1] # id[s2]
              /\ rootKeys = [s \in Signers |->
                   IF s \in Keyed
                     THEN [root |-> [id |-> id[s], enc |-> p, pass |-> p], owner |-> 0]
                     ELSE None]
              /\ signerKeys = [s \in Signers |->
                   IF s \in Keyed
                     THEN [root |-> [id |-> id[s], enc |-> p, pass |-> p], targets |-> Nil]
                     ELSE None]
              /\ rMinted = {id[s] : s \in Keyed}
         /\ sMinted = rMinted /\ rMinted \subseteq KeyIds
         /\ rootKeys \in [Signers -> SP!SignerKey \cup {None}]
         /\ \A s \in Keyed : rootKeys[s] \in SP!SignerKey
         /\ \A s \in Signers : rootKeys[s] # None => /\ s \in Keyed
                                                   /\ rootKeys[s].owner = 0
                                                   /\ rootKeys[s].root.enc = rootKeys[s].root.pass
                                                   /\ rootKeys[s].root.id \in rMinted
<1>1. PICK id \in [Keyed -> KeyIds], p \in Passes :
        /\ \A s1, s2 \in Keyed : s1 # s2 => id[s1] # id[s2]
        /\ rootKeys = [s \in Signers |->
             IF s \in Keyed THEN [root |-> [id |-> id[s], enc |-> p, pass |-> p], owner |-> 0]
                            ELSE None]
        /\ sMinted = {id[s] : s \in Keyed}
  BY Zenon DEF Init
<1>2. Keyed \subseteq Signers /\ \A s \in Keyed : id[s] \in KeyIds
  BY SystemAssumption
<1>3. \A s \in Keyed :
        [root |-> [id |-> id[s], enc |-> p, pass |-> p], owner |-> 0] \in SP!SignerKey
  BY <1>2 DEF SP!SignerKey, SP!TrustKey
<1>4. \A s \in Keyed :
        rootKeys[s] = [root |-> [id |-> id[s], enc |-> p, pass |-> p], owner |-> 0]
  BY <1>1, <1>2
<1>5. signerKeys = [s \in Signers |->
        IF s \in Keyed THEN [root |-> rootKeys[s].root, targets |-> Nil] ELSE None]
  BY DEF Init
<1>6. signerKeys = [s \in Signers |->
        IF s \in Keyed THEN [root |-> [id |-> id[s], enc |-> p, pass |-> p], targets |-> Nil]
                       ELSE None]
  <2>1. ASSUME NEW s \in Keyed
        PROVE  rootKeys[s].root = [id |-> id[s], enc |-> p, pass |-> p]
    <3>1. rootKeys[s] = [root |-> [id |-> id[s], enc |-> p, pass |-> p], owner |-> 0]
      BY <1>4
    <3>. QED
      BY <3>1
  <2>. QED
    BY <1>5, <2>1
<1>7. rMinted = sMinted
  BY DEF Init
<1>8. sMinted \subseteq KeyIds
  BY <1>1, <1>2
<1>9. rootKeys \in [Signers -> SP!SignerKey \cup {None}]
  BY <1>1, <1>3
<1>10. ASSUME NEW s \in Signers, rootKeys[s] # None
       PROVE  /\ s \in Keyed
              /\ rootKeys[s].owner = 0
              /\ rootKeys[s].root.enc = rootKeys[s].root.pass
              /\ rootKeys[s].root.id \in rMinted
  BY <1>1, <1>4, <1>7, <1>10
<1>11. \A s \in Keyed : rootKeys[s] \in SP!SignerKey
  BY <1>3, <1>4
<1>. QED
  BY <1>1, <1>6, <1>7, <1>8, <1>9, <1>10, <1>11

LEMMA InitSigners ==
  ASSUME Init
  PROVE  SP!RootInv
<1>. DEFINE first == [uid |-> 0, rv |-> 0, keyState |-> None]
<1>1. first \in SP!ImageSigner /\ first # None
  <2>1. first \in SP!ImageSigner
    BY DEF SP!ImageSigner
  <2>. QED
    BY <2>1, SignerAssumptions DEF SP!RootKeyAssumption
<1>2. /\ signers = [s \in Signers |-> first] /\ signerCache = signers
      /\ rootKeyCache = [s \in Signers |-> None]
      /\ sPods = [n \in SignerPods |-> None] /\ sPodCache = sPods
      /\ sWorker = SP!Idle /\ sQueue = Signers /\ up = TRUE
      /\ sRev = 0 /\ sOps = 0 /\ sFaults = 0
  BY DEF Init, S!Idle, SP!Idle
<1>3. sWorker \in SP!Worker
  BY <1>2, SignerAssumptions, SP!IdleType
<1>4. SP!TypeOK
  <2>1. SP!PodTypeOK
    BY <1>2, InitKeys DEF SP!PodTypeOK
  <2>2. 0 \in 0..SignerOps /\ 0 \in 0..MaxFaults
    BY SystemAssumption
  <2>. QED
    BY <1>1, <1>2, <1>3, <2>1, <2>2, InitKeys DEF SP!TypeOK
<1>5. sWorker.pc = "idle" /\ sWorker.pod = None /\ sWorker.keyState = None
  BY <1>2 DEF SP!Idle
<1>6. SP!WorkerShape /\ SP!PodKeys /\ SP!KeyInHand
  BY <1>2, <1>5
     DEF SP!WorkerShape, SP!PodKeys, SP!KeyInHand, SP!HasCreated, SP!KeySteps, SP!PodSteps
<1>7. SP!Versions
  BY <1>2, <1>5 DEF SP!Versions, SP!Old, SP!SameVersion
<1>8. SP!CreatedMeansKey
  BY <1>2 DEF SP!CreatedMeansKey, SP!HasCreated
<1>9. SP!RootKeyOpens
  BY InitKeys DEF SP!RootKeyOpens
<1>. QED
  BY <1>4, <1>6, <1>7, <1>8, <1>9 DEF SP!RootInv

LEMMA InitRequests ==
  ASSUME Init
  PROVE  R!Init
<1>1. PICK id \in [Keyed -> KeyIds], p \in Passes :
        /\ \A s1, s2 \in Keyed : s1 # s2 => id[s1] # id[s2]
        /\ rootKeys = [s \in Signers |->
             IF s \in Keyed THEN [root |-> [id |-> id[s], enc |-> p, pass |-> p], owner |-> 0]
                            ELSE None]
        /\ signerKeys = [s \in Signers |->
             IF s \in Keyed THEN [root |-> [id |-> id[s], enc |-> p, pass |-> p], targets |-> Nil]
                            ELSE None]
        /\ rMinted = {id[s] : s \in Keyed}
  BY Zenon, InitKeys
<1>2. Keyed \subseteq Signers /\ KeyIds # {}
  BY SystemAssumption
<1>3. PICK other \in KeyIds : TRUE
  BY <1>2
<1>. DEFINE shape == [s \in Signers |-> IF s \in Keyed THEN "nil" ELSE "absent"]
            rootId == [s \in Signers |-> IF s \in Keyed THEN id[s] ELSE other]
<1>4. shape \in [Signers -> {"absent", "nil"}] /\ rootId \in [Signers -> KeyIds]
  BY <1>3
<1>5. {x \in Signers : shape[x] # "absent"} = Keyed
  BY <1>2
<1>6. \A s1, s2 \in {x \in Signers : shape[x] # "absent"} : s1 # s2 => rootId[s1] # rootId[s2]
  BY <1>1, <1>2, <1>5
<1>7. signerKeys = [s \in Signers |-> R!InitialKey(shape[s], rootId[s], p)]
  BY <1>1 DEF R!InitialKey
<1>8. rMinted = {rootId[s] : s \in {x \in Signers : shape[x] # "absent"}}
  BY <1>1, <1>2, <1>5
<1>9. Exists(signers) = Signers /\ Exists(signerCache) \in SUBSET Signers /\ Orphans = {}
  <2>. DEFINE first == [uid |-> 0, rv |-> 0, keyState |-> None]
  <2>1. first \in SP!ImageSigner
    BY DEF SP!ImageSigner
  <2>2. first # None
    BY <2>1, SignerAssumptions DEF SP!RootKeyAssumption
  <2>3. signers = [s \in Signers |-> first]
    BY DEF Init
  <2>. QED
    BY <2>2, <2>3, InitKeys DEF Exists, Orphans
<1>10. \E sh \in [Signers -> {"absent", "nil"}], ri \in [Signers -> KeyIds], q \in Passes :
         /\ \A s1, s2 \in {x \in Signers : sh[x] # "absent"} : s1 # s2 => ri[s1] # ri[s2]
         /\ signerKeys = [s \in Signers |-> R!InitialKey(sh[s], ri[s], q)]
         /\ rMinted = {ri[s] : s \in {x \in Signers : sh[x] # "absent"}}
  <2>. HIDE DEF shape, rootId
  <2>. QED
    BY Zenon, <1>4, <1>6, <1>7, <1>8
<1>. QED
  BY <1>9, <1>10 DEF Init, R!Init

LEMMA InitSystem == Init => SysInv
<1>. SUFFICES ASSUME Init PROVE SysInv
  OBVIOUS
<1>1. RP!IInv
  BY Zenon, InitRequests, RequestsInitSame, RequestAssumptions, RP!InitInv
<1>2. KeysLinked
  <2>1. sRev = 0
    BY DEF Init
  <2>2. signerKeys = [s \in Signers |->
          IF s \in Keyed THEN [root |-> rootKeys[s].root, targets |-> Nil] ELSE None]
    BY DEF Init
  <2>3. signerKeys \in [Signers -> RP!SignerKey \cup {None}]
    BY <1>1 DEF RP!IInv, RP!TypeOK
  <2>4. \A s \in Signers : s \in Keyed => signerKeys[s] # None
    <3>1. ASSUME NEW s \in Keyed
          PROVE  [root |-> rootKeys[s].root, targets |-> Nil] # None
      <4>1. rootKeys[s] \in SP!SignerKey
        BY InitKeys
      <4>2. [root |-> rootKeys[s].root, targets |-> Nil] \in RP!SignerKey
        BY <4>1 DEF SP!SignerKey, RP!SignerKey, SP!TrustKey, RP!TrustKey, RP!TargetMap
      <4>. QED
        BY <4>2, RequestAssumptions DEF RP!RequestAssumption
    <3>. QED
      BY <2>2, <3>1
  <2>5. \A s \in Signers : s \in Keyed => rootKeys[s] # None
    BY InitKeys, SignerAssumptions DEF SP!RootKeyAssumption
  <2>. QED
    BY <2>1, <2>2, <2>4, <2>5, InitKeys DEF KeysLinked
<1>3. KeyUnseen
  BY DEF Init, S!Idle, KeyUnseen
<1>. QED
  BY <1>1, <1>2, <1>3, InitSigners DEF SysInv

(***************************************************************************)
(* The theorems.                                                           *)
(***************************************************************************)
\* What links the two reconcilers holds in every reachable state, and with it
\* the inductive invariant of each.
THEOREM SystemInvariance == Spec => []SysInv
<1>1. SysInv /\ [Next]_vars => SysInv'
  BY RequestsInvStep, SignersInvStep, KeysLinkedStep, KeyUnseenStep DEF SysInv
<1>. QED
  BY InitSystem, <1>1, PTL DEF Spec

\* The operator implements SignRequest: to a request, the ImageSigner
\* reconciler, its users and the collector are the environment that module
\* assumes.
THEOREM RequestsRefined == Spec => RequestsSpec
<1>1. Init => R!Init
  BY InitRequests
<1>2. SysInv /\ [Next]_vars => [R!Next]_(R!vars)
  BY RequestsStep
<1>. QED
  BY <1>1, <1>2, SystemInvariance, PTL DEF Spec, RequestsSpec, R!Spec

\* Both reconcilers keep the types of their variables, when they run at once.
THEOREM SystemTypeCorrect == Spec => []TypeOK
<1>1. SP!TypeOK => S!TypeOK
  BY Zenon
     DEF SP!TypeOK, SP!PodTypeOK, SP!Pod, SP!Phases, SP!KeyFile, SP!Roles, SP!TrustKey,
         SP!KeyState, SP!ImageSigner, SP!SignerKey, SP!Worker, SP!Steps,
         S!TypeOK, S!PodTypeOK, S!Pod, S!Phases, S!KeyFile, S!Roles, S!TrustKey,
         S!KeyState, S!ImageSigner, S!SignerKey, S!Worker, S!Steps
<1>2. RP!TypeOK => R!TypeOK
  BY Zenon
     DEF RP!TypeOK, RP!PodTypeOK, RP!Pod, RP!Phases, RP!KeyFile, RP!Roles, RP!TrustKey,
         RP!StartKey, RP!Request, RP!Answers, RP!TargetMap, RP!SignerKey, RP!Repo, RP!Worker,
         RP!Steps,
         R!TypeOK, R!PodTypeOK, R!Pod, R!Phases, R!KeyFile, R!Roles, R!TrustKey,
         R!StartKey, R!Request, R!Answers, R!TargetMap, R!SignerKey, R!Repo, R!Worker,
         R!Steps
<1>3. SysInv => TypeOK
  BY <1>1, <1>2 DEF SysInv, SP!RootInv, RP!IInv, TypeOK
<1>. QED
  BY <1>3, SystemInvariance, PTL

\* Of the operator as a whole: an ImageSigner that reports its key as created
\* has that key, with a passphrase that opens it; what is recorded for a
\* target opens its repository; and a stored success has a signature and a
\* recorded key behind it.  Targets are recorded in SignerKeys that users gave
\* the field the ImageSigner reconciler leaves out.
THEOREM SystemKeysHold ==
  Spec => [](S!CreatedMeansKey /\ S!RootKeyOpens /\ R!StoredKeyOpensRepo /\ R!SuccessIsBacked)
<1>1. SP!CreatedMeansKey /\ SP!RootKeyOpens => S!CreatedMeansKey /\ S!RootKeyOpens
  BY Zenon
     DEF SP!CreatedMeansKey, SP!RootKeyOpens, SP!HasCreated, S!CreatedMeansKey, S!RootKeyOpens,
         S!HasCreated
<1>2. RP!StoredKeyOpensRepo /\ RP!SuccessIsBacked => R!StoredKeyOpensRepo /\ R!SuccessIsBacked
  BY Zenon
     DEF RP!StoredKeyOpensRepo, RP!SuccessIsBacked, RP!Recorded, R!StoredKeyOpensRepo,
         R!SuccessIsBacked, R!Recorded
<1>3. SysInv => S!CreatedMeansKey /\ S!RootKeyOpens
  BY <1>1 DEF SysInv, SP!RootInv
<1>4. Spec => RP!Spec
  <2>1. Init => RP!Init
    BY InitRequests, RequestsInitSame
  <2>2. SysInv /\ [Next]_vars => [RP!Next]_(RP!vars)
    BY Zenon, RequestsStep, RequestStepsSame
  <2>. QED
    BY <2>1, <2>2, SystemInvariance, PTL DEF Spec, RP!Spec
<1>5. RP!Spec => []RP!StoredKeyOpensRepo /\ []RP!SuccessIsBacked
  <2>1. RP!Spec => []RP!StoredKeyOpensRepo
    BY RequestAssumptions, RP!RecordedKeysOpen
  <2>2. RP!Spec => []RP!SuccessIsBacked
    BY RequestAssumptions, RP!SuccessBacked
  <2>. QED
    BY <2>1, <2>2, PTL
<1>. QED
  BY <1>2, <1>3, <1>4, <1>5, SystemInvariance, PTL


(***************************************************************************)
(* SignerPodsAccounted.  A step adds a pod to those left behind only if it *)
(* is a fault, or a panic of the requests' worker, which stops the other   *)
(* worker's attempt.  The panics to come and past are at most as many as   *)
(* the repositories that have been signed for.                             *)
(***************************************************************************)
Pending == IF RP!Panicking THEN 1 ELSE 0

Counted ==
  /\ ~up => sWorker = S!Idle
  /\ RP!Registered
  /\ IsFiniteSet(SP!LeftPods) /\ IsFiniteSet(RP!BoundTargets)
  /\ Cardinality(SP!LeftPods) + Pending <= sFaults + Cardinality(RP!BoundTargets)

\* A set that gains at most one element.
LEMMA OneMore ==
  ASSUME NEW A, NEW B, NEW x, IsFiniteSet(A), B \subseteq A \cup {x}
  PROVE  /\ IsFiniteSet(B) /\ Cardinality(A) \in Nat /\ Cardinality(B) \in Nat
         /\ Cardinality(B) <= Cardinality(A) + 1
<1>1. /\ IsFiniteSet(A \cup {x})
      /\ \/ Cardinality(A \cup {x}) = Cardinality(A)
         \/ Cardinality(A \cup {x}) = Cardinality(A) + 1
  BY Zenon, FS_AddElement
<1>2. IsFiniteSet(B) /\ Cardinality(B) <= Cardinality(A \cup {x})
  BY <1>1, FS_Subset
<1>3. Cardinality(A) \in Nat /\ Cardinality(B) \in Nat /\ Cardinality(A \cup {x}) \in Nat
  BY <1>1, <1>2, FS_CardinalityType
<1>. QED
  BY <1>1, <1>2, <1>3

\* The process is down, or comes up, between two attempts only.
LEMMA StoppedStep ==
  ASSUME ~up => sWorker = S!Idle, [Next]_vars
  PROVE  ~up' => sWorker' = S!Idle
<1>1. CASE UNCHANGED vars
  BY <1>1 DEF vars
<1>2. ASSUME SignerStep, up' = up, ~up PROVE sWorker' = sWorker
  BY <1>2
     DEF SignerStep, S!Attempt, S!CheckKey, S!StartCreates, S!StartFindsName, S!StartFails,
         S!PollPod, S!GenerateFails, S!GenerateRoot, S!ReadRootKey, S!CreateSignerKey, S!Close,
         S!Report, S!At, S!Resync, S!Take, S!SkipSigner, S!GetImageSigner, S!SyncSigner,
         S!CollectKey, S!CreateSigner, S!EditSigner, S!DeleteSigner, S!UserWrites, S!PodEvent,
         S!PodStarts, S!PodLost, S!Elsewhere
<1>3. CASE SignerSide(SignerStep)
  <2>1. SignerStep /\ up' = up
    BY <1>3, SignerWrites DEF SignerSide
  <2>. QED
    BY <1>2, <2>1
<1>4. CASE RequestSide(RequestStep)
  <2>1. IF up' THEN UNCHANGED <<sQueue, sWorker>> ELSE sQueue' = {} /\ sWorker' = S!Idle
    BY <1>4 DEF RequestSide
  <2>. QED
    BY <2>1
<1>5. CASE Crash
  BY <1>5 DEF Crash, S!Crash
<1>6. CASE Restart
  BY <1>6 DEF Restart, S!Restart
<1>7. ASSUME NEW s \in Signers, KeyEvent(s) PROVE up' = up /\ sWorker' = sWorker
  BY <1>7 DEF KeyEvent
<1>. QED
  BY <1>1, <1>3, <1>4, <1>5, <1>6, <1>7, Sides

\* The requests' worker ends the process by a panic only.
LEMMA StopIsPanic ==
  ASSUME RequestStep, up, ~up'
  PROVE  rWorker.panics /\ rWorker' = RP!Idle /\ repos' = repos
<1>1. R!Respond
  BY DEF RequestStep, R!Attempt, R!GetSigner, R!GetSignerKey, R!StartCreates, R!StartFindsName,
         R!StartFails, R!PollPod, R!LoadImage, R!SignFails, R!SignAgain, R!SignFirst,
         R!ReadTargetKey, R!PatchSignerKey, R!Close, R!Resync, R!Take, R!SkipRequest,
         R!GetSignRequest, R!SyncRequest, R!CreateRequest, R!EditRequest, R!DeleteRequest,
         R!UserWrites, R!GiveTargets, R!PodEvent, R!PodStarts, R!PodLost, R!Elsewhere
<1>. QED
  BY <1>1 DEF R!Respond, R!notary, R!Idle, RP!Idle

\* What a step adds to the pods left behind, and what it pays with.
LEMMA LeftStep ==
  ASSUME SysInv, Counted, [Next]_vars
  PROVE  \/ SP!LeftPods' \subseteq SP!LeftPods /\ (sFaults' = sFaults \/ sFaults' = sFaults + 1)
         \/ /\ sFaults' = sFaults + 1
            /\ \E x : SP!LeftPods' \subseteq SP!LeftPods \cup {x}
         \/ /\ sFaults' = sFaults /\ Pending = 1 /\ Pending' = 0
            /\ RP!BoundTargets' = RP!BoundTargets
            /\ \E x : SP!LeftPods' \subseteq SP!LeftPods \cup {x}
<1>1. CASE [S!Next]_(S!vars)
  <2>1. SP!RootInv /\ [SP!Next]_(SP!vars)
    BY Zenon, <1>1, SignerStepsSame DEF SysInv
  <2>2. \/ SP!LeftPods' \subseteq SP!LeftPods
        \/ sFaults' = sFaults + 1 /\ \E x : SP!LeftPods' \subseteq SP!LeftPods \cup {x}
    BY Zenon, <2>1, SignerAssumptions, SP!LeftPodsStep
  <2>3. sFaults' = sFaults \/ sFaults' = sFaults + 1
    BY <2>1, SignerAssumptions, SP!BookkeepingMoves
  <2>. QED
    BY <2>2, <2>3
<1>2. CASE RequestSide(RequestStep)
  <2>1. RequestStep /\ UNCHANGED sWorld
        /\ IF up' THEN UNCHANGED <<sQueue, sWorker>> ELSE sQueue' = {} /\ sWorker' = S!Idle
    BY <1>2 DEF RequestSide
  <2>2. sPods' = sPods /\ sFaults' = sFaults
    BY <2>1 DEF sWorld
  <2>3. CASE sWorker' = sWorker
    BY <2>2, <2>3 DEF SP!LeftPods
  <2>4. CASE sWorker' # sWorker
    <3>1. up /\ ~up'
      BY <2>1, <2>4 DEF Counted
    <3>2. rWorker.panics /\ rWorker' = RP!Idle /\ repos' = repos
      BY <2>1, <3>1, StopIsPanic
    <3>3. Pending = 1 /\ Pending' = 0 /\ RP!BoundTargets' = RP!BoundTargets
      BY <3>2 DEF Pending, RP!Panicking, RP!Idle, RP!BoundTargets
    <3>4. SP!LeftPods' \subseteq SP!LeftPods \cup {sWorker.pod}
      BY <2>2 DEF SP!LeftPods
    <3>. QED
      BY <2>2, <3>3, <3>4
  <2>. QED
    BY <2>3, <2>4
<1>. QED
  BY <1>1, <1>2, SignersStep

\* A privileged pod left running in the operator's namespace is one a crash or
\* a failed call left, or one the worker had when the other worker panicked at
\* the first signature of a repository.  Without the hypothesis there is no
\* such bound: a request that names no Registry brings the process down
\* whenever it is tried.
THEOREM SignerPodsLeft ==
  ASSUME RegistryFound = {TRUE}
  PROVE  Spec => []SignerPodsAccounted
<1>1. Init => Counted
  <2>. SUFFICES ASSUME Init PROVE Counted
    OBVIOUS
  <2>1. SP!LeftPods = {} /\ RP!BoundTargets = {}
    BY DEF Init, SP!LeftPods, RP!BoundTargets
  <2>2. Pending = 0 /\ sFaults = 0
    BY DEF Init, Pending, RP!Panicking, R!Idle
  <2>3. RP!Registered /\ up
    BY DEF Init, RP!Registered, R!Idle
  <2>4. /\ IsFiniteSet(SP!LeftPods) /\ IsFiniteSet(RP!BoundTargets)
        /\ Cardinality(SP!LeftPods) = 0 /\ Cardinality(RP!BoundTargets) = 0
    BY <2>1, FS_EmptySet
  <2>. QED
    BY <2>2, <2>3, <2>4 DEF Counted
<1>2. SysInv /\ Counted /\ [Next]_vars => Counted'
  <2>. SUFFICES ASSUME SysInv, Counted, [Next]_vars PROVE Counted'
    OBVIOUS
  <2>. DEFINE Left == Cardinality(SP!LeftPods)
              Bound == Cardinality(RP!BoundTargets)
  <2>1. RP!IInv /\ RP!Registered /\ [RP!Next]_(RP!vars)
    BY Zenon, RequestsStep, RequestStepsSame DEF SysInv, Counted
  <2>2. RP!Registered'
    BY Zenon, <2>1, RequestAssumptions, RP!RegisteredStep
  <2>3. ~up' => sWorker' = S!Idle
    BY StoppedStep DEF Counted
  <2>4. IsFiniteSet(SP!LeftPods) /\ IsFiniteSet(RP!BoundTargets) /\ sFaults \in Nat
    <3>1. sFaults \in 0..MaxFaults /\ MaxFaults \in Nat
      BY SystemAssumption DEF SysInv, SP!RootInv, SP!TypeOK
    <3>. QED
      BY <3>1 DEF Counted
  <2>5. Left \in Nat /\ Bound \in Nat /\ Pending \in {0, 1} /\ Pending' \in {0, 1}
    BY <2>4, FS_CardinalityType DEF Pending
  <2>6. /\ IsFiniteSet(RP!BoundTargets') /\ Bound' \in Nat
        /\ \/ RP!BoundTargets' = RP!BoundTargets /\ Pending' <= Pending
           \/ Bound' = Bound + 1 /\ RP!BoundTargets' # RP!BoundTargets
    <3>1. \/ RP!BoundTargets' = RP!BoundTargets /\ (RP!Panicking' => RP!Panicking)
          \/ \E t \in Targets \ RP!BoundTargets :
               RP!BoundTargets' = RP!BoundTargets \cup {t}
      BY Zenon, <2>1, RequestAssumptions, RP!PanicStep
    <3>2. CASE RP!BoundTargets' = RP!BoundTargets /\ (RP!Panicking' => RP!Panicking)
      BY <2>4, <2>5, <3>2 DEF Pending
    <3>3. ASSUME NEW t \in Targets \ RP!BoundTargets,
                 RP!BoundTargets' = RP!BoundTargets \cup {t}
          PROVE  /\ IsFiniteSet(RP!BoundTargets') /\ Bound' = Bound + 1
                 /\ RP!BoundTargets' # RP!BoundTargets
      BY Zenon, <2>4, <3>3, FS_AddElement
    <3>. QED
      BY <2>5, <3>1, <3>2, <3>3
  <2>7. ASSUME NEW x, SP!LeftPods' \subseteq SP!LeftPods \cup {x}
        PROVE  IsFiniteSet(SP!LeftPods') /\ Left' \in Nat /\ Left' <= Left + 1
    BY Zenon, <2>4, <2>7, OneMore
  <2>8. ASSUME SP!LeftPods' \subseteq SP!LeftPods
        PROVE  IsFiniteSet(SP!LeftPods') /\ Left' \in Nat /\ Left' <= Left
    <3>1. IsFiniteSet(SP!LeftPods') /\ Left' <= Left
      BY Zenon, <2>4, <2>8, FS_Subset
    <3>. QED
      BY <3>1, FS_CardinalityType
  <2>9. IsFiniteSet(SP!LeftPods') /\ Left' + Pending' <= sFaults' + Bound'
    <3>1. Left + Pending <= sFaults + Bound
      BY DEF Counted
    <3>2. CASE SP!LeftPods' \subseteq SP!LeftPods
               /\ (sFaults' = sFaults \/ sFaults' = sFaults + 1)
      BY <2>4, <2>5, <2>6, <2>8, <3>1, <3>2
    <3>3. ASSUME sFaults' = sFaults + 1, NEW x, SP!LeftPods' \subseteq SP!LeftPods \cup {x}
          PROVE  IsFiniteSet(SP!LeftPods') /\ Left' + Pending' <= sFaults' + Bound'
      BY <2>4, <2>5, <2>6, <2>7, <3>1, <3>3
    <3>4. ASSUME sFaults' = sFaults, Pending = 1, Pending' = 0,
                 RP!BoundTargets' = RP!BoundTargets,
                 NEW x, SP!LeftPods' \subseteq SP!LeftPods \cup {x}
          PROVE  IsFiniteSet(SP!LeftPods') /\ Left' + Pending' <= sFaults' + Bound'
      BY <2>4, <2>5, <2>7, <3>1, <3>4
    <3>. QED
      BY <3>2, <3>3, <3>4, LeftStep
  <2>. QED
    BY <2>2, <2>3, <2>6, <2>9 DEF Counted
<1>3. SysInv /\ Counted => SignerPodsAccounted
  <2>. SUFFICES ASSUME SysInv, Counted PROVE SignerPodsAccounted
    OBVIOUS
  <2>1. /\ SP!LeftPods = {n \in SignerPods :
               sPods[n] # None /\ ~(sWorker.pod = n /\ sWorker.pc # "report")}
        /\ RP!BoundTargets = {t \in Targets : repos[t] # None}
    BY DEF SP!LeftPods, RP!BoundTargets
  <2>2. /\ Cardinality(SP!LeftPods) \in Nat /\ Cardinality(RP!BoundTargets) \in Nat
        /\ Pending \in {0, 1} /\ sFaults \in Nat
    <3>1. sFaults \in 0..MaxFaults /\ MaxFaults \in Nat
      BY SystemAssumption DEF SysInv, SP!RootInv, SP!TypeOK
    <3>. QED
      BY <3>1, FS_CardinalityType DEF Counted, Pending
  <2>3. Cardinality(SP!LeftPods) <= sFaults + Cardinality(RP!BoundTargets)
    BY <2>2 DEF Counted
  <2>. QED
    BY <2>1, <2>3 DEF SignerPodsAccounted
<1>. QED
  BY SystemInvariance, <1>1, <1>2, <1>3, PTL DEF Spec
=============================================================================
