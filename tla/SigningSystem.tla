--------------------------- MODULE SigningSystem ---------------------------
(***************************************************************************)
(* The operator process of main.go: the ImageSigner reconciler (RootKey)   *)
(* and the ImageSignRequest reconciler (SignRequest) run at once, one      *)
(* worker each, and share the process, the ImageSigners and the            *)
(* SignerKeys.                                                             *)
(*                                                                         *)
(* Each module acts on its own variables; what they share is told apart by *)
(* what each sees of it: `rootKeys' is a SignerKey's root key and owner,   *)
(* `signerKeys' its root key and targets.  SignRequest's steps that stand  *)
(* for the other reconciler, the users and the garbage collector           *)
(* (KeyAppears, DeleteSigner, CollectKey, ...) are not used: they must     *)
(* follow from what RootKey does.                                          *)
(***************************************************************************)
EXTENDS Naturals, FiniteSets

CONSTANTS
  Requests, Signers, Targets, Nil, RegistryFound,       \* as in SignRequest
  KeyIds, Passes, MaxRetryCount, FreshNames, None,      \* as in DindPod
  SignerPods, RequestPods, \* PodNames in the operator's and in the requests' namespace
  Keyed,            \* signers that have a SignerKey at first
  SignerOps, RequestOps, MaxFaults \* bounds of the two modules

VARIABLES
  up,               \* the operator process is running
  \* The ImageSigner reconciler, its pods (in the operator's namespace), and
  \* what it sees.
  sPods, sPodCache, sMinted, signers, signerCache, rootKeys, rootKeyCache,
  sQueue, sWorker, sRev, sOps, sFaults,
  \* The ImageSignRequest reconciler, its pods (in the requests' namespace),
  \* and what it sees; rMinted: the keys its pods generated, and root keys
  \* that came out in a SignerKey.
  rPods, rPodCache, rMinted, requests, reqCache, signerKeys, keyCache,
  rQueue, rWorker, repos, signatures, rRev, rOps, rFaults

sWorld == <<sPods, sPodCache, sMinted, signers, signerCache, rootKeys, rootKeyCache,
            sRev, sOps, sFaults>>
rWorld == <<rPods, rPodCache, requests, reqCache, repos, signatures, rRev, rOps, rFaults>>
rKeys  == <<signerKeys, keyCache, rMinted>>
vars == <<up, sWorld, sQueue, sWorker, rWorld, rKeys, rQueue, rWorker>>

S == INSTANCE RootKey WITH
       pods <- sPods, podCache <- sPodCache, minted <- sMinted,
       imageSigners <- signers, signerKeys <- rootKeys, keyCache <- rootKeyCache,
       queue <- sQueue, w <- sWorker, rev <- sRev, ops <- sOps, faults <- sFaults,
       PodNames <- SignerPods, MaxOps <- SignerOps

Exists(objects) == {s \in Signers : objects[s] # None}

\* SignerKeys whose owner, by uid, is gone.
Orphans == {s \in Exists(rootKeys) :
              signers[s] = None \/ signers[s].uid # rootKeys[s].owner}

R == INSTANCE SignRequest WITH
       pods <- rPods, podCache <- rPodCache, minted <- rMinted,
       imageSigners <- Exists(signers), signerCache <- Exists(signerCache),
       orphans <- Orphans,
       queue <- rQueue, w <- rWorker, rev <- rRev, ops <- rOps, faults <- rFaults,
       KeyShapes <- {"absent", "nil"}, DeletableSigners <- Signers,
       PodNames <- RequestPods, MaxOps <- RequestOps

\* What the two modules assume of their constants, and that there are keys.
ASSUME SystemAssumption ==
  /\ MaxRetryCount \in Nat \ {0} /\ FreshNames \in BOOLEAN
  /\ {SignerOps, RequestOps, MaxFaults} \subseteq Nat
  /\ RegistryFound \subseteq BOOLEAN
  /\ Keyed \subseteq Signers /\ KeyIds # {}
  /\ None \notin KeyIds \cup Passes \cup S!Phases \cup S!TrustKey
  /\ None \notin S!Pod
  /\ None \notin Signers \cup SignerPods \cup S!KeyState \cup S!ImageSigner \cup S!SignerKey
  /\ None \notin Requests \cup RequestPods \cup R!Answers \cup R!SignerKey
                 \cup R!StartKey \cup R!Repo
  /\ None \notin R!Request
  /\ Nil # None
  /\ Nil \notin [Targets -> S!TrustKey \cup {None}]

TypeOK == S!TypeOK /\ R!TypeOK

\* ImageSigners were created before the operator was started; those in Keyed
\* had an operator before, which made their SignerKeys.
Init ==
  /\ signers = [s \in Signers |-> [uid |-> 0, rv |-> 0, keyState |-> None]]
  /\ \E id \in [Keyed -> KeyIds], p \in Passes :
       /\ \A s1, s2 \in Keyed : s1 # s2 => id[s1] # id[s2]
       /\ rootKeys = [s \in Signers |->
            IF s \in Keyed THEN [root |-> [id |-> id[s], enc |-> p, pass |-> p], owner |-> 0]
                           ELSE None]
       /\ sMinted = {id[s] : s \in Keyed}
  /\ rMinted = sMinted
  /\ signerKeys = [s \in Signers |->
       IF s \in Keyed THEN [root |-> rootKeys[s].root, targets |-> Nil] ELSE None]
  /\ sPods = [n \in SignerPods |-> None] /\ sPodCache = sPods
  /\ signerCache = signers
  /\ rootKeyCache = [s \in Signers |-> None] /\ keyCache = rootKeyCache
  /\ sQueue = Signers /\ sWorker = S!Idle
  /\ sRev = 0 /\ sOps = 0 /\ sFaults = 0
  /\ rPods = [n \in RequestPods |-> None] /\ rPodCache = rPods
  /\ requests = [r \in Requests |-> None] /\ reqCache = requests
  /\ rQueue = {} /\ rWorker = R!Idle
  /\ repos = [t \in Targets |-> None] /\ signatures = {}
  /\ rRev = 0 /\ rOps = 0 /\ rFaults = 0
  /\ up = TRUE

----------------------------------------------------------------------------
\* The signers' side takes a step.

\* What a request sees of it: a SignerKey comes with a root key and no
\* targets field, which users may give it (GiveTargets), and goes with its
\* targets.
KeysReflected ==
  /\ signerKeys' = [s \in Signers |->
       IF rootKeys'[s] = rootKeys[s] THEN signerKeys[s]
       ELSE IF rootKeys'[s] = None THEN None
       ELSE [root |-> rootKeys'[s].root, targets |-> Nil]]
  /\ rMinted' = rMinted \cup {rootKeys'[s].root.id : s \in Exists(rootKeys)'}

\* Random key ids do not meet those the other side drew.
SignerSide(Step) ==
  /\ Step
  /\ sMinted' \cap rMinted \subseteq sMinted
  /\ KeysReflected
  /\ UNCHANGED <<keyCache, rWorld, rQueue, rWorker>>

SignerAttempt == SignerSide(S!Attempt)
TakeSigner(s) == SignerSide(S!Take(s))
SignerEvent(s) == SignerSide(S!SyncSigner(s))
SignerResync == SignerSide(S!Resync)
SignerPodEvent(n) == SignerSide(S!PodEvent(n))
CollectKey(s) == SignerSide(S!CollectKey(s))
UsersOfSigners ==
  \/ \E n \in SignerPods : SignerSide(S!PodStarts(n) \/ S!PodLost(n))
  \/ \E s \in Signers : SignerSide(S!CreateSigner(s) \/ S!EditSigner(s) \/ S!DeleteSigner(s))

----------------------------------------------------------------------------
\* The requests' side takes a step.  A panic ends the process, and the other
\* worker's attempt with it, without its deferred calls.
RequestSide(Step) ==
  /\ UNCHANGED sWorld
  /\ Step
  /\ rMinted' \cap sMinted \subseteq rMinted
  /\ IF up' THEN UNCHANGED <<sQueue, sWorker>>
            ELSE sQueue' = {} /\ sWorker' = S!Idle

RequestAttempt == RequestSide(R!Attempt)
TakeRequest(r) == RequestSide(R!Take(r))
RequestEvent(r) == RequestSide(R!SyncRequest(r))
RequestResync == RequestSide(R!Resync)
RequestPodEvent(n) == RequestSide(R!PodEvent(n))
UsersOfRequests ==
  \/ \E n \in RequestPods : RequestSide(R!PodStarts(n) \/ R!PodLost(n))
  \/ \E r \in Requests : RequestSide(R!CreateRequest(r) \/ R!EditRequest(r) \/ R!DeleteRequest(r))
  \/ \E s \in Signers : RequestSide(R!GiveTargets(s))

----------------------------------------------------------------------------
\* The process, and the SignerKey informer both reconcilers read through.
Crash == S!Crash /\ R!Crash

Restart == UNCHANGED sWorld /\ S!Restart /\ R!Restart

KeyEvent(s) ==
  /\ rootKeyCache[s] # rootKeys[s] \/ keyCache[s] # signerKeys[s]
  /\ rootKeyCache' = [rootKeyCache EXCEPT ![s] = rootKeys[s]]
  /\ keyCache' = [keyCache EXCEPT ![s] = signerKeys[s]]
  /\ UNCHANGED <<up, sPods, sPodCache, sMinted, signers, signerCache, rootKeys, sRev, sOps,
                 sFaults, sQueue, sWorker, rWorld, signerKeys, rMinted, rQueue, rWorker>>

Next ==
  \/ SignerAttempt \/ SignerResync \/ UsersOfSigners
  \/ RequestAttempt \/ RequestResync \/ UsersOfRequests
  \/ \E s \in Signers : TakeSigner(s) \/ SignerEvent(s) \/ CollectKey(s) \/ KeyEvent(s)
  \/ \E r \in Requests : TakeRequest(r) \/ RequestEvent(r)
  \/ \E n \in SignerPods : SignerPodEvent(n)
  \/ \E n \in RequestPods : RequestPodEvent(n)
  \/ Crash \/ Restart

Spec == Init /\ [][Next]_vars

----------------------------------------------------------------------------
\* Properties.

\* What SignRequest assumes of its environment is what the other reconciler,
\* users and the garbage collector do: every behavior of the operator is one
\* of SignRequest, whose theorems hold of it.  In particular a SignerKey that
\* exists keeps its root key and its targets while the root key of another
\* attempt is made, and a new one has a root key nobody has seen.
RequestsSpec == R!Spec

\* A panic of the ImageSignRequest worker leaves the privileged pod of the
\* ImageSigner worker behind, which no deferred Close deletes.  With requests
\* that name a Registry it panics at most once per repository, at its first
\* signature: pods left behind are faults or such panics.
SignerPodsAccounted ==
  Cardinality({n \in SignerPods :
                 sPods[n] # None /\ ~(sWorker.pod = n /\ sWorker.pc # "report")})
    <= sFaults + Cardinality({t \in Targets : repos[t] # None})
=============================================================================
