------------------------------ MODULE DindPod ------------------------------
(***************************************************************************)
(* The docker-in-docker pod a SigningController starts for one attempt,    *)
(* runs its docker commands in, and deletes when the attempt is over, and  *)
(* the informer cache through which the operator sees it.                  *)
(*                                                                         *)
(* Both reconcilers use it: ImageSigner to generate a root key,            *)
(* ImageSignRequest to sign an image.  The operations come from            *)
(* internal/schemes/dind_pod_scheme.go and pkg/controller/; the kubelet,   *)
(* the watch and the docker client are external.                           *)
(***************************************************************************)
EXTENDS Naturals, FiniteSets

CONSTANTS
  PodNames,       \* names RandomString may draw for a pod
  KeyIds,         \* ids of generated private keys
  Passes,         \* passphrases RandomString may draw
  MaxRetryCount,  \* polls Start makes before it gives up (60 in the code)
  FreshNames,     \* RandomString never draws a name twice
  None            \* no object, no entry, no value

VARIABLES
  pods,      \* pods[n]: the pod named n at the API server, or None
  podCache,  \* podCache[n]: the phase the operator's cache shows, or None
  minted     \* ids of the keys docker has generated so far

podVars == <<pods, podCache, minted>>

Roles == {"root", "target"}

\* A private key file: its role header, its id (the file's name) and the
\* passphrase it is encrypted with.
KeyFile == [role: Roles, id: KeyIds, enc: Passes]

\* A TrustKey of a SignerKey: the file's id and content, and the passphrase
\* recorded next to them.
TrustKey == [id: KeyIds, enc: Passes, pass: Passes]

\* What Start holds for a role: a recorded key, or a passphrase only.
StartKey == [id: KeyIds \cup {None}, enc: Passes \cup {None}, pass: Passes]

Phases == {"Pending", "Running"}

Pod == [phase: Phases,
        env:   [root: Passes, target: Passes \cup {None}],
        files: SUBSET KeyFile]

ASSUME PodAssumption ==
  /\ MaxRetryCount \in Nat \ {0}
  /\ FreshNames \in BOOLEAN
  /\ None \notin KeyIds \cup Passes \cup Phases
  /\ None \notin TrustKey
  /\ None \notin Pod

PodTypeOK ==
  /\ pods \in [PodNames -> Pod \cup {None}]
  /\ podCache \in [PodNames -> Phases \cup {None}]
  /\ minted \in SUBSET KeyIds

PodInit ==
  /\ pods = [n \in PodNames |-> None]
  /\ podCache = [n \in PodNames |-> None]
  /\ minted = {}

----------------------------------------------------------------------------
\* The files addEnvAndCmd has the PostStart hook store for one trust key: a
\* key without an id and content leaves only its passphrase in the env.
StoredFile(role, key) ==
  IF key.id = None THEN {} ELSE {[role |-> role, id |-> key.id, enc |-> key.enc]}

NewDindPod(env, files) == [phase |-> "Pending", env |-> env, files |-> files]

\* Mutant: the role is not looked at.
ReadAnyKey(pod, role, phrase) ==
  {[id |-> f.id, enc |-> f.enc, pass |-> phrase] : f \in pod.files}

\* readTrustKey: the file whose text names the role.  A pod never has two files
\* of one role (its hook stores the recorded ones, docker makes one it lacks),
\* so the order in which `ls` lists them does not matter.  Empty when no file
\* has the role.
ReadTrustKey(pod, role, phrase) ==
  {[id |-> f.id, enc |-> f.enc, pass |-> phrase] :
     f \in {g \in pod.files : g.role = role}}

\* A file of the pod opens with the passphrase in the pod's environment.
Opens(pod, role, id) ==
  \E f \in pod.files : f.role = role /\ f.id = id /\ f.enc = pod.env[role]

\* docker generates a key of the role: a fresh id, encrypted with the
\* passphrase of the role's environment variable.
Generate(n, role, id) ==
  /\ id \in KeyIds \ minted
  /\ minted' = minted \cup {id}
  /\ pods' = [pods EXCEPT ![n].files =
                @ \cup {[role |-> role, id |-> id, enc |-> pods[n].env[role]]}]

\* The name RandomString(10) drew has no pod.
NameIsFree(n) == pods[n] = None /\ (FreshNames => podCache[n] = None)

PodCreated(n, pod) ==
  /\ pods[n] = None
  /\ pods' = [pods EXCEPT ![n] = pod]

\* Mutant: the loop runs once too often.
PollsOnceMore(tries) == tries < MaxRetryCount

\* Start's polling loop has a pass left.
PollsAgain(tries) == tries + 1 < MaxRetryCount

\* ExecCmd needs a running pod.
PodRuns(n) == pods[n] # None /\ pods[n].phase = "Running"

\* Close: delete whatever pod has the name; NotFound is ignored by callers.
PodDeleted(n) == pods' = [pods EXCEPT ![n] = None]

----------------------------------------------------------------------------
\* The kubelet reports the container (and its PostStart hook) as started.
KubeletRuns(n) ==
  /\ pods[n] # None
  /\ pods[n].phase = "Pending"
  /\ pods' = [pods EXCEPT ![n].phase = "Running"]
  /\ UNCHANGED <<podCache, minted>>

PhaseOf(pod) == IF pod = None THEN None ELSE pod.phase

\* The watch delivers the pod's latest state to the operator's cache.
SyncPod(n) ==
  /\ podCache[n] # PhaseOf(pods[n])
  /\ podCache' = [podCache EXCEPT ![n] = PhaseOf(pods[n])]
  /\ UNCHANGED <<pods, minted>>
=============================================================================
