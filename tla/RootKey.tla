------------------------------ MODULE RootKey ------------------------------
(***************************************************************************)
(* The ImageSigner reconciler of controllers/, with the SigningController  *)
(* it drives (pkg/controller/): unless the signer reports its key as       *)
(* created or a SignerKey of its name exists, start a dind pod, generate a *)
(* root key in it, create the SignerKey, delete the pod, and write the     *)
(* signer's status.                                                        *)
(*                                                                         *)
(* As in SignRequest, one worker runs the reconciler and every call that   *)
(* others can see is a step of its own.  What the ImageSignRequest         *)
(* reconciler adds to a SignerKey, its targets, is not kept here.          *)
(***************************************************************************)
EXTENDS DindPod

CONSTANTS
  Signers,   \* names of ImageSigners, and of their SignerKeys
  MaxOps,    \* bound: what users create, edit and delete
  MaxFaults  \* bound: crashes, failed calls and lost pods

VARIABLES
  imageSigners, \* imageSigners[s]: the ImageSigner at the API server, or None
  signerCache,  \* the operator's cached copy of it
  signerKeys,   \* signerKeys[s]: the SignerKey at the API server, or None
  keyCache,     \* the operator's cached copy of it
  queue,        \* the workqueue: signer names waiting for the worker
  w,            \* the worker: its place in Reconcile and its locals
  up,           \* the operator process is running
  rev,          \* the API server's last revision
  ops, faults   \* used up of MaxOps and MaxFaults

apiVars  == <<imageSigners, signerKeys, rev>>
viewVars == <<signerCache, keyCache>>
vars == <<podVars, apiVars, viewVars, queue, w, up, ops, faults>>

\* SignerKeyState: makeSignerStatus fills in an id and a time of creation for
\* a created key only.
KeyState == [created: {TRUE}, rootKeyId: KeyIds]
            \cup [created: {FALSE}, rootKeyId: {None}]

ImageSigner == [uid: Nat, rv: Nat, keyState: KeyState \cup {None}]

\* owner: the uid of the ImageSigner in the owner reference.
SignerKey == [root: TrustKey, owner: Nat]

Steps == {"idle", "getKey", "create", "poll", "generate", "readKey",
          "createKey", "close", "report"}

Worker == [pc: Steps, name: Signers \cup {None}, obj: ImageSigner \cup {None},
           pass: Passes \cup {None}, pod: PodNames \cup {None},
           tries: 0..(MaxRetryCount - 1), key: TrustKey \cup {None},
           keyState: KeyState \cup {None}]

Idle == [pc |-> "idle", name |-> None, obj |-> None, pass |-> None, pod |-> None,
         tries |-> 0, key |-> None, keyState |-> None]

ASSUME RootKeyAssumption ==
  /\ MaxOps \in Nat /\ MaxFaults \in Nat
  /\ None \notin Signers \cup PodNames \cup KeyState \cup ImageSigner \cup SignerKey

TypeOK ==
  /\ PodTypeOK
  /\ imageSigners \in [Signers -> ImageSigner \cup {None}]
  /\ signerCache \in [Signers -> ImageSigner \cup {None}]
  /\ signerKeys \in [Signers -> SignerKey \cup {None}]
  /\ keyCache \in [Signers -> SignerKey \cup {None}]
  /\ queue \in SUBSET Signers
  /\ w \in Worker
  /\ up \in BOOLEAN
  /\ rev \in Nat
  /\ ops \in 0..MaxOps
  /\ faults \in 0..MaxFaults

Init ==
  /\ PodInit
  /\ imageSigners = [s \in Signers |-> None]
  /\ signerCache = [s \in Signers |-> None]
  /\ signerKeys = [s \in Signers |-> None]
  /\ keyCache = [s \in Signers |-> None]
  /\ queue = {}
  /\ w = Idle
  /\ up = TRUE
  /\ rev = 0 /\ ops = 0 /\ faults = 0

\* A failed call, a crash or a lost pod: at most MaxFaults of them in a behavior.
Fault == faults < MaxFaults /\ faults' = faults + 1
NoFault == UNCHANGED faults

----------------------------------------------------------------------------
\* The worker.

At(step) == up /\ w.pc = step

Failed == [created |-> FALSE, rootKeyId |-> None]

\* makeSignerStatus(signer, false, ...) and return: the deferred calls follow.
FailTo(step) == w' = [w EXCEPT !.pc = step, !.keyState = Failed]

HasCreated(signer) == signer.keyState # None /\ signer.keyState.created

\* The ImageSigner is gone, or its key reported as created: nothing to do.
SkipSigner(s) ==
  /\ At("idle") /\ s \in queue
  /\ signerCache[s] # None => HasCreated(signerCache[s])
  /\ queue' = queue \ {s}
  /\ NoFault
  /\ UNCHANGED <<podVars, apiVars, viewVars, w, up, ops>>

GetImageSigner(s) ==
  /\ At("idle") /\ s \in queue
  /\ signerCache[s] # None
  /\ ~HasCreated(signerCache[s])
  /\ queue' = queue \ {s}
  /\ w' = [w EXCEPT !.pc = "getKey", !.name = s, !.obj = signerCache[s],
                    !.keyState = signerCache[s].keyState]
  /\ NoFault
  /\ UNCHANGED <<podVars, apiVars, viewVars, up, ops>>

\* The SignerKey exists: return, and report the state as it was read.
\* Otherwise draw a passphrase for a new root key.
CheckKey ==
  /\ At("getKey")
  /\ IF keyCache[w.name] # None
       THEN w' = [w EXCEPT !.pc = "report"]
       ELSE \E p \in Passes : w' = [w EXCEPT !.pc = "create", !.pass = p]
  /\ NoFault
  /\ UNCHANGED <<podVars, apiVars, viewVars, queue, up, ops>>

StartedPod == NewDindPod([root |-> w.pass, target |-> None], {})

StartCreates(n) ==
  /\ At("create") /\ NameIsFree(n)
  /\ PodCreated(n, StartedPod)
  /\ w' = [w EXCEPT !.pc = "poll", !.pod = n]
  /\ NoFault
  /\ UNCHANGED <<podCache, minted, apiVars, viewVars, queue, up, ops>>

\* Mutant: the pod that has the name is used.
AdoptsPod(n) == w' = [w EXCEPT !.pc = "generate", !.pod = n]

\* AlreadyExists: Start returns nil with IsRunnging still false.
FindsNotRunning(n) == w' = [w EXCEPT !.pc = "close", !.pod = n, !.keyState = Failed]

StartFindsName(n) ==
  /\ At("create") /\ ~FreshNames
  /\ pods[n] # None
  /\ FindsNotRunning(n)
  /\ NoFault
  /\ UNCHANGED <<podVars, apiVars, viewVars, queue, up, ops>>

\* Create returns an error, whether or not the server made the pod.
StartFails(n) ==
  /\ At("create") /\ NameIsFree(n)
  /\ \/ UNCHANGED pods
     \/ PodCreated(n, StartedPod)
  /\ w' = [w EXCEPT !.pc = "close", !.pod = n, !.keyState = Failed]
  /\ Fault
  /\ UNCHANGED <<podCache, minted, apiVars, viewVars, queue, up, ops>>

\* Mutant: Start's error returns without a Close.
GivesUpUnclosed == FailTo("report")

StartGivesUp == FailTo("close")

PollPod ==
  /\ At("poll")
  /\ \/ /\ podCache[w.pod] = None
        /\ StartGivesUp
     \/ /\ podCache[w.pod] = "Running"
        /\ w' = [w EXCEPT !.pc = "generate"]
     \/ /\ podCache[w.pod] = "Pending"
        /\ IF PollsAgain(w.tries)
             THEN w' = [w EXCEPT !.tries = @ + 1]
             ELSE StartGivesUp
  /\ NoFault
  /\ UNCHANGED <<podVars, apiVars, viewVars, queue, up, ops>>

\* `docker trust key generate root`; the exec may fail after it.
GenerateRoot(k) ==
  /\ At("generate") /\ PodRuns(w.pod)
  /\ Generate(w.pod, "root", k)
  /\ \/ NoFault /\ w' = [w EXCEPT !.pc = "readKey"]
     \/ Fault /\ FailTo("close")
  /\ UNCHANGED <<podCache, apiVars, viewVars, queue, up, ops>>

\* No pod to exec in, or docker fails.
GenerateFails ==
  /\ At("generate")
  /\ FailTo("close")
  /\ NoFault
  /\ UNCHANGED <<podVars, apiVars, viewVars, queue, up, ops>>

ReadRootKey ==
  /\ At("readKey")
  /\ \/ /\ IF pods[w.pod] = None THEN NoFault ELSE Fault
        /\ FailTo("close")
     \/ /\ pods[w.pod] # None
        /\ NoFault
        /\ \E k \in ReadTrustKey(pods[w.pod], "root", w.pass) :
             w' = [w EXCEPT !.pc = "createKey", !.key = k]
  /\ UNCHANGED <<podVars, apiVars, viewVars, queue, up, ops>>

\* Mutant: an existing SignerKey is replaced.
ReplacesKey(s) == s \in Signers

\* createRootKey creates, never updates: it is refused if the SignerKey exists, seen in the cache or not.
KeyIsNew(s) == signerKeys[s] = None

\* createRootKey, and what CreateRootKey's caller makes of it.
CreateSignerKey ==
  /\ At("createKey")
  /\ \/ /\ KeyIsNew(w.name)
        /\ signerKeys' = [signerKeys EXCEPT ![w.name] =
                            [root |-> w.key, owner |-> w.obj.uid]]
        /\ rev' = rev + 1
        /\ \/ /\ NoFault
              /\ w' = [w EXCEPT !.pc = "close",
                                !.keyState = [created |-> TRUE, rootKeyId |-> w.key.id]]
           \/ Fault /\ FailTo("close")
     \/ /\ \/ NoFault /\ ~KeyIsNew(w.name)
           \/ Fault
        /\ FailTo("close")
        /\ UNCHANGED <<signerKeys, rev>>
  /\ UNCHANGED <<podVars, imageSigners, viewVars, queue, up, ops>>

Close ==
  /\ At("close")
  /\ \/ NoFault /\ PodDeleted(w.pod)
     \/ Fault /\ UNCHANGED pods
  /\ w' = [w EXCEPT !.pc = "report"]
  /\ UNCHANGED <<podCache, minted, apiVars, viewVars, queue, up, ops>>

\* Mutant: an update without a resource version.
UncheckedUpdate(live, read) == live # None

\* updateSignerStatus updates with the object as it was read, resource version
\* included.
UpdateAccepted(live, read) == live # None /\ live.rv = read.rv

\* The CRD requires createdAt to be a string; the zero time of a state that is
\* not created is encoded as null, and the API server rejects the update.
Conforms(keyState) == keyState.created

\* The deferred updateSignerStatus: its error is dropped, an update that
\* changes nothing writes nothing, and no retry is asked for.
Report ==
  /\ At("report")
  /\ LET stored == /\ w.keyState # w.obj.keyState /\ Conforms(w.keyState)
                   /\ UpdateAccepted(imageSigners[w.name], w.obj)
     IN \/ /\ stored
           /\ imageSigners' = [imageSigners EXCEPT ![w.name].keyState = w.keyState,
                                                   ![w.name].rv = rev + 1]
           /\ rev' = rev + 1
           /\ NoFault
        \/ /\ IF stored THEN Fault ELSE NoFault
           /\ UNCHANGED <<imageSigners, rev>>
  /\ w' = Idle
  /\ UNCHANGED <<podVars, signerKeys, viewVars, queue, up, ops>>

----------------------------------------------------------------------------
\* The process, its caches and its queue.
Crash ==
  /\ up /\ Fault
  /\ up' = FALSE
  /\ w' = Idle
  /\ queue' = {}
  /\ UNCHANGED <<podVars, apiVars, viewVars, ops>>

CachedSigners == {s \in Signers : signerCache[s] # None}

Restart ==
  /\ ~up
  /\ up' = TRUE
  /\ queue' = CachedSigners
  /\ NoFault
  /\ UNCHANGED <<podVars, apiVars, viewVars, w, ops>>

\* Mutant: a manager without a resync period.
NoResync == UNCHANGED vars

\* The periodic resync of the manager's informers.
Resync ==
  /\ up
  /\ queue' = queue \cup CachedSigners
  /\ NoFault
  /\ UNCHANGED <<podVars, apiVars, viewVars, w, up, ops>>

SyncSigner(s) ==
  /\ signerCache[s] # imageSigners[s]
  /\ signerCache' = [signerCache EXCEPT ![s] = imageSigners[s]]
  /\ queue' = IF up THEN queue \cup {s} ELSE queue
  /\ NoFault
  /\ UNCHANGED <<podVars, apiVars, keyCache, w, up, ops>>

\* An event of a SignerKey queues nothing: Owns looks for a controller
\* reference, and createRootKey sets a plain owner reference.
SyncKey(s) ==
  /\ keyCache[s] # signerKeys[s]
  /\ keyCache' = [keyCache EXCEPT ![s] = signerKeys[s]]
  /\ NoFault
  /\ UNCHANGED <<podVars, apiVars, signerCache, queue, w, up, ops>>

----------------------------------------------------------------------------
\* Users and the garbage collector.
UserWrites(s, signer) ==
  /\ ops < MaxOps
  /\ ops' = ops + 1
  /\ imageSigners' = [imageSigners EXCEPT ![s] = signer]
  /\ rev' = rev + 1
  /\ NoFault
  /\ UNCHANGED <<podVars, signerKeys, viewVars, queue, w, up>>

CreateSigner(s) ==
  /\ imageSigners[s] = None
  /\ UserWrites(s, [uid |-> rev + 1, rv |-> rev + 1, keyState |-> None])

EditSigner(s) ==
  /\ imageSigners[s] # None
  /\ UserWrites(s, [imageSigners[s] EXCEPT !.rv = rev + 1])

DeleteSigner(s) ==
  /\ imageSigners[s] # None
  /\ UserWrites(s, None)

\* The garbage collector removes a SignerKey whose owner is gone, even if
\* another ImageSigner has its name by now.
CollectKey(s) ==
  /\ signerKeys[s] # None
  /\ imageSigners[s] # None => imageSigners[s].uid # signerKeys[s].owner
  /\ signerKeys' = [signerKeys EXCEPT ![s] = None]
  /\ NoFault
  /\ UNCHANGED <<podVars, imageSigners, rev, viewVars, queue, w, up, ops>>

\* A pod is evicted, or its node lost.
PodLost(n) ==
  /\ pods[n] # None
  /\ PodDeleted(n)
  /\ Fault
  /\ UNCHANGED <<podCache, minted, apiVars, viewVars, queue, w, up, ops>>

----------------------------------------------------------------------------
Attempt ==
  \/ CheckKey
  \/ \E n \in PodNames : StartCreates(n) \/ StartFindsName(n) \/ StartFails(n)
  \/ PollPod
  \/ GenerateFails \/ \E k \in KeyIds : GenerateRoot(k)
  \/ ReadRootKey \/ CreateSignerKey
  \/ Close \/ Report

Take(s) == SkipSigner(s) \/ GetImageSigner(s)

Elsewhere == UNCHANGED <<apiVars, viewVars, queue, w, up, ops, faults>>

PodStarts(n) == KubeletRuns(n) /\ Elsewhere

PodEvent(n) == SyncPod(n) /\ Elsewhere

Next ==
  \/ Attempt
  \/ \E s \in Signers : Take(s) \/ SyncSigner(s) \/ SyncKey(s)
  \/ Crash \/ Restart \/ Resync
  \/ \E n \in PodNames : PodStarts(n) \/ PodEvent(n) \/ PodLost(n)
  \/ \E s \in Signers : CreateSigner(s) \/ EditSigner(s) \/ DeleteSigner(s) \/ CollectKey(s)

Spec == Init /\ [][Next]_vars

\* As in SignRequest: the worker, the informers and the workqueue keep going,
\* a dead operator is restarted, a docker command returns.  Nothing is
\* assumed of the kubelet, of docker's success or of users.
Fairness ==
  /\ WF_vars(Attempt)
  /\ WF_vars(Restart)
  /\ WF_vars(Resync)
  /\ \A n \in PodNames : WF_vars(PodEvent(n))
  /\ \A s \in Signers : /\ WF_vars(SyncSigner(s)) /\ WF_vars(SyncKey(s))
                        /\ SF_vars(Take(s))
                        /\ WF_vars(CollectKey(s))

FairSpec == Spec /\ Fairness

----------------------------------------------------------------------------
\* Properties.

\* An ImageSigner that reports its key as created has that very key: one with
\* the reported id that will not be collected, although the signer may be
\* deleted and made again, or edited, in the middle of an attempt.
CreatedMeansKey ==
  \A s \in Signers :
    imageSigners[s] # None /\ HasCreated(imageSigners[s]) =>
      /\ signerKeys[s] # None
      /\ signerKeys[s].owner = imageSigners[s].uid
      /\ signerKeys[s].root.id = imageSigners[s].keyState.rootKeyId

\* The passphrase stored next to a root key opens it, also when pods of
\* earlier attempts were left behind.
RootKeyOpens ==
  \A s \in Signers :
    signerKeys[s] # None => signerKeys[s].root.enc = signerKeys[s].root.pass

\* A root key is never replaced while its SignerKey exists: whoever signed
\* with it still can, although attempts may repeat.
RootKeyKept ==
  [][\A s \in Signers :
       signerKeys[s] # None /\ signerKeys'[s] # None =>
         signerKeys'[s].root = signerKeys[s].root]_vars

\* Privileged pods that no attempt in progress will close are at most as many
\* as the crashes and failed calls.
PodsAccounted ==
  Cardinality({n \in PodNames :
                 pods[n] # None /\ ~(w.pod = n /\ w.pc # "report")}) <= faults

\* No failure, crash or deletion ends the attempts: an ImageSigner is sooner
\* or later tried again, until it reports its key or a key of its name is seen.
KeepsTrying ==
  \A s \in Signers :
    []<>(\/ imageSigners[s] = None
         \/ HasCreated(imageSigners[s])
         \/ keyCache[s] # None
         \/ w.name = s /\ w.pc = "create")

\* An ImageSigner whose SignerKey was created reports it, unless one of the
\* two is deleted first.
KeyReported ==
  \A s \in Signers :
    /\ imageSigners[s] # None /\ signerKeys[s] # None
    /\ signerKeys[s].owner = imageSigners[s].uid
    ~> \/ imageSigners[s] = None \/ signerKeys[s] = None
       \/ HasCreated(imageSigners[s])
=============================================================================
