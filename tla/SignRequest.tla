---------------------------- MODULE SignRequest ----------------------------
(***************************************************************************)
(* The ImageSignRequest reconciler of controllers/, with the               *)
(* SigningController it drives (pkg/controller/): fetch the request and    *)
(* its signer's keys from the informer caches, start a dind pod, sign the  *)
(* image, record a new target key in the SignerKey, delete the pod, write  *)
(* the response.                                                           *)
(*                                                                         *)
(* One worker runs the reconciler (MaxConcurrentReconciles is left at 1).  *)
(* Every API call and every docker command that changes something others   *)
(* can see is a step of its own, so users, the cache, the kubelet and the  *)
(* garbage collector interleave with it; the operator may crash between    *)
(* any two steps, and a panic of the reconciler ends the process too.      *)
(***************************************************************************)
EXTENDS DindPod

CONSTANTS
  Requests,          \* names of ImageSignRequests
  Signers,           \* names of ImageSigners, and of their SignerKeys
  Targets,           \* target names: namespace/registry/image
  Nil,               \* the nil map Go reads for an absent "targets" field
  KeyShapes,         \* how SignerKeys may look at first: "absent" (still to
                     \* be created), "nil" (as CreateRootKey writes them),
                     \* "map" (a user gave them a targets field)
  RegistryFound,     \* whether requests may name a Registry that exists
  DeletableSigners,  \* ImageSigners users may delete
  MaxOps,            \* bound: what users create, edit and delete
  MaxFaults          \* bound: crashes, failed calls and lost pods

VARIABLES
  requests,     \* requests[r]: the ImageSignRequest at the API server, or None
  reqCache,     \* the operator's cached copy of it
  imageSigners, \* ImageSigners that exist
  orphans,      \* SignerKeys whose owner, an earlier ImageSigner, was deleted
  signerCache,  \* ... and those in the operator's cache
  signerKeys,   \* signerKeys[s]: the SignerKey at the API server, or None
  keyCache,     \* the operator's cached copy of it
  queue,        \* the workqueue: request names waiting for the worker
  w,            \* the worker: its place in Reconcile and its locals
  up,           \* the operator process is running
  repos,        \* repos[t]: the keys the notary bound the repository to, or None
  signatures,   \* uids of the requests whose image was signed
  rev,          \* the API server's last revision
  ops, faults   \* used up of MaxOps and MaxFaults

apiVars  == <<requests, imageSigners, orphans, signerKeys, rev>>
viewVars == <<reqCache, signerCache, keyCache>>
notary   == <<repos, signatures>>
vars == <<podVars, apiVars, viewVars, notary, queue, w, up, ops, faults>>

Answers == {"Success", "Fail"}

\* registry: RegistryLogin names a Registry that exists, so NewRegCtl is not nil.
Request == [uid: Nat, rv: Nat, signer: Signers, target: Targets,
            registry: BOOLEAN, response: Answers \cup {None}]

TargetMap == [Targets -> TrustKey \cup {None}] \cup {Nil}

SignerKey == [root: TrustKey, targets: TargetMap]

Repo == [root: KeyIds, target: KeyIds]

Steps == {"idle", "getSigner", "getKey", "create", "poll", "load", "sign",
          "readKey", "patch", "close", "respond"}

Worker == [pc: Steps, name: Requests \cup {None}, obj: Request \cup {None},
           key: SignerKey \cup {None}, tkey: StartKey \cup {None},
           added: BOOLEAN, pod: PodNames \cup {None}, tries: 0..(MaxRetryCount - 1),
           answer: Answers \cup {None}, panics: BOOLEAN]

Idle == [pc |-> "idle", name |-> None, obj |-> None, key |-> None,
         tkey |-> None, added |-> FALSE, pod |-> None, tries |-> 0,
         answer |-> None, panics |-> FALSE]

ASSUME RequestAssumption ==
  /\ MaxOps \in Nat /\ MaxFaults \in Nat
  /\ KeyShapes \subseteq {"absent", "nil", "map"}
  /\ RegistryFound \subseteq BOOLEAN
  /\ DeletableSigners \subseteq Signers
  /\ None \notin Requests \cup PodNames \cup Answers \cup SignerKey
                 \cup StartKey \cup Repo
  /\ None \notin Request
  /\ Nil # None
  /\ Nil \notin [Targets -> TrustKey \cup {None}]

TypeOK ==
  /\ PodTypeOK
  /\ requests \in [Requests -> Request \cup {None}]
  /\ reqCache \in [Requests -> Request \cup {None}]
  /\ imageSigners \in SUBSET Signers
  /\ orphans \in SUBSET Signers
  /\ signerCache \in SUBSET Signers
  /\ signerKeys \in [Signers -> SignerKey \cup {None}]
  /\ keyCache \in [Signers -> SignerKey \cup {None}]
  /\ queue \in SUBSET Requests
  /\ w \in Worker
  /\ up \in BOOLEAN
  /\ repos \in [Targets -> Repo \cup {None}]
  /\ signatures \in SUBSET Nat
  /\ rev \in Nat
  /\ ops \in 0..MaxOps
  /\ faults \in 0..MaxFaults

----------------------------------------------------------------------------
EmptyMap == [t \in Targets |-> None]

InitialKey(shape, id, p) ==
  IF shape = "absent" THEN None
  ELSE [root    |-> [id |-> id, enc |-> p, pass |-> p],
        targets |-> IF shape = "nil" THEN Nil ELSE EmptyMap]

Init ==
  /\ pods = [n \in PodNames |-> None]
  /\ podCache = [n \in PodNames |-> None]
  /\ requests = [r \in Requests |-> None]
  /\ reqCache = [r \in Requests |-> None]
  /\ imageSigners = Signers
  /\ orphans = {}
  /\ signerCache \in SUBSET Signers
  /\ \E shape \in [Signers -> KeyShapes], rootId \in [Signers -> KeyIds], p \in Passes :
       /\ \A s1, s2 \in {x \in Signers : shape[x] # "absent"} :
            s1 # s2 => rootId[s1] # rootId[s2]
       /\ signerKeys = [s \in Signers |-> InitialKey(shape[s], rootId[s], p)]
       /\ minted = {rootId[s] : s \in {x \in Signers : shape[x] # "absent"}}
  /\ keyCache = [s \in Signers |-> None]
  /\ queue = {}
  /\ w = Idle
  /\ up = TRUE
  /\ repos = [t \in Targets |-> None]
  /\ signatures = {}
  /\ rev = 0 /\ ops = 0 /\ faults = 0

\* A failed call, a crash or a lost pod: at most MaxFaults of them in a behavior.
Fault == faults < MaxFaults /\ faults' = faults + 1
NoFault == UNCHANGED faults

----------------------------------------------------------------------------
\* The worker.

At(step) == up /\ w.pc = step

\* makeResponse(signReq, false, ...) and return: the deferred calls follow.
FailTo(step) == w' = [w EXCEPT !.pc = step, !.answer = "Fail"]

Signer == w.obj.signer
Target == w.obj.target

\* The request is gone, or answered already: nothing to do.
SkipRequest(r) ==
  /\ At("idle") /\ r \in queue
  /\ reqCache[r] # None => reqCache[r].response # None
  /\ queue' = queue \ {r}
  /\ NoFault
  /\ UNCHANGED <<podVars, apiVars, viewVars, notary, w, up, ops>>

GetSignRequest(r) ==
  /\ At("idle") /\ r \in queue
  /\ reqCache[r] # None
  /\ reqCache[r].response = None
  /\ queue' = queue \ {r}
  /\ w' = [w EXCEPT !.pc = "getSigner", !.name = r, !.obj = reqCache[r]]
  /\ NoFault
  /\ UNCHANGED <<podVars, apiVars, viewVars, notary, up, ops>>

GetSigner ==
  /\ At("getSigner")
  /\ IF Signer \in signerCache THEN w' = [w EXCEPT !.pc = "getKey"]
                               ELSE FailTo("respond")
  /\ NoFault
  /\ UNCHANGED <<podVars, apiVars, viewVars, notary, queue, up, ops>>

\* The target's recorded key, or none for a target that has none yet.
Recorded(key, t) == IF key.targets = Nil THEN None ELSE key.targets[t]

\* AssignNewTargetPass: a passphrase without a key.
NewTargetKey(p) == [id |-> None, enc |-> None, pass |-> p]

GetSignerKey ==
  /\ At("getKey")
  /\ LET key == keyCache[Signer] IN
       \/ key = None /\ FailTo("respond")
       \/ /\ key # None
          /\ Recorded(key, Target) # None
          /\ w' = [w EXCEPT !.pc = "create", !.key = key,
                            !.tkey = Recorded(key, Target)]
       \/ /\ key # None
          /\ Recorded(key, Target) = None
          /\ \E p \in Passes :
               w' = [w EXCEPT !.pc = "create", !.key = key,
                              !.tkey = NewTargetKey(p), !.added = TRUE]
  /\ NoFault
  /\ UNCHANGED <<podVars, apiVars, viewVars, notary, queue, up, ops>>

\* The pod Start builds from the two keys of its CommandOpt.
StartedPod ==
  NewDindPod([root |-> w.key.root.pass, target |-> w.tkey.pass],
             StoredFile("root", w.key.root) \cup StoredFile("target", w.tkey))

StartCreates(n) ==
  /\ At("create") /\ NameIsFree(n)
  /\ PodCreated(n, StartedPod)
  /\ w' = [w EXCEPT !.pc = "poll", !.pod = n]
  /\ NoFault
  /\ UNCHANGED <<podCache, minted, apiVars, viewVars, notary, queue, up, ops>>

\* AlreadyExists: Start returns nil with IsRunnging still false, so Reconcile
\* returns without a response and the deferred Close deletes the other pod.
StartFindsName(n) ==
  /\ At("create") /\ ~FreshNames
  /\ pods[n] # None
  /\ w' = [w EXCEPT !.pc = "close", !.pod = n]
  /\ NoFault
  /\ UNCHANGED <<podVars, apiVars, viewVars, notary, queue, up, ops>>

\* Create returns an error, whether or not the server made the pod.
StartFails(n) ==
  /\ At("create") /\ NameIsFree(n)
  /\ \/ UNCHANGED pods
     \/ PodCreated(n, StartedPod)
  /\ w' = [w EXCEPT !.pc = "close", !.pod = n, !.answer = "Fail"]
  /\ Fault
  /\ UNCHANGED <<podCache, minted, apiVars, viewVars, notary, queue, up, ops>>

\* Mutant: Start's error returns without a Close.
GivesUpUnclosed == FailTo("respond")

\* Start returned an error: Reconcile closes the pod and returns.
StartGivesUp == FailTo("close")

\* One pass of Start's polling loop: the cache may not have the pod yet, which
\* is an error, or may show it pending until the retries run out.
PollPod ==
  /\ At("poll")
  /\ \/ /\ podCache[w.pod] = None
        /\ StartGivesUp
     \/ /\ podCache[w.pod] = "Running"
        /\ w' = [w EXCEPT !.pc = "load"]
     \/ /\ podCache[w.pod] = "Pending"
        /\ IF PollsAgain(w.tries)
             THEN w' = [w EXCEPT !.tries = @ + 1]
             ELSE StartGivesUp
  /\ NoFault
  /\ UNCHANGED <<podVars, apiVars, viewVars, notary, queue, up, ops>>

\* NewRegCtl found the Registry the request names; otherwise it returned nil.
HasRegCtl == w.obj.registry

\* LoadImageTar, ListImageId, GetEndpoint, TagImage.  GetEndpoint dereferences
\* the RegCtl: with a nil one it panics, and the unwinding runs the deferred
\* Close and response.
LoadImage ==
  /\ At("load")
  /\ \/ FailTo("close")
     \/ /\ PodRuns(w.pod)
        /\ w' = IF HasRegCtl THEN [w EXCEPT !.pc = "sign"]
                             ELSE [w EXCEPT !.pc = "close", !.panics = TRUE]
  /\ NoFault
  /\ UNCHANGED <<podVars, apiVars, viewVars, notary, queue, up, ops>>

----------------------------------------------------------------------------
\* `docker trust sign`: the first signature of a repository generates its
\* target key and binds the repository to it; later ones need that key.

\* Mutant: the new key is never recorded.
AnswersAtOnce == w' = [w EXCEPT !.pc = "close", !.answer = "Success"]

\* SignImage succeeded: record a new target key, or be done.
AfterSign ==
  w' = IF w.added THEN [w EXCEPT !.pc = "readKey"]
                  ELSE [w EXCEPT !.pc = "close", !.answer = "Success"]

\* The command fails before it reaches the notary: no pod, wrong key, denied.
SignFails ==
  /\ At("sign")
  /\ FailTo("close")
  /\ NoFault
  /\ UNCHANGED <<podVars, apiVars, viewVars, notary, queue, up, ops>>

\* Published; the exec may still fail (a broken stream, a push that fails).
Published ==
  \/ /\ signatures' = signatures \cup {w.obj.uid}
     /\ AfterSign
     /\ NoFault
  \/ /\ signatures' \in {signatures, signatures \cup {w.obj.uid}}
     /\ FailTo("close")
     /\ Fault

SignFirst(k) ==
  /\ At("sign") /\ PodRuns(w.pod)
  /\ repos[Target] = None
  /\ Opens(pods[w.pod], "root", w.key.root.id)
  /\ Generate(w.pod, "target", k)
  /\ repos' = [repos EXCEPT ![Target] = [root |-> w.key.root.id, target |-> k]]
  /\ Published
  /\ UNCHANGED <<podCache, apiVars, viewVars, queue, up, ops>>

SignAgain ==
  /\ At("sign") /\ PodRuns(w.pod)
  /\ repos[Target] # None
  /\ Opens(pods[w.pod], "target", repos[Target].target)
  /\ Published
  /\ UNCHANGED <<podVars, apiVars, viewVars, repos, queue, up, ops>>

----------------------------------------------------------------------------
\* AddTargetKey: read the generated key back, put it in the snapshot's map,
\* patch the SignerKey with the difference.  Writing to a nil map panics.
ReadTargetKey ==
  /\ At("readKey")
  /\ \/ /\ IF pods[w.pod] = None THEN NoFault ELSE Fault
        /\ FailTo("close")
     \/ /\ pods[w.pod] # None
        /\ NoFault
        /\ \E k \in ReadTrustKey(pods[w.pod], "target", w.tkey.pass) :
             w' = IF w.key.targets = Nil
                    THEN [w EXCEPT !.pc = "close", !.panics = TRUE]
                    ELSE [w EXCEPT !.pc = "patch", !.tkey = k]
  /\ UNCHANGED <<podVars, apiVars, viewVars, notary, queue, up, ops>>

\* Mutant: an update that replaces the object with the changed snapshot.
OverwriteKey(key, t, k) ==
  [key EXCEPT !.targets = [w.key.targets EXCEPT ![t] = k]]

\* The merge patch MergeFrom computes sets this one entry, whatever the
\* object at the server holds by now.
MergePatch(key, t, k) ==
  [key EXCEPT !.targets = IF @ = Nil THEN [EmptyMap EXCEPT ![t] = k]
                                     ELSE [@ EXCEPT ![t] = k]]

PatchSignerKey ==
  /\ At("patch")
  /\ \/ /\ signerKeys[Signer] # None
        /\ signerKeys' = [signerKeys EXCEPT ![Signer] = MergePatch(@, Target, w.tkey)]
        /\ rev' = rev + 1
        /\ \/ NoFault /\ w' = [w EXCEPT !.pc = "close", !.answer = "Success"]
           \/ Fault /\ FailTo("close")
     \/ /\ \/ signerKeys[Signer] = None /\ NoFault
           \/ Fault
        /\ FailTo("close")
        /\ UNCHANGED <<signerKeys, rev>>
  /\ UNCHANGED <<podVars, requests, imageSigners, orphans, viewVars, notary, queue, up, ops>>

Close ==
  /\ At("close")
  /\ \/ NoFault /\ PodDeleted(w.pod)
     \/ Fault /\ UNCHANGED pods
  /\ w' = [w EXCEPT !.pc = "respond"]
  /\ UNCHANGED <<podCache, minted, apiVars, viewVars, notary, queue, up, ops>>

\* Mutant: an update without a resource version.
UncheckedUpdate(live, read) == live # None

\* response() updates with the object as it was read, resource version
\* included: if the object has changed since, the update is a conflict.
UpdateAccepted(live, read) == live # None /\ live.rv = read.rv

\* The deferred response(): Status().Update with the object as read.  Its
\* error is dropped, an update that changes nothing writes nothing, and
\* Reconcile returns without asking for a retry.
Respond ==
  /\ At("respond")
  /\ \/ /\ w.answer # None
        /\ UpdateAccepted(requests[w.name], w.obj)
        /\ requests' = [requests EXCEPT ![w.name] =
                          [w.obj EXCEPT !.response = w.answer, !.rv = rev + 1]]
        /\ rev' = rev + 1
        /\ NoFault
     \/ /\ \/ NoFault /\ (w.answer = None \/ ~UpdateAccepted(requests[w.name], w.obj))
           \/ Fault
        /\ UNCHANGED <<requests, rev>>
  /\ w' = Idle
  /\ up' = ~w.panics
  /\ queue' = IF w.panics THEN {} ELSE queue
  /\ UNCHANGED <<podVars, imageSigners, orphans, signerKeys, viewVars, notary, ops>>

----------------------------------------------------------------------------
\* The process, its caches and its queue.
Crash ==
  /\ up /\ Fault
  /\ up' = FALSE
  /\ w' = Idle
  /\ queue' = {}
  /\ UNCHANGED <<podVars, apiVars, viewVars, notary, ops>>

CachedRequests == {r \in Requests : reqCache[r] # None}

\* The new process lists the requests, possibly from a lagging API server, and
\* queues each of them.
Restart ==
  /\ ~up
  /\ up' = TRUE
  /\ queue' = CachedRequests
  /\ NoFault
  /\ UNCHANGED <<podVars, apiVars, viewVars, notary, w, ops>>

\* Mutant: a manager without a resync period.
NoResync == UNCHANGED vars

\* The periodic resync of the manager's informers: its options leave the
\* default period in place.
Resync ==
  /\ up
  /\ queue' = queue \cup CachedRequests
  /\ NoFault
  /\ UNCHANGED <<podVars, apiVars, viewVars, notary, w, up, ops>>

\* A watch event: the cache takes the latest version and the request is queued.
SyncRequest(r) ==
  /\ reqCache[r] # requests[r]
  /\ reqCache' = [reqCache EXCEPT ![r] = requests[r]]
  /\ queue' = IF up THEN queue \cup {r} ELSE queue
  /\ NoFault
  /\ UNCHANGED <<podVars, apiVars, signerCache, keyCache, notary, w, up, ops>>

SyncSigner(s) ==
  /\ (s \in signerCache) # (s \in imageSigners)
  /\ signerCache' = IF s \in imageSigners THEN signerCache \cup {s} ELSE signerCache \ {s}
  /\ NoFault
  /\ UNCHANGED <<podVars, apiVars, reqCache, keyCache, notary, queue, w, up, ops>>

SyncKey(s) ==
  /\ keyCache[s] # signerKeys[s]
  /\ keyCache' = [keyCache EXCEPT ![s] = signerKeys[s]]
  /\ NoFault
  /\ UNCHANGED <<podVars, apiVars, reqCache, signerCache, notary, queue, w, up, ops>>

----------------------------------------------------------------------------
\* Users, the garbage collector and the ImageSigner reconciler.
UserWrites(r, req) ==
  /\ ops < MaxOps
  /\ ops' = ops + 1
  /\ requests' = [requests EXCEPT ![r] = req]
  /\ rev' = rev + 1
  /\ NoFault
  /\ UNCHANGED <<podVars, imageSigners, orphans, signerKeys, viewVars, notary, queue, w, up>>

CreateRequest(r) ==
  /\ requests[r] = None
  /\ \E s \in Signers, t \in Targets, g \in RegistryFound :
       UserWrites(r, [uid |-> rev + 1, rv |-> rev + 1, signer |-> s, target |-> t,
                      registry |-> g, response |-> None])

\* An edit that leaves the spec alone: labels, annotations.
EditRequest(r) ==
  /\ requests[r] # None
  /\ UserWrites(r, [requests[r] EXCEPT !.rv = rev + 1])

DeleteRequest(r) ==
  /\ requests[r] # None
  /\ UserWrites(r, None)

DeleteSigner(s) ==
  /\ s \in imageSigners \cap DeletableSigners
  /\ imageSigners' = imageSigners \ {s}
  /\ orphans' = IF signerKeys[s] = None THEN orphans ELSE orphans \cup {s}
  /\ NoFault
  /\ UNCHANGED <<podVars, requests, signerKeys, rev, viewVars, notary, queue, w, up, ops>>

\* A user creates an ImageSigner of the same name again.
CreateSigner(s) ==
  /\ s \notin imageSigners
  /\ imageSigners' = imageSigners \cup {s}
  /\ NoFault
  /\ UNCHANGED <<podVars, requests, orphans, signerKeys, rev, viewVars, notary, queue, w, up, ops>>

\* The garbage collector removes the SignerKey of a deleted owner.
CollectKey(s) ==
  /\ s \in orphans
  /\ signerKeys' = [signerKeys EXCEPT ![s] = None]
  /\ orphans' = orphans \ {s}
  /\ NoFault
  /\ UNCHANGED <<podVars, requests, imageSigners, rev, viewVars, notary, queue, w, up, ops>>

\* The ImageSigner reconciler creates a SignerKey with a root key only; its
\* owner may have been deleted since that reconciler read it.
KeyAppears(s, k, p) ==
  /\ signerKeys[s] = None
  /\ \/ s \in imageSigners /\ UNCHANGED orphans
     \/ s \in DeletableSigners /\ orphans' = orphans \cup {s}
  /\ k \in KeyIds \ minted
  /\ minted' = minted \cup {k}
  /\ signerKeys' = [signerKeys EXCEPT ![s] = InitialKey("nil", k, p)]
  /\ NoFault
  /\ UNCHANGED <<pods, podCache, requests, imageSigners, rev, viewVars, notary,
                 queue, w, up, ops>>

\* A user gives a SignerKey the targets field createRootKey leaves out, empty.
GiveTargets(s) ==
  /\ signerKeys[s] # None
  /\ signerKeys[s].targets = Nil
  /\ signerKeys' = [signerKeys EXCEPT ![s].targets = EmptyMap]
  /\ NoFault
  /\ UNCHANGED <<podVars, requests, imageSigners, orphans, rev, viewVars, notary, queue, w, up, ops>>

\* A pod is evicted, or its node lost, with the keys it held.
PodLost(n) ==
  /\ pods[n] # None
  /\ PodDeleted(n)
  /\ Fault
  /\ UNCHANGED <<podCache, minted, apiVars, viewVars, notary, queue, w, up, ops>>

----------------------------------------------------------------------------
Attempt ==
  \/ GetSigner \/ GetSignerKey
  \/ \E n \in PodNames : StartCreates(n) \/ StartFindsName(n) \/ StartFails(n)
  \/ PollPod \/ LoadImage
  \/ SignFails \/ SignAgain \/ \E k \in KeyIds : SignFirst(k)
  \/ ReadTargetKey \/ PatchSignerKey
  \/ Close \/ Respond

Take(r) == SkipRequest(r) \/ GetSignRequest(r)

Elsewhere == UNCHANGED <<apiVars, viewVars, notary, queue, w, up, ops, faults>>

PodStarts(n) == KubeletRuns(n) /\ Elsewhere

PodEvent(n) == SyncPod(n) /\ Elsewhere

Environment ==
  \/ \E n \in PodNames : PodLost(n)
  \/ \E r \in Requests : CreateRequest(r) \/ EditRequest(r) \/ DeleteRequest(r)
  \/ \E s \in Signers : \/ DeleteSigner(s) \/ CreateSigner(s) \/ CollectKey(s) \/ GiveTargets(s)
                        \/ \E k \in KeyIds, p \in Passes : KeyAppears(s, k, p)

Next ==
  \/ Attempt
  \/ \E r \in Requests : Take(r) \/ SyncRequest(r)
  \/ \E s \in Signers : SyncSigner(s) \/ SyncKey(s)
  \/ Crash \/ Restart \/ Resync
  \/ \E n \in PodNames : PodStarts(n) \/ PodEvent(n)
  \/ Environment

Spec == Init /\ [][Next]_vars

\* The worker and the informers keep going, the workqueue reaches every
\* request in it, and a dead operator is restarted.  Nothing is assumed of
\* users, of the kubelet or of docker's success; a docker
\* command is assumed to return.
Fairness ==
  /\ WF_vars(Attempt)
  /\ WF_vars(Restart)
  /\ WF_vars(Resync)
  /\ \A n \in PodNames : WF_vars(PodEvent(n))
  /\ \A r \in Requests : WF_vars(SyncRequest(r)) /\ SF_vars(Take(r))

FairSpec == Spec /\ Fairness

----------------------------------------------------------------------------
\* Properties.

\* A target key recorded in a SignerKey is the key the notary bound that
\* repository to, and the passphrase next to it opens it: every later attempt
\* of the signer can sign with what is recorded, across crashes, lagging
\* caches and a SignerKey that was deleted and made again in between.
StoredKeyOpensRepo ==
  \A s \in Signers, t \in Targets :
    signerKeys[s] # None /\ Recorded(signerKeys[s], t) # None =>
      LET e == Recorded(signerKeys[s], t) IN
        /\ repos[t] # None
        /\ e.id = repos[t].target
        /\ e.enc = e.pass

\* A stored "Success" is backed by a signature for that very request, and the
\* repository's key is in the SignerKey the signature was made with, if that
\* still exists.
SuccessIsBacked ==
  \A r \in Requests :
    requests[r] # None /\ requests[r].response = "Success" =>
      LET t   == requests[r].target
          key == signerKeys[requests[r].signer]
      IN /\ requests[r].uid \in signatures
         /\ repos[t] # None
         /\ key # None /\ key.root.id = repos[t].root =>
              /\ Recorded(key, t) # None
              /\ Recorded(key, t).id = repos[t].target

\* A request is answered once: whatever a second attempt, started from a
\* lagging cache, comes to, the stored response stays.
ResponseFinal ==
  [][\A r \in Requests :
       /\ requests[r] # None /\ requests[r].response # None
       /\ requests'[r] # None
       => requests'[r].response = requests[r].response]_vars

\* Recording a target key never loses or changes another one, although the
\* patch is computed from a snapshot that other attempts may have outdated.
StoredKeysKept ==
  [][\A s \in Signers, t \in Targets :
       /\ signerKeys[s] # None /\ Recorded(signerKeys[s], t) # None
       /\ signerKeys'[s] # None
       => Recorded(signerKeys'[s], t) = Recorded(signerKeys[s], t)]_vars

\* The pod of the attempt in progress, up to its Close.
OwnPod(n) == w.pod = n /\ w.pc # "respond"

\* Privileged pods are not left behind: those that exist without an attempt
\* that will close them are at most as many as the crashes and failed calls;
\* a panic of the reconciler leaves none.
PodsAccounted ==
  Cardinality({n \in PodNames : pods[n] # None /\ ~OwnPod(n)}) <= faults

\* While no crash, failed call or lost pod happens, the private key of a
\* repository is not lost: it is recorded in a SignerKey or still in the pod of
\* the attempt that made it.
RepoKeyHeld ==
  \A t \in Targets :
    faults = 0 /\ repos[t] # None =>
      \/ \E s \in Signers :
           /\ signerKeys[s] # None /\ Recorded(signerKeys[s], t) # None
           /\ Recorded(signerKeys[s], t).id = repos[t].target
      \/ /\ w.pc \in {"readKey", "patch"} /\ w.obj.target = t
         /\ pods[w.pod] # None
         /\ \E f \in pods[w.pod].files : f.role = "target" /\ f.id = repos[t].target

\* Every request is answered, unless it is deleted first.
EventuallyAnswered ==
  \A r \in Requests :
    requests[r] # None /\ requests[r].response = None
      ~> requests[r] = None \/ requests[r].response # None
=============================================================================
