# Verification of the image-signing operator

TLA+ models of the tmax-cloud image-signing operator (`src/`), TLC
configurations that check them on small instances, and TLAPS proofs of the
safety properties of both reconcilers, the key API, the API server's boot and the
target names. The models are written from the Go code; line numbers below refer
to the files under `src/`. The map from definitions to lines is in
`PROJECT.json`.

## 1. Inventory

One operator process runs two controller-runtime reconcilers and an extension
API server (`main.go:48-105`).

| Part | Source | State it keeps | Operations |
|---|---|---|---|
| ImageSignRequest reconciler | `controllers/imagesignrequest_controller.go`, `controllers/status.go` | none of its own between calls; a snapshot of the request, its ImageSigner and its SignerKey during one | `Reconcile`: read request, signer and key from the informer caches, start a pod, sign, record a new target key, close, answer |
| ImageSigner reconciler | `controllers/imagesigner_controller.go`, `controllers/status.go` | the same | `Reconcile`: unless a key exists, start a pod, generate a root key, create the SignerKey, close, write the status |
| SigningController, KubeCommander | `pkg/controller/` | the pod's name, whether it is running | `Start`, `Close`, `readTrustKey`, `CreateRootKey`, `AddTargetKey`, `SignImage`, docker commands by `ExecCmd` |
| dind pod | `internal/schemes/dind_pod_scheme.go` | phase, environment (passphrases), private key files | created, run by the kubelet (a PostStart hook stores recorded keys), deleted |
| RegCtl | `pkg/registry/registry.go` | a Registry, or nothing | `NewRegCtl`, `GetEndpoint` |
| Names and passphrases | `pkg/trust/trust.go`, `internal/utils/rand.go`, `internal/utils/image.go` | none | random passphrases and pod names, image and target names |
| Custom resources | `api/v1/`, `config/crd/bases/` | ImageSigner, SignerKey, ImageSignRequest, Registry at the Kubernetes API server | resource versions, status subresources, owner references |
| Key API | `pkg/apiserver/apis/v1/` | two clients, set at start | access review, then the SignerKey as JSON |
| API server boot | `pkg/apiserver/server.go`, `pkg/apiserver/cert.go` | certificate files, the APIService's CABundle | make certificates, publish the CA, serve |
| Router wrapper | `internal/wrapper/wrapper.go` | a tree of sub-paths | `Add`, `FullPath`, the list of paths |
| Client helpers, generated code, test scaffold | `internal/utils/k8s.go`, `api/v1/zz_generated.deepcopy.go`, `controllers/suite_test.go` | none | - |

How they interact. Users create ImageSigners and ImageSignRequests. The ImageSigner
reconciler makes a SignerKey of the signer's name, with a root key. The
ImageSignRequest reconciler signs with it; the first signature of a repository
makes docker generate a target key and bind the repository, at the notary, to
it and to the root key. `AddTargetKey` copies that key out of the pod into the
SignerKey; without it nobody can sign that repository again. Both reconcilers
read through informer caches and write to the API server.

What is hard here:

* **Stale reads.** Every `Get` may return an old version, also of a pod that
  was created a moment ago.
* **No retries.** `Reconcile` never returns an error, and the deferred
  status updates drop theirs. What is lost is tried again by a later event, a
  restart, or the resync.
* **One copy of a key.** Between `docker trust sign` and the patch the
  repository's key is in the pod, which a crash, a panic or a failure deletes
  or abandons.
* **Snapshots.** The SignerKey is read before the pod starts and patched a
  minute later; it may have changed, or have been deleted and made again.
* **Panics.** A panic of a reconciler runs its own deferred calls and ends the
  process, the other reconciler's attempt with it.
* **Privileged pods** that nothing else deletes.
* **Two processes at once** during a rolling update, each with an authority of
  its own that it publishes in the one APIService.
* **Names kept apart by hand.** Routes, the URL form `Authorize` documents and the
  discovery list describe one URL three times; a target name and the repository
  it stands for are built from different fields of a Registry.

What makes each part correct: for the ImageSignRequest reconciler, that an answer
is true, final and eventually given, that recorded keys open their repositories
and are never lost; for the ImageSigner reconciler, that a reported key exists, is
never replaced, and is reported; for the SigningController, that keys and
passphrases stay paired and pods are not left behind; for the two together, that
each is the environment the other was verified in; for the key API, that what
is returned is what was asked for and reviewed; for the boot, that a server
is trusted until a later one is published; for the names, that a
recorded key is of one repository. The hazards, each at its line, and the properties that cover
them are in `PROJECT.json`.

## 2. Modules

| Module | Models |
|---|---|
| `DindPod` | the pod, its key files and environment, the pod cache, key generation, and what both reconcilers ask of a pod |
| `SignRequest` | the ImageSignRequest reconciler with its environment; its properties |
| `SignRequestInv` | the inductive invariant `IInv` of `SignRequest`, in named parts |
| `SignRequest_proofs` | the proof that `IInv` is invariant, and the theorems that follow |
| `SignRequestPods_proofs` | the proofs of its `PodsAccounted` and `RepoKeyHeld` |
| `SigningContract` | abstract: what the ImageSignRequest reconciler promises its users |
| `SignRequestContract` | the refinement mapping from `SignRequest` to `SigningContract` |
| `SignRequestContract_proofs` | the proof that `SignRequest` implements `SigningContract` |
| `RootKey` | the ImageSigner reconciler with its environment; its properties |
| `RootKey_proofs` | its inductive invariant `RootInv`, and the theorems that follow |
| `SigningSystem` | both reconcilers in one process, over one set of ImageSigners and SignerKeys |
| `SigningSystem_proofs` | the proof that it implements `SignRequest`, its inductive invariant `SysInv`, and the theorems that follow |
| `Router` | the tree of sub-paths and the routes it registers |
| `KeysApi` | one request to the key API, while keys and permissions change |
| `KeysApi_proofs` | its routes, its inductive invariant `ApiInv`, and the theorems that follow |
| `ServerBoot` | processes that make certificates, publish their authority and serve |
| `ServerBoot_proofs` | its inductive invariant `BootInv`, and the theorems that follow |
| `Names` | image names, target names and endpoints of two requests |
| `Names_proofs` | lemmas on sequences and the separators in them, and the theorems that follow |
| `MCSignRequest`, `MCContract`, `MCRootKey`, `MCSigningSystem` | symmetry sets for TLC |

`SignRequest` and `RootKey` extend `DindPod`; `SignRequestInv` extends
`SignRequest`, and `SignRequestContract` extends that and instantiates
`SigningContract`. `SigningSystem` instantiates `RootKey` as `S` and `SignRequest`
as `R`. `KeysApi` extends `Router`.

### State and actions

A reconciler is one worker `w` (`MaxConcurrentReconciles` is 1): `w.pc` is the
place in `Reconcile`, the other fields are its locals. Each API call or docker
command that changes what others see is one action; local computation is part
of the action before or after it. `answer`/`keyState` is the status object the
deferred call will write, so a return is a jump to `close` (when the deferred
`Close` is armed) or to `respond`/`report`.

`SignRequest`:

| Action | Code |
|---|---|
| `SkipRequest`, `GetSignRequest` | `imagesignrequest_controller.go:50-60` |
| `GetSigner`, `GetSignerKey` | `:62-94`; the second also chooses the target key or a new passphrase |
| `StartCreates`, `StartFindsName`, `StartFails`, `PollPod` | `controller.go:58-115` |
| `LoadImage` | `controller.go:225-252`: load, list, endpoint, tag; panics without a registry |
| `SignFails`, `SignFirst`, `SignAgain` | `docker trust sign`: repository unbound or bound |
| `ReadTargetKey`, `PatchSignerKey` | `AddTargetKey`, `controller.go:187-205`; panics on a nil map |
| `Close`, `Respond` | `controller.go:117-124`, `status.go:32-38` |
| `Crash`, `Restart`, `Resync`, `SyncRequest`, `SyncSigner`, `SyncKey`, `PodStarts`, `PodEvent` | process, caches, workqueue, kubelet |
| `CreateRequest`, `EditRequest`, `DeleteRequest`, `CreateSigner`, `DeleteSigner`, `GiveTargets`, `CollectKey`, `KeyAppears`, `PodLost` | users, garbage collector, the other reconciler, lost nodes |

`RootKey` has the same shape: `SkipSigner`, `GetImageSigner`, `CheckKey`,
`Start*`, `PollPod`, `GenerateRoot`/`GenerateFails`, `ReadRootKey`,
`CreateSignerKey`, `Close`, `Report`. `Report` refuses a state without
`createdAt`, as the CRD makes the API server do, and an outdated one.

`SigningContract` has no pods, caches, worker or crashes. Its actions: `Ask`,
`Withdraw` (users), `KeyMade`, `KeyGone` (a SignerKey comes and goes), `Sign` (a
repository is bound once), `Record` (a SignerKey takes the key of a bound
repository), `Answer` (once, and Success only if earned), `Pass`.
`SignRequestContract` maps a request to its uid, signer, target and response, a
SignerKey to the ids it records, the revision to `clock`; everything else of
`SignRequest` is hidden. Of its actions, `SignFirst` and `SignAgain` are `Sign`,
`PatchSignerKey` is `Record`, `Respond` is `Answer`, and the rest are users', the
garbage collector's, or stutters.

`SigningSystem` conjoins steps: an action of `S` is taken together with what the
requests' side sees of it (`KeysReflected`: a SignerKey appears with its root key
and no targets, or goes with those it has), an action of `R` together with what its panic does to
the other worker. `Crash`, `Restart` and `KeyEvent` (one informer feeds both) are
steps of both. `SignRequest`'s environment actions `KeyAppears`, `CreateSigner`,
`DeleteSigner` and `CollectKey` are not used: `RequestsSpec` checks that what
`RootKey` and its users do are such steps. `GiveTargets`, by which a user gives a
SignerKey the `targets` field `createRootKey` leaves out, is used: after it, target
keys are recorded and requests answered with Success in the composition too.

| Module | Action | Code |
|---|---|---|
| `Router` | the five wrappers, `Add`, `FullPath` | `wrapper.go:24-70`, and the calls of `New`, `AddApis`, `AddV1Apis`, `AddSignerApis` |
| `KeysApi` | `Dispatch` | the router, `rootHandler`, `apisHandler`, `versionHandler` |
| | `Authorize`, `ReviewAccess` | `authorize.go:22-118` |
| | `SignerKeysHandler` | `signer.go:42-63` |
| | `ChangeKey`, `ChangeGrants` | reconcilers, users, RBAC |
| `ServerBoot` | `CreateCerts`, `GetService`, `UpdateService` | `server.go:35-71`, `cert.go:36-79` |
| | `Start`, `Dies` | `main.go:94-104`, `server.go:73-89`, `cert.go:81-115` |
| | `Restart`, `RollOut`, `Retire`, `EditService` | kubelet, Deployment, users |
| `Names` | `ParseName`, `ParseTag`, `BuildTargetName`, `GetEndpoint`, `Named` | `image.go:5`, `trust.go:39`, `registry.go:44`, `controller.go:225-252` |

Modelling choices that matter:

* A key is an id and the passphrase its file is encrypted with; a recorded
  `TrustKey` also has the passphrase stored next to it. So "the stored
  passphrase opens the stored key" can fail.
* The notary binds a repository once, to a root key and a target key, and
  checks a later signature against them. `docker` may fail before it changes
  anything in any state; it may also fail after publishing (a fault).
* A pod never has two key files of one role: its hook stores the recorded keys,
  and docker makes the one that is missing. So `ReadTrustKey` need not say which
  of several files comes first; that it tells roles apart is what is checked.
* `KeyAppears` gives a new SignerKey a fresh root key: that is `RootKey`'s
  `CreateSignerKey` as the other module sees it.
* A cache may be any number of versions behind, and takes the latest one when
  it moves. A restarted process starts from the cached versions, as a list
  served by a lagging API server would show them.
* The workqueue is a set of names: it does not hold a name twice.
* `AlreadyExists` leaves `IsRunnging` false, so `ImageSignRequest` returns with
  no answer and the deferred `Close` deletes whatever pod has the name.
* The route of a request is one of those that fit; no two of them differ in
  what they do. The route with a trailing slash after `keys` is registered and
  always refused, since `reviewAccess` counts the segments; a form refused with
  both 400 and 401 cannot reach that code through the router.
* `ServerBoot` has no readiness probe, as the Deployment has none: an old pod may
  be deleted before the new one serves. Leader election and the expiry of
  certificates are not part of it.
* `Names` has no actions: each initial state is two requests, each with the login
  URL of its Registry. Images are with or without a tag, a slash, and a
  registry's port; login URLs with or without a scheme and a port, or missing.
  What docker does with a reference is external: `docker trust sign` wants a tag
  (`Accepted`), and `Repository` is what the reference names.
* `FreshNames` says whether the ten random characters of a pod name may repeat.

## 3. Runs

Bounds: `MaxOps`, `SignerOps`, `RequestOps` (creations, edits and deletions by
users), `MaxFaults` (crashes, failed calls, lost pods), `MaxRetryCount` (60 in the
code; 1 or 2 here, as the loop does the same in every pass but the last), `KeyIds`
and `Passes` (the random draws), `PodNames`; `MaxChanges`, `MaxPods`, `MaxEdits`,
`MaxName` in the modules that have them. Resyncs, docker failures and
time-outs are not bounded, nor is cache lag but for this: in `system` and `system_recreated` the
informers of requests and ImageSigners are prompt, and in the second those of pods too
(`PromptObjects` and `PromptPods` of `MCSigningSystem`): they deliver a change before
anything else happens. Pod names, key ids and passphrases are
symmetric in the runs that check no liveness.

| Run | Checks | Instance |
|---|---|---|
| `recording` | `TypeOK`, `SuccessIsBacked`, `RepoKeyHeld`, `PodsAccounted`, `StoredKeysKept`, `ResponseFinal` | 1 signer, 2 targets, 2 pod names that may repeat, with and without a registry; 3 user steps, 1 fault |
| `recreated` | `StoredKeyOpensRepo`, `IInv`, `KeepsContract` | signer and key deleted and made again, with targets, 3 key ids, 2 passphrases, 2 user steps, no fault |
| `answered` | `EventuallyAnswered` | fair; 2 pod names that may repeat, 2 user steps, 1 fault, SignerKeys without targets |
| `nil_map` | `RepoKeyHeld` is violated | SignerKey as `createRootKey` writes it, no fault |
| `no_registry` | `EventuallyAnswered` is violated | fair; a request without a registry, no fault |
| `root_keys` | `TypeOK`, `CreatedMeansKey`, `RootKeyOpens`, `PodsAccounted`, `RootKeyKept`, `KeepsTrying` | fair; a pod name that may repeat, 2 passphrases, 2 keys, 3 user steps, 1 fault |
| `root_unreported` | `KeyReported` is violated | fair; one edit, no fault |
| `system` | `TypeOK`, `SignerPodsAccounted` | both workers; the signer's key is still to be made, 2 pods for it, 1 request, 1 fault on each side; the informers of SignerKeys and pods lag |
| `system_recreated` | `RequestsSpec` | both workers; a signer with its key is edited, deleted and made again, users give SignerKeys targets, 1 request, 3 key ids, a lagging SignerKey informer, no fault |
| `keys_api` | `TypeOK`, `AnswerReviewed`, `AnswerFresh`, `ListedPathsFound` | 2 keys, 1 user, 1 group, every prefix of a key's URL under two spellings of the kind, 2 changes, 1 fault |
| `boot` | `TypeOK`, `DistrustedMeansOvertaken`, `EditsKept`, `EventuallyServes` | fair; 2 pods, 1 edit, 2 faults |
| `names` | `OneRepositoryPerTarget` | all pairs of requests with names of one of 2 letters, one of them in the cutset |

Why the bounds are enough. A stale snapshot needs a second attempt for the same
name and one change in between; both fit in two or three user steps and
unbounded resyncs. Losing another target's key needs two targets of one
signer. A wrong passphrase needs two passphrases and a pod left behind by a
name that repeats or by one fault. A re-created SignerKey needs one deletion, a
new root key, and a snapshot of the old one; `recreated` and `system_recreated`
have no fault because deletions, stale caches and a panicking process already
interrupt an attempt anywhere, and `recording` adds the faults. Both have three key
ids: the first root key, that of the signer made again, and the target key of a
signature meet in one behavior, so that a target key is recorded in a SignerKey
whose root key is not the one the repository is bound to. SignerKeys
come with targets in `recreated`; those without are in `answered` and in the two runs
of the composition, where a user may give them. In both runs of the composition the SignerKeys' informer, the one the two workers share, may lag; that of
pods may lag in `system`, where it decides which pods are left behind. Every lag is
in the runs of each reconciler, and in the theorems about both. In
`KeysApi` one request is enough, as requests share nothing; two changes let a key
be deleted and made again between review and read. In `ServerBoot` one rolling
update is two pods, and two faults let each of them die once, or one die after
publishing and again before serving. In `Names` a host of one letter is
in the cutset or not, and a login URL may have nothing left of it; the theorem
has names of any length.

`keys_api` and `boot` do not check deadlock: a behavior of `KeysApi` is one
request, which ends; `ServerBoot` stops once the server runs and the bounds are
used up. `RepoKeyHeld` is claimed while no fault has occurred: a crash between
the first signature and the patch loses the key by the code's design.

Every property has a mutant of a mapped definition, a plausible bug, that its run
catches (`PROJECT.json`).

### What the violated runs show

They are quoted in `PROJECT.json`, "findings".

1. `nil_map`: SignerKeys are created without `targets`, and `AddTargetKey`
   writes to that nil map. The first signature for a signer publishes the image,
   panics, and the deferred `Close` deletes the only copy of the repository's
   key. The other runs on recorded keys have SignerKeys to which
   somebody gave a `targets` field, at first or by `GiveTargets`.
2. `no_registry`: without a Registry, `GetEndpoint` dereferences nil; the process
   restarts, takes the request again, and never answers.
3. `root_unreported`: one conflicting edit during the generation of a key, and
   `Created` is never reported, although the key exists.

### Deviations without a run of their own

They follow from one place of the code each; the models have them as the code
does, and the properties are stated so that they hold beside them.

* The state of a failed ImageSigner attempt has no `createdAt`, which the CRD
  requires, so its reason is never stored (`status.go:26`).
* `authorize.go:58,61` documents `/ImageSigner/...`, routes are registered under
  `imagesigners` (`apis.go:23`): the documented URL is not found.
* Discovery calls `imagesigners/keys` namespaced (`apis.go:75`); ImageSigners are
  cluster-scoped and the routes have no namespace.
* `getUserGroup` reads the user's header (`authorize.go:113`): a caller who may
  get a key only through a group is refused.
* `strings.TrimLeft(url, "https://")` removes characters, not a prefix
  (`registry.go:47`): a host that begins with h, t, p or s loses them, and the
  image goes to another host. `Names` has `TrimLeft` as it is; no property says what
  an endpoint must be, and `OneRepositoryPerTarget` holds whatever it is.
* `ParseImage` splits an image with a registry's port at the wrong colon
  (`image.go:10`), and gives an image without a tag an empty one: docker refuses
  both references, and the request fails. The target names of `host:5/x` and
  `host:5/y` are the same, without consequence as neither can be signed.
* Two Registries at one host give one repository two target names
  (`trust.go:40`). The second to sign it has no recorded key under its own name,
  and docker refuses the new one (`SignFails`). `OneRepositoryPerTarget` claims the
  other direction only, which is the one `SignRequest` relies on: its `repos` is
  indexed by target. It takes two requests at one time; when the login URL of a
  Registry is edited, its target names come to stand for other repositories.
* A request without a Registry that panics again and again also ends each
  attempt of the ImageSigner reconciler, and leaves its pods. `SigningSystem` is
  checked with requests that name a Registry.
* After a rolling update the newest server may stay distrusted: the older pod may
  restart, publish its own authority last, and be retired. `EventuallyServes`
  claims trust only while there was one pod.

### Fairness

`FairSpec` assumes that the worker takes its next step, that the workqueue
reaches each name in it (strong fairness, as a name may leave and enter the
queue), that a dead process is restarted (its Deployment), that the resync
period passes, and that watches deliver. It assumes nothing of users, of the
kubelet (a pod may never run; polling then ends by its bound), or of docker's
success. `RootKey` assumes the same. `ServerBoot` assumes that a booting process
takes its next step, that the kubelet restarts a dead container and that a
rolling update ends; it assumes nothing of crashes, edits or the next update,
which their bounds end. A docker command is assumed to return: `ExecCmd` has no deadline, and
a command that hangs blocks the only worker.

## 4. Proofs

For any constants that satisfy the named assumptions of the modules (no value is
its own "none", the bounds are numbers); the bounds play no role, so the theorems
hold for any `MaxOps`, `MaxFaults` and `MaxRetryCount`.

| Module | Theorem | States |
|---|---|---|
| `SignRequest_proofs` | `Invariance` | `Spec => []IInv` |
| | `TypeCorrect` | `Spec => []TypeOK` |
| | `RecordedKeysOpen` | `Spec => []StoredKeyOpensRepo` |
| | `SuccessBacked` | `Spec => []SuccessIsBacked` |
| | `AnswersFinal` | `Spec => ResponseFinal` |
| | `RecordedKeysKept` | `Spec => StoredKeysKept` |
| `SignRequestPods_proofs` | `PodsLeftByFaults` | `Spec => []PodsAccounted` |
| | `RepoKeysHeld` | `Spec => []RepoKeyHeld`, if SignerKeys have a `targets` field and are not deleted |
| `SignRequestContract_proofs` | `ContractKept` | `Spec => KeepsContract` |
| `RootKey_proofs` | `RootInvariance` | `Spec => []RootInv` |
| | `RootTypeCorrect` | `Spec => []TypeOK` |
| | `ReportedKeysExist` | `Spec => []CreatedMeansKey` |
| | `RootKeysOpen` | `Spec => []RootKeyOpens` |
| | `RootKeysKept` | `Spec => RootKeyKept` |
| | `PodsLeftByFaults` | `Spec => []PodsAccounted` |
| `SigningSystem_proofs` | `SystemInvariance` | `Spec => []SysInv` |
| | `RequestsRefined` | `Spec => RequestsSpec` |
| | `SystemTypeCorrect` | `Spec => []TypeOK` |
| | `SystemKeysHold` | `CreatedMeansKey`, `RootKeyOpens`, `StoredKeyOpensRepo`, `SuccessIsBacked` of the operator, with SignerKeys users give targets |
| | `SignerPodsLeft` | `Spec => []SignerPodsAccounted`, if requests name a Registry |
| `KeysApi_proofs` | `ApiInvariance` | `Spec => []ApiInv` |
| | `ApiTypeCorrect` | `Spec => []TypeOK` |
| | `KeysReviewed` | `Spec => []AnswerReviewed` |
| | `KeysFresh` | `Spec => []AnswerFresh` |
| | `ListedFound` | `Spec => []ListedPathsFound` |
| `ServerBoot_proofs` | `BootInvariance` | `Spec => []BootInv` |
| | `BootTypeCorrect` | `Spec => []TypeOK` |
| | `UsersEditsKept` | `Spec => EditsKept` |
| | `OnlyOvertakenDistrusted` | `Spec => []DistrustedMeansOvertaken` |
| `Names_proofs` | `TargetsNameOneRepository` | `Spec => []OneRepositoryPerTarget`; a Registry has one login URL |

### SignRequest

None of its properties is inductive. `StoredKeyOpensRepo` speaks of the
SignerKey at the server, but an attempt signs and patches with a copy that may be
any number of versions old. `IInv` therefore speaks of all `Copies(s)`: the
object, its cached version, and the worker's snapshot.

* `RootsMinted` and `EntriesOpen`: every copy has a root key that was generated,
  and every entry of every copy opens its repository. A re-created SignerKey
  has a fresh root key and no entries.
* `LiveKeepsEntries`: what a copy records, the SignerKey at the server still
  records, if it has the root key the repository is bound to. This is why a
  success made with an old copy is backed by the present object.
* `PodMatches`, `KeyInTransit`: what the pod and the worker hold between start
  and patch. After a first signature no copy has an entry for that target, so
  the patch cannot overwrite one.
* `Versions`: no version is ahead of the server's revision and two copies with
  the same version are equal, so an accepted status update was computed from
  the present, unanswered object.
* `WorkerShape`, `Successes`: the locals at each step, and a success in hand is
  as good as a stored one.

The step lemmas (`CopiesStep`, `ReposStep`, `LiveStep`, ...) carry each part
through every action; TLC checks `IInv` in the run `recreated`.

`PodsAccounted` adds `NoPodYet` (before an attempt names a pod it has none): a
step adds a pod to those left behind only if it is a failed `Close` or a crash,
and then one pod and one fault (`LeftPodsStep`); the library's theorems on finite
sets do the counting, and `PodNames` need not be finite.

`RepoKeyHeld` is strengthened to `Held`. While no fault has occurred, the pod of
an attempt that has started is there (`PodAlive`: only a panic, a crash or a lost
node removes it, and a panicking step ends the attempt with it). From the first
signature to the patch the key is in that pod; the patch merges it into the
object at the server, from which by `EntryKept` no later patch takes it. The theorem has two hypotheses, and the code needs both:
`KeyShapes = {"map"}`, since `AddTargetKey` panics on a SignerKey without targets
and the key goes with its pod (the run `nil_map`), and `DeletableSigners = {}`,
since a SignerKey goes with its ImageSigner.

### The contract

`ContractKept` shows that an initial state is one of `SigningContract` and that
each step is one of its actions or leaves its variables alone. The steps are
told apart by what they write (`Writers`). `IInv` gives what the contract demands of
`Answer` (Success is earned, by `Successes`; the request is still unanswered, by
`Versions`) and of `Record` (the entry opens the repository, and no copy has
another, by `KeyInTransit`). `UidsOld` is added to it: uids are drawn from the
revision and never used again, so a new request is not one that was signed.

### RootKey

`CreatedMeansKey` is not inductive: that the key exists when its creation is
reported follows from what happened since the SignerKey was created. `RootInv`
adds

* `Versions`: as in `SignRequest`, so that an accepted report writes into the
  very object the attempt read;
* `KeyInHand`: a created key that is still to be reported exists, unless its
  ImageSigner was deleted or has another uid by now; the collector takes only
  keys whose owner's uid is gone, and a signer made again has a new uid;
* `PodKeys`: the files of the attempt's pod are encrypted with the passphrase the
  attempt will store, from which `RootKeyOpens` follows;
* `WorkerShape`: the locals at each step.

### Both reconcilers

`RequestsRefined` maps each step of the operator to a step of `SignRequest` or a
stutter. Two things are needed beside the invariants of both modules, and make
up `SysInv` with them. `KeysLinked`: for every signer, the SignerKey a request
sees is there just when the other reconciler's is, and has its root key.
`KeyUnseen`: a root key that was generated and is not stored yet, in the files of
the pod or in the worker's hand, is one no request has seen, so that
`CreateSignerKey` is the `KeyAppears` of a fresh key that `SignRequest` assumes of
its environment. `SigningSystem_proofs` instantiates the two proof modules with
the mapping of `SigningSystem`, and shows that its assumption, `SystemAssumption`,
gives theirs: every theorem of `SignRequest` and `RootKey` carries over, and
`SystemKeysHold` states those about keys and successes. The proof showed that
`SignRequest`'s `Init` asked too much: root ids need to differ only between
signers that have a SignerKey.

`SignerPodsLeft` counts pods against faults and panics. A panic comes one step
after what causes it: the first signature of a repository on a SignerKey without
targets leads to the patch that panics. `Counted` therefore keeps a place for
the panic that is due (`Pending`), from the moment the repository is bound.
Its hypothesis `RegistryFound = {TRUE}` is not for convenience: a request without
a Registry panics at every attempt, and each may leave a pod of the other worker
(see the deviations of section 3).

### KeysApi

The router is built by the definitions that mirror its construction, so the
first lemmas compute the chain of wrappers and its routes: the two routes that
lead to the handler of keys are for GET and pass `signerWrapper`'s router, which
uses `Authorize` (`KeysRoute`), and each path `rootHandler` lists is the template of
a route (`ListedRoutes`). A path of six segments that such a route fits is the
URL of a SignerKey, and `mux.Vars` finds that key's name (`NameTaken`), which is
the name the review was about. `ApiInv` adds to the properties that the request
is still unanswered before its end (`Unanswered`: no early return is missing),
that it took the keys' route (`Routed`), and that from its review on, what the
SignerKey of its URL is now is in `window` (`Reviewed`).

### ServerBoot

`Reads` says that an APIService in hand is an older version or the present one, so
an accepted update was computed from what is there: no edit is taken back. With
`Bundle` (the CABundle is the authority published last, and whoever serves has
published its own), a server that is distrusted was overtaken.

### Names

Nothing happens in `Names`, so the theorem is a fact about the strings of any two
requests. `NamesAssumption` is that names have neither a colon nor a slash;
Kubernetes does not allow them either. A sequence then has only one beginning
before its first slash (`CutSlash`), so a target name gives the namespace, the
Registry and the image's name it was joined from (`TargetTells`), although the
latter may have slashes of its own. The Registry gives the login URL, by the
condition of `Init` that a Registry has one; nothing needs to be known of what
`TrimLeft` leaves of it. References that would name more than that, those of
images with a port, are not `Accepted`.

### What stays with TLC

The liveness properties (`EventuallyAnswered`, `KeepsTrying`, `EventuallyServes`):
fairness is outside the prover's reach. Every safety invariant and action
property of a run is also a theorem. `KeysApi` and `Router` are proved for the
wrappers the program builds, not for any tree of them.

## 5. Not modelled

* The Kubernetes client helpers (`internal/utils/k8s.go`, `internal/k8s/`): they
  build clients from a configuration and hold no state; what the code does
  through them is in the actions that call it. `exec.Stream` has no deadline: a
  command that hangs is outside the models, which assume that commands return.
* Generated code (`zz_generated.deepcopy.go`), scaffolding, `suite_test.go`.
* What makes Registries: this operator reads them and changes none.
* The text of keys and messages; volumes, secrets and login files of the pod;
  logging; the matching inside gorilla/mux beyond what `Fits` says.
* RBAC beyond a set of permissions per key, admission, leader election, the
  expiry of certificates, and the notary's internals.
* Both workers with unlimited panics: see the deviations above.

## 6. Plan

Done: `DindPod`, `SignRequest`, `RootKey`, `SigningSystem`, `SigningContract`,
`Router`, `KeysApi`, `ServerBoot`, `Names`; the proofs of section 4.

Left:

1. That `RootKey` promises its users what `SigningContract` does for
   `SignRequest`: an abstract specification of its own, and the refinement.
