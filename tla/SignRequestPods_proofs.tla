----------------------- MODULE SignRequestPods_proofs -----------------------
(***************************************************************************)
(* SignRequest: PodsAccounted and RepoKeyHeld, for any names, keys,        *)
(* passphrases and bounds.                                                 *)
(*                                                                         *)
(* A step leaves a pod behind only if it is a fault: until an attempt      *)
(* names a pod it has none (NoPodYet), and what it names it keeps until    *)
(* its Close.  The key of a repository is held by that pod from the first  *)
(* signature to the patch, and from the patch on by the SignerKey, which   *)
(* no copy that lacks it can overwrite (Held).                             *)
(***************************************************************************)
EXTENDS SignRequest_proofs, FiniteSetTheorems

NoPodYet == w.pc \in {"getSigner", "getKey", "create"} => w.pod = None

LeftPods == {n \in PodNames : pods[n] # None /\ ~OwnPod(n)}

\* Pods are not created by the step, and the worker keeps its pod.
LEMMA SamePod ==
  ASSUME \A n \in PodNames : pods'[n] # None => n = w.pod \/ pods[n] # None,
         w'.pod = w.pod, w'.pc # "respond"
  PROVE  LeftPods' \subseteq LeftPods
BY DEF LeftPods, OwnPod

LEMMA LeftPodsStep ==
  ASSUME IInv, NoPodYet, [Next]_vars
  PROVE  /\ NoPodYet'
         /\ \/ LeftPods' \subseteq LeftPods
            \/ faults' = faults + 1 /\ \E x : LeftPods' \subseteq LeftPods \cup {x}
<1>. DEFINE Shrinks == NoPodYet' /\ LeftPods' \subseteq LeftPods
<1>1. w \in Worker /\ PodTypeOK /\ None \notin PodNames
  BY RequestAssumption DEF IInv, TypeOK
<1>2. CASE pods' = pods /\ w' = w
  BY <1>2 DEF LeftPods, OwnPod, NoPodYet
<1>3. ASSUME NEW r \in Requests, GetSignRequest(r) PROVE Shrinks
  <2>1. w = Idle
    BY <1>3 DEF GetSignRequest, At, IInv, WorkerShape
  <2>2. pods' = pods /\ w'.pod = None /\ w'.pc = "getSigner"
    BY <1>1, <1>3, <2>1 DEF GetSignRequest, podVars, Worker, Idle
  <2>. QED
    BY <1>1, <2>1, <2>2 DEF LeftPods, OwnPod, NoPodYet, Idle
<1>4. ASSUME GetSigner \/ GetSignerKey PROVE Shrinks
  <2>1. pods' = pods /\ w.pod = None /\ w'.pod = None
    <3>1. CASE GetSigner
      BY <1>1, <3>1 DEF GetSigner, At, FailTo, podVars, Worker, NoPodYet
    <3>2. CASE GetSignerKey
      BY <1>1, <3>2 DEF GetSignerKey, At, FailTo, podVars, Worker, NoPodYet
    <3>. QED
      BY <1>4, <3>1, <3>2
  <2>. QED
    BY <1>1, <2>1 DEF LeftPods, OwnPod, NoPodYet
<1>5. ASSUME NEW n \in PodNames, StartCreates(n) \/ StartFindsName(n) \/ StartFails(n)
      PROVE  Shrinks
  <2>1. w'.pod = n /\ w'.pc \in {"poll", "close"}
    BY <1>1, <1>5 DEF StartCreates, StartFindsName, StartFails, Worker
  <2>2. \A m \in PodNames \ {n} : pods'[m] = pods[m]
    BY <1>1, <1>5 DEF StartCreates, StartFindsName, StartFails, PodCreated, podVars, PodTypeOK
  <2>3. \A m \in PodNames : w.pod # m
    BY <1>1, <1>5 DEF StartCreates, StartFindsName, StartFails, At, NoPodYet
  <2>. QED
    BY <2>1, <2>2, <2>3 DEF LeftPods, OwnPod, NoPodYet
<1>6. ASSUME PollPod \/ LoadImage \/ SignFails \/ SignAgain \/ ReadTargetKey \/ PatchSignerKey
      PROVE  Shrinks
  <2>1. pods' = pods
    BY <1>6 DEF PollPod, LoadImage, SignFails, SignAgain, ReadTargetKey, PatchSignerKey, podVars
  <2>2. SUFFICES w'.pod = w.pod /\ w'.pc \notin {"respond", "getSigner", "getKey", "create"}
    BY <2>1, SamePod DEF NoPodYet
  <2>3. CASE PollPod
    BY <1>1, <2>3 DEF PollPod, At, StartGivesUp, FailTo, Worker
  <2>4. CASE LoadImage
    BY <1>1, <2>4 DEF LoadImage, FailTo, Worker
  <2>5. CASE SignFails
    BY <1>1, <2>5 DEF SignFails, FailTo, Worker
  <2>6. CASE SignAgain
    BY <1>1, <2>6 DEF SignAgain, Published, AfterSign, FailTo, Worker
  <2>7. CASE ReadTargetKey
    BY <1>1, <2>7 DEF ReadTargetKey, FailTo, Worker
  <2>8. CASE PatchSignerKey
    BY <1>1, <2>8 DEF PatchSignerKey, FailTo, Worker
  <2>. QED
    BY <1>6, <2>3, <2>4, <2>5, <2>6, <2>7, <2>8
<1>7. ASSUME NEW k \in KeyIds, SignFirst(k) PROVE Shrinks
  <2>1. w'.pod = w.pod /\ w'.pc \notin {"respond", "getSigner", "getKey", "create"}
    BY <1>1, <1>7 DEF SignFirst, Published, AfterSign, FailTo, Worker
  <2>2. \A m \in PodNames \ {w.pod} : pods'[m] = pods[m]
    BY <1>1, <1>7 DEF SignFirst, Generate, PodTypeOK
  <2>. QED
    BY <2>1, <2>2, SamePod DEF NoPodYet
<1>8. CASE Close
  <2>1. \A m \in PodNames \ {w.pod} : pods'[m] = pods[m]
    BY <1>1, <1>8 DEF Close, PodDeleted, PodTypeOK
  <2>2. w.pod \in PodNames /\ w'.pc = "respond"
    BY <1>1, <1>8, Locals DEF Close, At, PodSteps, Worker
  <2>3. pods'[w.pod] = None \/ faults' = faults + 1
    BY <1>1, <1>8, <2>2 DEF Close, PodDeleted, PodTypeOK, Fault
  <2>. QED
    BY <2>1, <2>2, <2>3 DEF LeftPods, OwnPod, NoPodYet
<1>9. ASSUME Respond PROVE Shrinks
  BY <1>1, <1>9 DEF Respond, At, podVars, LeftPods, OwnPod, NoPodYet, Idle
<1>10. CASE Crash
  <2>1. pods' = pods /\ faults' = faults + 1 /\ w' = Idle
    BY <1>10 DEF Crash, Fault, podVars
  <2>2. LeftPods' \subseteq LeftPods \cup {w.pod}
    BY <2>1 DEF LeftPods, OwnPod
  <2>. QED
    BY <2>1, <2>2 DEF NoPodYet, Idle
<1>11. ASSUME NEW n \in PodNames, PodStarts(n) \/ PodLost(n) PROVE Shrinks
  <2>1. w' = w /\ \A m \in PodNames : pods'[m] # None => pods[m] # None
    BY <1>1, <1>11 DEF PodStarts, KubeletRuns, Elsewhere, PodLost, PodDeleted, PodTypeOK
  <2>. QED
    BY <2>1 DEF LeftPods, OwnPod, NoPodYet
<1>12. ASSUME NEW r \in Requests, SkipRequest(r) \/ SyncRequest(r)
       PROVE  pods' = pods /\ w' = w
  BY <1>12 DEF SkipRequest, SyncRequest, podVars
<1>13. ASSUME NEW r \in Requests, CreateRequest(r) \/ EditRequest(r) \/ DeleteRequest(r)
       PROVE  pods' = pods /\ w' = w
  BY <1>13 DEF CreateRequest, EditRequest, DeleteRequest, UserWrites, podVars
<1>14. ASSUME NEW s \in Signers,
              \/ SyncSigner(s) \/ SyncKey(s)
              \/ DeleteSigner(s) \/ CreateSigner(s) \/ CollectKey(s) \/ GiveTargets(s)
              \/ \E k \in KeyIds, p \in Passes : KeyAppears(s, k, p)
       PROVE  pods' = pods /\ w' = w
  BY <1>14 DEF SyncSigner, SyncKey, DeleteSigner, CreateSigner, CollectKey, KeyAppears,
                GiveTargets, podVars
<1>15. ASSUME Restart \/ Resync \/ UNCHANGED vars
       PROVE  pods' = pods /\ w' = w
  BY <1>15 DEF Restart, Resync, vars, podVars
<1>16. ASSUME NEW n \in PodNames, PodEvent(n)
       PROVE  pods' = pods /\ w' = w
  BY <1>16 DEF PodEvent, SyncPod, Elsewhere
<1>. HIDE DEF Shrinks
<1>17. Shrinks \/ Close \/ Crash \/ (pods' = pods /\ w' = w)
  <2>1. Attempt => Shrinks \/ Close
    BY Zenon, <1>4, <1>5, <1>6, <1>7, <1>9 DEF Attempt
  <2>2. Environment => Shrinks \/ (pods' = pods /\ w' = w)
    BY Zenon, <1>11, <1>13, <1>14 DEF Environment
  <2>. QED
    BY Zenon, <1>3, <1>11, <1>12, <1>14, <1>15, <1>16, <2>1, <2>2 DEF Next, Take
<1>. QED
  BY <1>2, <1>8, <1>10, <1>17 DEF Shrinks

\* Every privileged pod left running, that no attempt in progress will close,
\* is one that a crash or a failed call left; a panic leaves none.
THEOREM PodsLeftByFaults == Spec => []PodsAccounted
<1>. DEFINE Counted == NoPodYet /\ IsFiniteSet(LeftPods) /\ Cardinality(LeftPods) <= faults
<1>1. Init => Counted
  <2>1. Init => LeftPods = {} /\ faults = 0 /\ NoPodYet
    BY DEF Init, LeftPods, NoPodYet, Idle
  <2>. QED
    BY <2>1, FS_EmptySet
<1>2. IInv /\ Counted /\ [Next]_vars => Counted'
  <2>. SUFFICES ASSUME IInv, Counted, [Next]_vars PROVE Counted'
    OBVIOUS
  <2>1. faults \in Nat /\ (faults' = faults \/ faults' = faults + 1)
    <3>1. faults \in 0..MaxFaults /\ MaxFaults \in Nat
      BY RequestAssumption DEF IInv, TypeOK
    <3>2. faults' = faults \/ faults' = faults + 1
      BY BookkeepingMoves
    <3>. QED
      BY <3>1, <3>2
  <2>2. IsFiniteSet(LeftPods) /\ Cardinality(LeftPods) \in Nat
    BY FS_CardinalityType
  <2>3. NoPodYet'
    BY LeftPodsStep
  <2>4. CASE LeftPods' \subseteq LeftPods
    <3>1. IsFiniteSet(LeftPods') /\ Cardinality(LeftPods') <= Cardinality(LeftPods)
      BY <2>2, <2>4, FS_Subset
    <3>2. Cardinality(LeftPods') \in Nat
      BY <3>1, FS_CardinalityType
    <3>. QED
      BY <2>1, <2>2, <2>3, <3>1, <3>2
  <2>5. ASSUME faults' = faults + 1, NEW x, LeftPods' \subseteq LeftPods \cup {x}
        PROVE  Counted'
    <3>1. /\ IsFiniteSet(LeftPods \cup {x})
          /\ \/ Cardinality(LeftPods \cup {x}) = Cardinality(LeftPods)
             \/ Cardinality(LeftPods \cup {x}) = Cardinality(LeftPods) + 1
      BY Zenon, <2>2, FS_AddElement
    <3>2. /\ IsFiniteSet(LeftPods')
          /\ Cardinality(LeftPods') <= Cardinality(LeftPods \cup {x})
      BY <2>5, <3>1, FS_Subset
    <3>3. Cardinality(LeftPods') \in Nat /\ Cardinality(LeftPods \cup {x}) \in Nat
      BY <3>1, <3>2, FS_CardinalityType
    <3>. QED
      BY <2>1, <2>2, <2>3, <2>5, <3>1, <3>2, <3>3
  <2>. QED
    BY <2>4, <2>5, LeftPodsStep
<1>3. Counted => PodsAccounted
  BY DEF PodsAccounted, LeftPods
<1>. QED
  BY Invariance, <1>1, <1>2, <1>3, PTL DEF Spec

(***************************************************************************)
(* Panics.  Requests that name a Registry (Registered) bring the           *)
(* reconciler to a panic only between the first signature of a repository  *)
(* and its key's record; no repository is signed first twice.              *)
(***************************************************************************)
Registered ==
  /\ \A r \in Requests : /\ requests[r] # None => requests[r].registry
                         /\ reqCache[r] # None => reqCache[r].registry
  /\ w.pc # "idle" => w.obj.registry

\* The reconciler panics, or may at its next step.
Panicking == w.pc = "readKey" \/ w.panics

BoundTargets == {t \in Targets : repos[t] # None}

LEMMA RegisteredStep ==
  ASSUME IInv, Registered, [Next]_vars, RegistryFound = {TRUE}
  PROVE  Registered'
<1>1. /\ requests \in [Requests -> Request \cup {None}]
      /\ reqCache \in [Requests -> Request \cup {None}]
      /\ w \in Worker
  BY DEF IInv, TypeOK
<1>2. ASSUME NEW r \in Requests, requests'[r] # None PROVE requests'[r].registry
  <2>1. CASE requests'[r] = requests[r]
    BY <1>2, <2>1 DEF Registered
  <2>2. CASE Respond
    <3>1. w.obj \in Request /\ w.obj.registry
      BY <2>2, Locals DEF Respond, At, Registered
    <3>2. requests'[r] = requests[r]
             \/ requests'[r] = [w.obj EXCEPT !.response = w.answer, !.rv = rev + 1]
      BY <1>1, <2>2 DEF Respond
    <3>. QED
      BY <2>1, <3>1, <3>2 DEF Request
  <2>3. ASSUME NEW r2 \in Requests, CreateRequest(r2) \/ EditRequest(r2) \/ DeleteRequest(r2)
        PROVE  requests'[r].registry
    <3>1. CASE CreateRequest(r2)
      <4>1. PICK s \in Signers, t \in Targets, g \in RegistryFound :
              requests' = [requests EXCEPT ![r2] =
                [uid |-> rev + 1, rv |-> rev + 1, signer |-> s, target |-> t,
                 registry |-> g, response |-> None]]
        BY Zenon, <3>1 DEF CreateRequest, UserWrites
      <4>2. g = TRUE
        OBVIOUS
      <4>. QED
        BY <1>1, <1>2, <2>1, <4>1, <4>2
    <3>2. CASE EditRequest(r2)
      <4>1. requests[r2] # None
            /\ requests' = [requests EXCEPT ![r2] = [requests[r2] EXCEPT !.rv = rev + 1]]
        BY <3>2 DEF EditRequest, UserWrites
      <4>2. requests[r2] \in Request /\ requests[r2].registry
        BY <1>1, <4>1 DEF Registered
      <4>3. requests'[r] = requests[r] \/ requests'[r] = [requests[r2] EXCEPT !.rv = rev + 1]
        BY <1>1, <4>1
      <4>. QED
        BY <2>1, <4>2, <4>3 DEF Request
    <3>3. CASE DeleteRequest(r2)
      BY <1>1, <1>2, <2>1, <3>3 DEF DeleteRequest, UserWrites
    <3>. QED
      BY <2>3, <3>1, <3>2, <3>3
  <2>. QED
    BY <2>1, <2>2, <2>3, Writers
<1>3. ASSUME NEW r \in Requests, reqCache'[r] # None PROVE reqCache'[r].registry
  <2>1. reqCache'[r] = reqCache[r] \/ reqCache'[r] = requests[r]
    BY <1>1, Writers DEF SyncRequest
  <2>. QED
    BY <1>3, <2>1 DEF Registered
<1>4. ASSUME w'.pc # "idle" PROVE w'.obj.registry
  <2>1. CASE w' = w
    BY <1>4, <2>1 DEF Registered
  <2>2. CASE w' = Idle
    BY <1>4, <2>2 DEF Idle
  <2>3. ASSUME NEW r \in Requests, GetSignRequest(r) PROVE w'.obj.registry
    BY <1>1, <2>3 DEF GetSignRequest, Registered, Worker
  <2>4. CASE w.pc # "idle" /\ w'.obj = w.obj
    BY <2>4 DEF Registered
  <2>. QED
    BY <2>1, <2>2, <2>3, <2>4, AttemptMoves
<1>. QED
  BY <1>2, <1>3, <1>4 DEF Registered

LEMMA PanicStep ==
  ASSUME IInv, Registered, [Next]_vars
  PROVE  \/ BoundTargets' = BoundTargets /\ (Panicking' => Panicking)
         \/ \E t \in Targets \ BoundTargets : BoundTargets' = BoundTargets \cup {t}
<1>1. w \in Worker /\ repos \in [Targets -> Repo \cup {None}] /\ None \notin Repo
  BY RequestAssumption DEF IInv, TypeOK
<1>2. ASSUME NEW k \in KeyIds, SignFirst(k)
      PROVE  \E t \in Targets \ BoundTargets : BoundTargets' = BoundTargets \cup {t}
  <2>1. w.pc = "sign" /\ repos[Target] = None
        /\ repos' = [repos EXCEPT ![Target] = [root |-> w.key.root.id, target |-> k]]
    BY <1>2 DEF SignFirst, At
  <2>2. Target \in Targets /\ w.key.root.id \in KeyIds
    BY <2>1, Locals DEF KeyedSteps, SignerKey, TrustKey
  <2>3. repos'[Target] # None
    BY <1>1, <2>1, <2>2 DEF Repo
  <2>4. Target \in Targets \ BoundTargets /\ BoundTargets' = BoundTargets \cup {Target}
    BY <1>1, <2>1, <2>2, <2>3 DEF BoundTargets
  <2>. QED
    BY <2>4
<1>3. ASSUME ~ \E k \in KeyIds : SignFirst(k)
      PROVE  BoundTargets' = BoundTargets /\ (Panicking' => Panicking)
  <2>1. repos' = repos
    BY <1>3, Writers
  <2>. SUFFICES Panicking' => Panicking
    BY <2>1 DEF BoundTargets
  <2>2. CASE w' = w
    BY <2>2 DEF Panicking
  <2>3. CASE w' = Idle
    BY <2>3 DEF Panicking, Idle
  <2>4. ASSUME NEW r \in Requests, GetSignRequest(r) PROVE Panicking' => Panicking
    BY <1>1, <2>4 DEF GetSignRequest, Panicking, Worker
  <2>5. ASSUME GetSigner \/ SignFails \/ Close PROVE Panicking' => Panicking
    BY <1>1, <2>5 DEF GetSigner, SignFails, Close, FailTo, Panicking, Worker
  <2>6. ASSUME GetSignerKey PROVE Panicking' => Panicking
    BY <1>1, <2>6 DEF GetSignerKey, FailTo, Panicking, Worker
  <2>7. ASSUME NEW n \in PodNames, StartCreates(n) \/ StartFindsName(n) \/ StartFails(n)
        PROVE  Panicking' => Panicking
    BY <1>1, <2>7 DEF StartCreates, StartFindsName, StartFails, Panicking, Worker
  <2>8. ASSUME PollPod PROVE Panicking' => Panicking
    BY <1>1, <2>8 DEF PollPod, At, StartGivesUp, FailTo, Panicking, Worker
  <2>9. ASSUME LoadImage PROVE Panicking' => Panicking
    <3>1. HasRegCtl
      BY <2>9 DEF LoadImage, At, HasRegCtl, Registered
    <3>. QED
      BY <1>1, <2>9, <3>1 DEF LoadImage, FailTo, Panicking, Worker
  <2>10. ASSUME SignAgain PROVE Panicking' => Panicking
    <3>1. ~w.added
      BY <2>10, SignAgainEffect
    <3>. QED
      BY <1>1, <2>10, <3>1 DEF SignAgain, Published, AfterSign, FailTo, Panicking, Worker
  <2>11. ASSUME ReadTargetKey PROVE Panicking
    BY <2>11 DEF ReadTargetKey, At, Panicking
  <2>12. ASSUME PatchSignerKey PROVE Panicking' => Panicking
    BY <1>1, <2>12 DEF PatchSignerKey, FailTo, Panicking, Worker
  <2>. QED
    BY <1>3, <2>2, <2>3, <2>4, <2>5, <2>6, <2>7, <2>8, <2>9, <2>10, <2>11, <2>12, AttemptMoves
<1>. QED
  BY <1>2, <1>3

(***************************************************************************)
(* RepoKeyHeld, where every SignerKey has a targets field and no signer is *)
(* deleted: what docker generated is in the pod until AddTargetKey read    *)
(* it, and then in the SignerKey, unless something fails.                  *)
(***************************************************************************)
MapsKept ==
  /\ orphans = {}
  /\ \A s \in Signers : /\ signerKeys[s] # None
                        /\ \A key \in Copies(s) : key # None => key.targets # Nil

\* The attempt's pod is there, and with it what docker generated in it.
PodAlive ==
  w.pc \in {"poll", "load", "sign", "readKey", "patch"} => pods[w.pod] # None

Held == MapsKept /\ (faults = 0 => PodAlive /\ RepoKeyHeld)

LEMMA MapsKeptStep ==
  ASSUME IInv, MapsKept, [Next]_vars, DeletableSigners = {}
  PROVE  MapsKept'
<1>1. ASSUME NEW s \in Signers PROVE /\ ~CollectKey(s) /\ ~DeleteSigner(s) /\ ~GiveTargets(s)
                                     /\ \A k \in KeyIds, p \in Passes : ~KeyAppears(s, k, p)
  BY DEF MapsKept, Copies, CollectKey, DeleteSigner, KeyAppears, GiveTargets
<1>2. orphans' = {}
  <2>1. orphans' = orphans
    BY <1>1
       DEF Next, Attempt, Take, SkipRequest, GetSignRequest, GetSigner, GetSignerKey,
           StartCreates, StartFindsName, StartFails, PollPod, LoadImage, SignFails, SignAgain,
           SignFirst, ReadTargetKey, PatchSignerKey, Close, Respond, Crash, Restart, Resync,
           SyncRequest, SyncSigner, SyncKey, PodStarts, PodEvent, Elsewhere, Environment,
           CreateRequest, EditRequest, DeleteRequest, UserWrites, CreateSigner, PodLost, vars,
           apiVars
  <2>. QED
    BY <2>1 DEF MapsKept
<1>3. ASSUME NEW s \in Signers PROVE signerKeys'[s] # None
  <2>1. signerKeys \in [Signers -> SignerKey \cup {None}] /\ None \notin SignerKey
    BY RequestAssumption DEF IInv, TypeOK
  <2>2. CASE signerKeys' = signerKeys
    BY <2>2 DEF MapsKept
  <2>3. CASE PatchSignerKey
    <3>1. Signer \in Signers /\ Target \in Targets /\ w.tkey \in TrustKey
      BY <2>3, PatchEffect
    <3>2. ASSUME signerKeys[Signer] \in SignerKey
          PROVE  MergePatch(signerKeys[Signer], Target, w.tkey) # None
      BY <2>1, <3>1, <3>2, MergePatchType
    <3>. QED
      BY <2>1, <2>2, <2>3, <3>1, <3>2, PatchEffect DEF MapsKept
  <2>. QED
    BY <1>1, <2>2, <2>3, Writers
<1>4. ASSUME NEW s \in Signers, NEW key \in Copies(s)', key # None PROVE key.targets # Nil
  <2>1. CASE key \in Copies(s)
    BY <1>4, <2>1 DEF MapsKept
  <2>2. CASE PatchSignerKey /\ s = Signer /\ signerKeys[s] \in SignerKey
             /\ key = MergePatch(signerKeys[s], Target, w.tkey)
    <3>1. Target \in Targets /\ w.tkey \in TrustKey
      BY <2>2, PatchEffect
    <3>2. Recorded(key, Target) = w.tkey
      BY <2>2, <3>1, MergePatchType
    <3>3. Recorded(key, Target) # None
      BY <3>1, <3>2, PodAssumption
    <3>. QED
      BY <3>3 DEF Recorded
  <2>. QED
    BY <1>1, <1>4, <2>1, <2>2, CopiesStep
<1>. QED
  BY <1>2, <1>3, <1>4 DEF MapsKept

\* Without a fault, a pod goes by the attempt's Close only.
LEMMA PodStays ==
  ASSUME IInv, [Next]_vars, faults = 0, faults' = 0, NEW n \in PodNames, pods[n] # None
  PROVE  pods'[n] # None \/ Close
<1>1. pods \in [PodNames -> Pod \cup {None}] /\ None \notin Pod
  BY PodAssumption DEF IInv, TypeOK, PodTypeOK
<1>2. ~Fault
  BY DEF Fault
<1>3. ASSUME NEW x \in PodNames, StartCreates(x) \/ StartFails(x) PROVE pods'[n] = pods[n]
  BY <1>1, <1>3 DEF StartCreates, StartFails, PodCreated
<1>4. ASSUME NEW x \in PodNames, PodStarts(x) PROVE pods'[n] # None
  <2>1. pods[x] \in Pod /\ pods' = [pods EXCEPT ![x].phase = "Running"]
    BY <1>1, <1>4 DEF PodStarts, KubeletRuns
  <2>2. [pods[x] EXCEPT !.phase = "Running"] \in Pod
    BY <2>1 DEF Pod, Phases
  <2>. QED
    BY <1>1, <2>1, <2>2
<1>5. ASSUME NEW x \in PodNames PROVE ~PodLost(x)
  BY <1>2 DEF PodLost
<1>6. ASSUME NEW k \in KeyIds, SignFirst(k) PROVE pods'[n] # None
  BY <1>1, <1>6, GeneratedPod
<1>. QED
  BY <1>3, <1>4, <1>5, <1>6, Writers

LEMMA PodAliveStep ==
  ASSUME IInv, PodAlive, [Next]_vars, faults = 0, faults' = 0
  PROVE  PodAlive'
<1>1. w \in Worker /\ pods \in [PodNames -> Pod \cup {None}] /\ None \notin Pod
  BY PodAssumption DEF IInv, TypeOK, PodTypeOK
<1>. DEFINE Working == {"poll", "load", "sign", "readKey", "patch"}
<1>2. ASSUME w.pc \in Working, w'.pod = w.pod, ~Close PROVE PodAlive'
  <2>1. w.pod \in PodNames /\ pods[w.pod] # None
    BY <1>2, Locals DEF PodAlive, PodSteps
  <2>. QED
    BY <1>2, <2>1, PodStays DEF PodAlive
<1>3. ASSUME w'.pc \notin Working PROVE PodAlive'
  BY <1>3 DEF PodAlive
<1>4. CASE w' = w
  <2>1. ~Close
    BY <1>1, <1>4 DEF Close, At, Worker
  <2>. QED
    BY <1>2, <1>3, <1>4, <2>1
<1>5. ASSUME NEW n \in PodNames, StartCreates(n) PROVE PodAlive'
  <2>1. StartedPod \in Pod
    BY <1>5, StartedPodType DEF StartCreates, At
  <2>2. w'.pod = n /\ pods'[n] = StartedPod
    BY <1>1, <1>5 DEF StartCreates, PodCreated, Worker
  <2>. QED
    BY <1>1, <2>1, <2>2 DEF PodAlive
<1>6. ASSUME \/ w' = Idle
             \/ \E r \in Requests : GetSignRequest(r)
             \/ GetSigner \/ GetSignerKey
             \/ \E n \in PodNames : StartFindsName(n) \/ StartFails(n)
             \/ SignFails \/ Close
      PROVE  w'.pc \notin Working
  <2>1. CASE GetSignerKey
    BY <1>1, <2>1 DEF GetSignerKey, FailTo, Worker
  <2>2. CASE w' = Idle
    BY <2>2 DEF Idle
  <2>3. CASE GetSigner \/ SignFails \/ Close
    BY <1>1, <2>3 DEF GetSigner, SignFails, Close, FailTo, Worker
  <2>4. ASSUME NEW r \in Requests, GetSignRequest(r) PROVE w'.pc = "getSigner"
    BY <1>1, <2>4 DEF GetSignRequest, Worker
  <2>5. ASSUME NEW n \in PodNames, StartFindsName(n) \/ StartFails(n) PROVE w'.pc = "close"
    BY <1>1, <2>5 DEF StartFindsName, StartFails, Worker
  <2>. QED
    BY <1>6, <2>1, <2>2, <2>3, <2>4, <2>5
<1>7. ASSUME PollPod \/ LoadImage \/ SignAgain \/ ReadTargetKey \/ PatchSignerKey
      PROVE  w.pc \in Working /\ w'.pod = w.pod /\ ~Close
  <2>1. CASE PollPod
    BY <1>1, <2>1 DEF PollPod, StartGivesUp, FailTo, At, Close, Worker
  <2>2. CASE LoadImage
    BY <1>1, <2>2 DEF LoadImage, FailTo, At, Close, Worker
  <2>3. CASE SignAgain
    BY <1>1, <2>3 DEF SignAgain, Published, AfterSign, FailTo, At, Close, Worker
  <2>4. CASE ReadTargetKey
    BY <1>1, <2>4 DEF ReadTargetKey, FailTo, At, Close, Worker
  <2>5. CASE PatchSignerKey
    BY <1>1, <2>5 DEF PatchSignerKey, FailTo, At, Close, Worker
  <2>. QED
    BY <1>7, <2>1, <2>2, <2>3, <2>4, <2>5
<1>8. ASSUME NEW k \in KeyIds, SignFirst(k)
      PROVE  w.pc \in Working /\ w'.pod = w.pod /\ ~Close
  BY <1>1, <1>8 DEF SignFirst, Published, AfterSign, FailTo, At, Close, Worker
<1>. QED
  BY <1>2, <1>3, <1>4, <1>5, <1>6, <1>7, <1>8, AttemptMoves

\* The key of t's repository is in a SignerKey, or in the attempt's pod.
InKey(t) ==
  \E s \in Signers :
    /\ signerKeys[s] # None /\ Recorded(signerKeys[s], t) # None
    /\ Recorded(signerKeys[s], t).id = repos[t].target

InPod(t) ==
  /\ w.pc \in {"readKey", "patch"} /\ w.obj.target = t
  /\ pods[w.pod] # None
  /\ \E f \in pods[w.pod].files : f.role = "target" /\ f.id = repos[t].target

\* The first signature of a repository puts its key in the attempt's pod.
LEMMA SignFirstHeld ==
  ASSUME IInv, NEW k \in KeyIds, SignFirst(k), faults = 0, faults' = 0
  PROVE  InPod(Target)' /\ w'.obj = w.obj
<1>1. w \in Worker /\ pods \in [PodNames -> Pod \cup {None}] /\ None \notin Pod
      /\ repos \in [Targets -> Repo \cup {None}]
  BY PodAssumption DEF IInv, TypeOK, PodTypeOK
<1>2. w.added /\ Target \in Targets
      /\ repos' = [repos EXCEPT ![Target] = [root |-> w.key.root.id, target |-> k]]
  BY SignFirstEffect
<1>3. w' = [w EXCEPT !.pc = "readKey"]
  BY <1>2 DEF SignFirst, Published, AfterSign, Fault
<1>4. w'.pc = "readKey" /\ w'.pod = w.pod /\ w'.obj = w.obj
  BY <1>1, <1>3 DEF Worker
<1>5. PICK pod \in Pod : /\ w.pod \in PodNames /\ pods' = [pods EXCEPT ![w.pod] = pod]
                         /\ \E f \in pod.files : f.role = "target" /\ f.id = k
  BY GeneratedPod
<1>6. pods'[w.pod] = pod /\ pod # None
  BY <1>1, <1>5
<1>7. repos'[Target].target = k
  BY <1>1, <1>2
<1>. QED
  BY <1>4, <1>5, <1>6, <1>7 DEF InPod, Target

\* From there it comes into the SignerKey.
LEMMA InPodStep ==
  ASSUME IInv, MapsKept, PodAlive, [Next]_vars, faults = 0, faults' = 0,
         NEW t \in Targets, InPod(t), repos' = repos
  PROVE  InPod(t)' \/ InKey(t)'
<1>1. w \in Worker /\ ~Fault /\ ~Close
  BY DEF IInv, TypeOK, Fault, Close, At, InPod
<1>2. w.pod \in PodNames /\ Signer \in Signers /\ Target = t /\ w.key \in SignerKey
  BY Locals DEF InPod, PodSteps, KeyedSteps, Target
<1>3. ASSUME w'.pc \in {"readKey", "patch"}, w'.pod = w.pod, w'.obj = w.obj
      PROVE  InPod(t)'
  <2>1. pods'[w.pod] # None
    BY <1>1, <1>2, PodStays DEF InPod
  <2>2. pods'[w.pod].files = pods[w.pod].files
    <3>1. ASSUME NEW k \in KeyIds PROVE ~SignFirst(k)
      BY DEF SignFirst, At, InPod
    <3>. QED
      BY <1>2, <2>1, <3>1, PodStep DEF InPod
  <2>. QED
    BY <1>3, <2>1, <2>2 DEF InPod
<1>4. CASE w' = w
  BY <1>3, <1>4 DEF InPod
<1>5. CASE ReadTargetKey
  <2>1. w.key \in Copies(Signer)
    BY <1>5 DEF ReadTargetKey, At, Copies, KeyedSteps, Signer
  <2>2. w.key.targets # Nil
    BY <1>2, <2>1, RequestAssumption DEF MapsKept
  <2>3. \E k : w' = [w EXCEPT !.pc = "patch", !.tkey = k]
    BY Zenon, <1>1, <1>5, <2>2 DEF ReadTargetKey, InPod
  <2>4. w'.pc = "patch" /\ w'.pod = w.pod /\ w'.obj = w.obj
    BY <1>1, <2>3 DEF Worker
  <2>. QED
    BY <1>3, <2>4
<1>6. CASE PatchSignerKey
  <2>1. w.pc = "patch" /\ w.tkey \in TrustKey
    BY <1>6, PatchEffect
  <2>2. signerKeys[Signer] \in SignerKey
        /\ signerKeys' = [signerKeys EXCEPT ![Signer] =
                             MergePatch(signerKeys[Signer], Target, w.tkey)]
    <3>1. signerKeys[Signer] \in SignerKey
      BY <1>2 DEF MapsKept, IInv, TypeOK
    <3>. QED
      BY <1>1, <1>2, <1>6, <3>1 DEF PatchSignerKey, MapsKept
  <2>3. signerKeys'[Signer] = MergePatch(signerKeys[Signer], Target, w.tkey)
        /\ signerKeys'[Signer] \in SignerKey /\ Recorded(signerKeys'[Signer], t) = w.tkey
    <3>1. signerKeys \in [Signers -> SignerKey \cup {None}]
      BY DEF IInv, TypeOK
    <3>. QED
      BY <1>2, <2>1, <2>2, <3>1, MergePatchType
  <2>4. w.tkey.id = repos[t].target
    BY <1>2, <2>1 DEF IInv, KeyInTransit
  <2>5. signerKeys'[Signer] # None /\ w.tkey # None
    BY <2>1, <2>3, PodAssumption, RequestAssumption
  <2>. QED
    BY <1>2, <2>3, <2>4, <2>5 DEF InKey, Recorded
<1>. QED
  <2>1. ~Crash /\ ~Respond
    BY <1>1 DEF Crash, Respond, At, InPod
  <2>2. w' = w \/ ReadTargetKey \/ PatchSignerKey
    BY <1>1, <2>1, AttemptMoves
       DEF GetSignRequest, GetSigner, GetSignerKey, StartCreates, StartFindsName, StartFails,
           PollPod, LoadImage, SignFails, SignAgain, SignFirst, At, InPod
  <2>. QED
    BY <1>4, <1>5, <1>6, <2>2

LEMMA HeldStep ==
  ASSUME IInv, Held, [Next]_vars, DeletableSigners = {}
  PROVE  Held'
<1>1. MapsKept'
  BY MapsKeptStep DEF Held
<1>2. faults \in Nat /\ (faults' = faults \/ faults' = faults + 1)
  <2>1. faults \in 0..MaxFaults /\ MaxFaults \in Nat
    BY RequestAssumption DEF IInv, TypeOK
  <2>2. faults' = faults \/ faults' = faults + 1
    BY BookkeepingMoves
  <2>. QED
    BY <2>1, <2>2
<1>3. ASSUME faults' = 0 PROVE PodAlive' /\ RepoKeyHeld'
  <2>1. faults = 0
    BY <1>2, <1>3
  <2>2. PodAlive /\ MapsKept /\ \A t \in Targets : repos[t] # None => InKey(t) \/ InPod(t)
    BY <2>1 DEF Held, RepoKeyHeld, InKey, InPod
  <2>3. ASSUME NEW t \in Targets, repos'[t] # None PROVE InKey(t)' \/ InPod(t)'
    <3>1. ASSUME repos[t] # None, InKey(t) PROVE InKey(t)'
      <4>1. PICK s \in Signers : /\ signerKeys[s] # None /\ Recorded(signerKeys[s], t) # None
                                 /\ Recorded(signerKeys[s], t).id = repos[t].target
        BY <3>1 DEF InKey
      <4>2. signerKeys'[s] # None
        BY <1>1 DEF MapsKept
      <4>3. Recorded(signerKeys'[s], t) = Recorded(signerKeys[s], t)
        BY <4>1, <4>2, EntryKept
      <4>4. repos'[t] = repos[t]
        BY <3>1, ReposStep
      <4>. QED
        BY <4>1, <4>2, <4>3, <4>4 DEF InKey, Recorded
    <3>2. ASSUME NEW k \in KeyIds, SignFirst(k) PROVE InKey(t)' \/ InPod(t)'
      <4>1. w.pc = "sign" /\ Target \in Targets
            /\ repos' = [repos EXCEPT ![Target] = [root |-> w.key.root.id, target |-> k]]
        BY <3>2, SignFirstEffect
      <4>2. CASE t = Target
        <5>1. InPod(Target)'
          BY <1>3, <2>1, <3>2, SignFirstHeld
        <5>2. Target' = Target
          BY <1>3, <2>1, <3>2, SignFirstHeld DEF Target
        <5>. QED
          BY <4>2, <5>1, <5>2
      <4>3. CASE t # Target
        <5>1. repos[t] # None
          BY <2>3, <4>1, <4>3 DEF IInv, TypeOK
        <5>2. ~InPod(t)
          BY <4>1 DEF InPod
        <5>. QED
          BY <2>2, <3>1, <5>1, <5>2
      <4>. QED
        BY <4>2, <4>3
    <3>3. CASE repos' = repos
      BY <1>3, <2>1, <2>2, <2>3, <3>1, <3>3, InPodStep
    <3>. QED
      BY <3>2, <3>3, Writers
  <2>4. RepoKeyHeld'
    BY <2>3 DEF RepoKeyHeld, InKey, InPod
  <2>. QED
    BY <1>3, <2>1, <2>2, <2>4, PodAliveStep
<1>. QED
  BY <1>1, <1>3 DEF Held

\* As long as no call fails, the private key of a repository is not lost.  The
\* two hypotheses are needed: AddTargetKey panics on a SignerKey without a
\* targets field, and a SignerKey goes with its signer.
THEOREM RepoKeysHeld ==
  ASSUME KeyShapes = {"map"}, DeletableSigners = {}
  PROVE  Spec => []RepoKeyHeld
<1>1. Init => Held
  <2>. SUFFICES ASSUME Init PROVE Held
    OBVIOUS
  <2>1. PICK shape \in [Signers -> KeyShapes], rootId \in [Signers -> KeyIds], p \in Passes :
          signerKeys = [s \in Signers |-> InitialKey(shape[s], rootId[s], p)]
    BY Zenon DEF Init
  <2>2. ASSUME NEW s \in Signers
        PROVE  signerKeys[s] # None /\ signerKeys[s].targets # Nil
    <3>1. shape[s] = "map" /\ rootId[s] \in KeyIds
      OBVIOUS
    <3>2. signerKeys[s] = [root    |-> [id |-> rootId[s], enc |-> p, pass |-> p],
                           targets |-> EmptyMap]
      BY <2>1, <3>1 DEF InitialKey
    <3>3. EmptyMap \in [Targets -> TrustKey \cup {None}]
      BY DEF EmptyMap
    <3>4. signerKeys[s] \in SignerKey
      BY <3>1, <3>2, <3>3 DEF SignerKey, TrustKey, TargetMap
    <3>. QED
      BY <3>2, <3>3, <3>4, RequestAssumption
  <2>3. orphans = {} /\ w.pc = "idle" /\ keyCache = [s \in Signers |-> None]
        /\ repos = [t \in Targets |-> None]
    BY DEF Init, Idle
  <2>4. MapsKept
    BY <2>2, <2>3 DEF MapsKept, Copies, KeyedSteps
  <2>. QED
    BY <2>3, <2>4 DEF Held, PodAlive, RepoKeyHeld
<1>2. IInv /\ Held /\ [Next]_vars => Held'
  BY HeldStep
<1>3. IInv /\ Held => RepoKeyHeld
  BY DEF Held, RepoKeyHeld
<1>. QED
  BY Invariance, <1>1, <1>2, <1>3, PTL DEF Spec
=============================================================================
