-------------------------- MODULE SignRequestInv --------------------------
(***************************************************************************)
(* The inductive invariant of SignRequest: what holds between any two      *)
(* steps of an attempt, for the object versions the caches and the         *)
(* worker's snapshots may show.  Its parts say why StoredKeyOpensRepo,     *)
(* SuccessIsBacked, ResponseFinal and StoredKeysKept hold.                 *)
(***************************************************************************)
EXTENDS SignRequest

\* Steps at which the worker holds a key snapshot, and those at which it has
\* named a pod that it will close.
KeyedSteps == {"create", "poll", "load", "sign", "readKey", "patch"}
PodSteps   == {"poll", "load", "sign", "readKey", "patch", "close"}

\* The locals an attempt has set by the time it reaches a step.
WorkerShape ==
  /\ w.pc = "idle" => w = Idle
  /\ w.pc # "idle" => w.name \in Requests /\ w.obj \in Request
  /\ w.pc \in KeyedSteps => w.key \in SignerKey /\ w.tkey \in StartKey
  /\ w.pc \in PodSteps => w.pod \in PodNames
  /\ w.pc = "patch" => w.tkey \in TrustKey
  /\ w.pc \in {"getSigner", "getKey"} => ~w.added
  /\ w.answer = "Success" => w.pc \in {"close", "respond"}

\* Object versions: no version is newer than the server's revision, an
\* attempt works on an unanswered copy, and two copies of a request with the
\* same version are the same.
SameVersion(a, b) == a # None /\ b # None /\ a.rv = b.rv => a = b

Versions ==
  /\ \A r \in Requests :
       /\ requests[r] # None => requests[r].rv <= rev
       /\ reqCache[r] # None => reqCache[r].rv <= rev
       /\ SameVersion(reqCache[r], requests[r])
  /\ w.pc # "idle" =>
       /\ w.obj.response = None
       /\ w.obj.rv <= rev
       /\ SameVersion(w.obj, requests[w.name])
       /\ SameVersion(w.obj, reqCache[w.name])

\* The copies of a signer's SignerKey that the operator may still act on.
Copies(s) ==
  {signerKeys[s], keyCache[s]}
    \cup (IF w.pc \in KeyedSteps /\ w.obj.signer = s THEN {w.key} ELSE {})

\* Root keys of SignerKeys and of repositories have been generated, so a new
\* SignerKey never has one of theirs.
RootsMinted ==
  /\ \A s \in Signers : \A key \in Copies(s) : key # None => key.root.id \in minted
  /\ \A t \in Targets : repos[t] # None => repos[t].root \in minted

\* Every copy of a recorded target key, however old, opens the repository.
EntriesOpen ==
  \A s \in Signers, t \in Targets : \A key \in Copies(s) :
    key # None /\ Recorded(key, t) # None =>
      /\ repos[t] # None
      /\ Recorded(key, t).id = repos[t].target
      /\ Recorded(key, t).enc = Recorded(key, t).pass

\* s's SignerKey, if it is the one t's repository was bound under, has an
\* entry for t.
LiveRecords(s, t) ==
  signerKeys[s] # None /\ signerKeys[s].root.id = repos[t].root =>
    Recorded(signerKeys[s], t) # None

\* What an old copy records, the SignerKey still records, unless it was
\* deleted and made again since the repository was bound.
LiveKeepsEntries ==
  \A s \in Signers, t \in Targets : \A key \in Copies(s) :
    key # None /\ Recorded(key, t) # None => LiveRecords(s, t)

\* The request's image was signed, and its repository's key is in safety.
Backed(req) ==
  /\ req.uid \in signatures
  /\ repos[req.target] # None
  /\ LiveRecords(req.signer, req.target)

\* While the attempt's pod is at work it holds the target key of the
\* snapshot, or none of that role if the repository has no recorded key.
PodMatches ==
  /\ w.pc \in {"create", "poll", "load", "sign"} =>
       IF w.added THEN w.tkey.id = None
                  ELSE /\ w.tkey \in TrustKey
                       /\ w.tkey = Recorded(w.key, Target)
  /\ w.pc \in {"poll", "load", "sign"} /\ pods[w.pod] # None =>
       /\ pods[w.pod].env.target = w.tkey.pass
       /\ w.added => \A f \in pods[w.pod].files : f.role # "target"

\* Between the first signature of a repository and its patch: the key exists
\* in the pod or in the worker only, and no copy records another one.
KeyInTransit ==
  w.pc \in {"readKey", "patch"} =>
    /\ w.obj.uid \in signatures
    /\ repos[Target] # None
    /\ repos[Target].root = w.key.root.id
    /\ \A s \in Signers : \A key \in Copies(s) :
         key # None => Recorded(key, Target) = None
    /\ w.pc = "readKey" /\ pods[w.pod] # None =>
         \A f \in pods[w.pod].files :
           f.role = "target" => f.id = repos[Target].target /\ f.enc = w.tkey.pass
    /\ w.pc = "patch" => /\ w.tkey.id = repos[Target].target
                         /\ w.tkey.enc = w.tkey.pass

\* A success in hand, and every stored one, is backed.
Successes ==
  /\ w.answer = "Success" => Backed(w.obj)
  /\ \A r \in Requests :
       requests[r] # None /\ requests[r].response = "Success" => Backed(requests[r])

\* The inductive invariant.
IInv ==
  /\ TypeOK
  /\ WorkerShape
  /\ Versions
  /\ RootsMinted
  /\ EntriesOpen
  /\ LiveKeepsEntries
  /\ PodMatches
  /\ KeyInTransit
  /\ Successes
=============================================================================
