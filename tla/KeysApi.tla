------------------------------ MODULE KeysApi ------------------------------
(***************************************************************************)
(* The extension API server's handling of one request (pkg/apiserver/):    *)
(* it is routed, authorized, reviewed by the API server, and answered with *)
(* the SignerKey it names, while SignerKeys and permissions change.        *)
(*                                                                         *)
(* Each request runs in a goroutine of its own and shares nothing with     *)
(* others; every call it makes to the API server is a step.                *)
(***************************************************************************)
EXTENDS Router, FiniteSets

CONSTANTS
  Names,      \* names of ImageSigners and of their SignerKeys
  Users, Groups,
  MaxChanges, \* bound: changes of SignerKeys and permissions
  MaxFaults   \* bound: calls to the API server that fail

VARIABLES
  keys,       \* keys[n]: the revision of SignerKey n, or None
  grants,     \* grants[n]: users and groups that may get imagesigners/keys n
  changes,    \* the last revision, up to MaxChanges
  faults,
  req,        \* the request: [method, path, tls, user, groups], or None
  pc,         \* where its goroutine is
  responses,  \* the status codes it was answered with
  answer,     \* the revision of the SignerKey in the answer
  window      \* history: what the SignerKey it names was since its review

vars == <<keys, grants, changes, faults, req, pc, responses, answer, window>>

Steps == {"none", "route", "authorize", "review", "get", "done"}

\* The kind in the path, and the one authorize.go names in its stead.
Kinds == {SignerKind, "ImageSigner"}

KeyUrl(kind, n) == <<"apis", ApiGroup, ApiVersion, kind, n, "keys">>

\* Every beginning of a key's URL, with and without a trailing slash.
Begun == {SubSeq(KeyUrl(k, n), 1, i) : k \in Kinds, n \in Names, i \in 0..6}
Urls == Begun \cup {Append(p, "") : p \in Begun \ {<<>>}}

\* The kube-apiserver's proxy authenticates the user and sets the headers of
\* both; others reach the server without a certificate or without headers.
Requests ==
  [method: {"GET", "POST"}, path: Urls, tls: BOOLEAN,
   user: Users \cup {None}, groups: SUBSET Groups]

ASSUME ApiAssumption ==
  /\ MaxChanges \in Nat /\ MaxFaults \in Nat
  /\ None \notin Users \cup Groups \cup Nat \cup Names \cup Requests
  /\ Users \cap Groups = {}

\* A request is answered once.
TypeOK ==
  /\ keys \in [Names -> 0..MaxChanges \cup {None}]
  /\ grants \in [Names -> SUBSET (Users \cup Groups)]
  /\ changes \in 0..MaxChanges
  /\ faults \in 0..MaxFaults
  /\ req \in Requests \cup {None}
  /\ pc \in Steps
  /\ responses \in {<<>>, <<200>>, <<401>>, <<404>>, <<405>>, <<500>>}
  /\ answer \in 0..MaxChanges \cup {None}
  /\ window \subseteq 0..MaxChanges \cup {None}

Init ==
  /\ keys \in [Names -> {0, None}]
  /\ grants \in [Names -> SUBSET (Users \cup Groups)]
  /\ changes = 0 /\ faults = 0
  /\ req = None /\ pc = "none"
  /\ responses = <<>> /\ answer = None /\ window = {}

----------------------------------------------------------------------------
TheRoute == CHOOSE r \in Matching(req.path) : TRUE

Name == CHOOSE n \in Vars(TheRoute, req.path) : TRUE

\* Mutant: a refusal without a return.
RespondAndGoOn(code) ==
  /\ responses' = Append(responses, code)
  /\ pc' = CASE pc = "authorize" -> "review" [] pc = "review" -> "get" [] OTHER -> "done"

\* RespondJSON or RespondError, and return.
Respond(code) == responses' = Append(responses, code) /\ pc' = "done"

World == <<keys, grants, changes>>

Arrive ==
  /\ pc = "none"
  /\ req' \in Requests
  /\ pc' = "route"
  /\ UNCHANGED <<World, faults, responses, answer, window>>

\* mux: the first route that fits; Authorize runs if a router on the way to
\* it uses it.
Dispatch ==
  /\ pc = "route"
  /\ IF Matching(req.path) = {} THEN Respond(404)
     ELSE IF ~Serves(TheRoute, req.method) THEN Respond(405)
     ELSE IF TheRoute.handler # "signerKeysHandler" THEN Respond(200)
     ELSE /\ pc' = IF TheRoute.authorize THEN "authorize" ELSE "get"
          /\ UNCHANGED responses
  /\ UNCHANGED <<World, faults, req, answer, window>>

\* authorize, and what reviewAccess does before it asks: headers and the form
\* of the URL.
WellFormed == req.tls /\ req.user # None /\ Len(req.path) = 6

Authorize ==
  /\ pc = "authorize"
  /\ IF WellFormed THEN pc' = "review" /\ UNCHANGED responses
                   ELSE Respond(401)
  /\ UNCHANGED <<World, faults, req, answer, window>>

\* getUserGroup looks for the header of the user.
UserGroups == {req.user}

\* The SubjectAccessReview: the caller may get that subresource of that name.
Allowed ==
  /\ req.path[4] = SignerKind /\ req.path[6] = "keys"
  /\ ({req.user} \cup UserGroups) \cap grants[Name] # {}

ReviewAccess ==
  /\ pc = "review"
  /\ \/ Allowed /\ pc' = "get" /\ window' = {keys[Name]} /\ UNCHANGED <<responses, faults>>
     \/ ~Allowed /\ Respond(401) /\ UNCHANGED <<window, faults>>
     \/ faults < MaxFaults /\ faults' = faults + 1 /\ Respond(401) /\ UNCHANGED window
  /\ UNCHANGED <<World, req, answer>>

\* Mutant: a cached client, which may still show the key it listed at first.
ReadsCachedKey(n) == IF keys[n] = None THEN {None} ELSE {keys[n], 0}

\* k8sClient is not the manager's client: it reads the API server, no cache.
ReadsKey(n) == {keys[n]}

SignerKeysHandler ==
  /\ pc = "get"
  /\ \/ /\ \E k \in ReadsKey(Name) :
             IF k = None THEN Respond(404) /\ UNCHANGED answer
                         ELSE Respond(200) /\ answer' = k
        /\ UNCHANGED faults
     \/ faults < MaxFaults /\ faults' = faults + 1 /\ Respond(500) /\ UNCHANGED answer
  /\ UNCHANGED <<World, req, window>>

----------------------------------------------------------------------------
\* Reconcilers and users change SignerKeys and permissions.
Changes ==
  /\ changes < MaxChanges /\ pc # "none"
  /\ changes' = changes + 1
  /\ UNCHANGED <<faults, req, pc, responses, answer>>

\* A SignerKey is created, recorded in, or deleted.
ChangeKey(n) ==
  /\ Changes
  /\ \E k \in {changes + 1, None} \ {keys[n]} :
       /\ keys' = [keys EXCEPT ![n] = k]
       /\ window' = IF pc = "get" /\ n = Name THEN window \cup {k} ELSE window
  /\ UNCHANGED grants

ChangeGrants(n) ==
  /\ Changes
  /\ \E s \in Users \cup Groups :
       grants' = [grants EXCEPT ![n] = IF s \in @ THEN @ \ {s} ELSE @ \cup {s}]
  /\ UNCHANGED <<keys, window>>

Next ==
  \/ Arrive \/ Dispatch \/ Authorize \/ ReviewAccess \/ SignerKeysHandler
  \/ \E n \in Names : ChangeKey(n) \/ ChangeGrants(n)

Spec == Init /\ [][Next]_vars

----------------------------------------------------------------------------
\* Properties.

\* A SignerKey is answered only to a GET of its very URL, after a review of
\* the same name was passed: no route leads around Authorize, whichever
\* router a path is registered in.
AnswerReviewed ==
  answer # None =>
    /\ req.method = "GET"
    /\ \E n \in Names : req.path = KeyUrl(SignerKind, n)
    /\ window # {}

\* What is answered was the SignerKey at some moment after the review that
\* allowed it: one deleted, or made again, before the review is never seen.
AnswerFresh ==
  responses = <<200>> /\ answer # None => answer \in window

\* A path the root handler lists is not answered with 404, unless it is that
\* of a SignerKey which did not exist at some moment after the review.
ListedPathsFound ==
  /\ responses = <<404>> /\ req.method = "GET"
  /\ \E l \in Listed : Fits(l, req.path)
  => None \in window
=============================================================================
