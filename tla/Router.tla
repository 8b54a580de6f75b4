------------------------------- MODULE Router -------------------------------
(***************************************************************************)
(* The API server's tree of sub-paths: internal/wrapper/, and the calls of *)
(* New, AddApis, AddV1Apis and AddSignerApis that build it (server.go,     *)
(* apis/ and apis/v1/).  The matching itself is gorilla/mux's.             *)
(*                                                                         *)
(* A path is the sequence of its segments; a last segment "" is a trailing *)
(* slash, and <<>> is "/".                                                 *)
(***************************************************************************)
EXTENDS Naturals, Sequences

CONSTANT None

ASSUME RouterAssumption ==
  None \notin {"rootHandler", "apisHandler", "versionHandler", "signerKeysHandler"}

ApiGroup   == "registry.tmax.io"
ApiVersion == "v1"
SignerKind == "imagesigners"
NameParam  == "{resourceName}"

Wrapper(fullPath, methods, handler) ==
  [fullPath |-> fullPath, methods |-> methods, handler |-> handler]

AnyMethod == {}

\* FullPath of a wrapper added to that parent.
FullPath(parent, subPath) == parent.fullPath \o subPath

\* The wrappers, each added to the one before it.
RootWrapper == Wrapper(<<>>, AnyMethod, "rootHandler")
ApiWrapper == Wrapper(FullPath(RootWrapper, <<"apis">>), AnyMethod, "apisHandler")
VersionWrapper ==
  Wrapper(FullPath(ApiWrapper, <<ApiGroup, ApiVersion>>), AnyMethod, "versionHandler")
SignerWrapper == Wrapper(FullPath(VersionWrapper, <<SignerKind, NameParam>>), AnyMethod, None)
KeysWrapper == Wrapper(FullPath(SignerWrapper, <<"keys">>), {"GET"}, "signerKeysHandler")

Chain == <<RootWrapper, ApiWrapper, VersionWrapper, SignerWrapper, KeysWrapper>>

Wrappers == DOMAIN Chain

\* The wrapper whose router uses Authorize; mutant: that of the keys.
AuthorizesKeysOnly == {5}
Authorized == {4}

\* A route: its template, the wrappers whose routers lead to it, its methods.
Route(template, routers, w) ==
  [template |-> template, authorize |-> routers \cap Authorized # {},
   methods |-> Chain[w].methods, handler |-> Chain[w].handler]

\* Mutant: Add registers the sub-path in the child's router only.
AddsSlashOnly(w) ==
  IF Chain[w].handler = None THEN {}
  ELSE {Route(Append(Chain[w].fullPath, ""), 1..w, w)}

\* Add: a handler is registered for "/" in the child's router, and for the
\* child's sub-path in the parent's.
Add(w) ==
  IF Chain[w].handler = None THEN {}
  ELSE {Route(Append(Chain[w].fullPath, ""), 1..w, w), Route(Chain[w].fullPath, 1..(w - 1), w)}

Routes == {Route(<<>>, {1}, 1)} \cup UNION {Add(w) : w \in 2..Len(Chain)}

Fits(template, path) ==
  /\ Len(template) = Len(path)
  /\ \A i \in DOMAIN path :
       \/ template[i] = path[i]
       \/ template[i] = NameParam /\ path[i] # ""

Matching(path) == {r \in Routes : Fits(r.template, path)}

Serves(route, method) == route.methods = AnyMethod \/ method \in route.methods

\* mux.Vars: what the path has in the parameter's place.
Vars(route, path) ==
  {path[i] : i \in {j \in DOMAIN path : route.template[j] = NameParam}}

\* The paths rootHandler lists.
Listed == {Chain[w].fullPath : w \in {x \in Wrappers : Chain[x].handler # None}}
=============================================================================
