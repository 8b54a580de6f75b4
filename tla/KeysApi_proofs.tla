---------------------------- MODULE KeysApi_proofs ----------------------------
(***************************************************************************)
(* KeysApi: its properties, for any names, users, groups and bounds.       *)
(*                                                                         *)
(* The argument: of the routes that fit a path, those that lead to the     *)
(* handler of keys are for GET and pass Authorize's router (KeysRoute); a  *)
(* URL of six segments that one of them fits is that of the SignerKey mux  *)
(* names (NameTaken); and from its review on, what that SignerKey is stays *)
(* in the window (Reviewed).                                               *)
(***************************************************************************)
EXTENDS KeysApi, SequenceTheorems, TLAPS

----------------------------------------------------------------------------
\* The router.

\* What the chain of wrappers comes to: a full path and a handler for each.
LEMMA KeysPath ==
  /\ Chain[5].fullPath = <<"apis", ApiGroup, ApiVersion, SignerKind, NameParam, "keys">>
  /\ Chain[5].handler = "signerKeysHandler" /\ Chain[5].methods = {"GET"}
  /\ Chain[1].fullPath = <<>>
  /\ \A w \in 1..4 : Chain[w].handler # "signerKeysHandler"
  /\ \A w \in {1, 2, 3, 5} : Chain[w].handler # None
<1>. DEFINE S == {"apis", ApiGroup, ApiVersion, SignerKind, NameParam, "keys"}
            p2 == <<"apis">>
            p3 == <<"apis", ApiGroup, ApiVersion>>
            p4 == <<"apis", ApiGroup, ApiVersion, SignerKind, NameParam>>
            p5 == <<"apis", ApiGroup, ApiVersion, SignerKind, NameParam, "keys">>
<1>1. p2 \in Seq(S) /\ p3 \in Seq(S) /\ p4 \in Seq(S) /\ p5 \in Seq(S)
  OBVIOUS
<1>2. /\ <<ApiGroup, ApiVersion>> \in Seq(S) /\ <<SignerKind, NameParam>> \in Seq(S)
      /\ <<"keys">> \in Seq(S)
  OBVIOUS
<1>3. <<>> \o p2 = p2
  OBVIOUS
<1>4. p2 \o <<ApiGroup, ApiVersion>> = p3
  <2>1. Len(p2 \o <<ApiGroup, ApiVersion>>) = 3 /\ Len(p3) = 3
    BY <1>1, <1>2
  <2>2. \A i \in 1..3 : (p2 \o <<ApiGroup, ApiVersion>>)[i] = p3[i]
    BY <1>1, <1>2
  <2>3. p2 \o <<ApiGroup, ApiVersion>> \in Seq(S)
    BY <1>1, <1>2
  <2>. HIDE DEF S, p2, p3
  <2>. QED
    BY <1>1, <2>1, <2>2, <2>3, SeqEqual, Zenon
<1>5. p3 \o <<SignerKind, NameParam>> = p4
  <2>1. Len(p3 \o <<SignerKind, NameParam>>) = 5 /\ Len(p4) = 5
    BY <1>1, <1>2
  <2>2. \A i \in 1..5 : (p3 \o <<SignerKind, NameParam>>)[i] = p4[i]
    BY <1>1, <1>2
  <2>3. p3 \o <<SignerKind, NameParam>> \in Seq(S)
    BY <1>1, <1>2
  <2>. HIDE DEF S, p4, p3
  <2>. QED
    BY <1>1, <2>1, <2>2, <2>3, SeqEqual, Zenon
<1>6. p4 \o <<"keys">> = p5
  <2>1. Len(p4 \o <<"keys">>) = 6 /\ Len(p5) = 6
    BY <1>1, <1>2
  <2>2. \A i \in 1..6 : (p4 \o <<"keys">>)[i] = p5[i]
    BY <1>1, <1>2
  <2>3. p4 \o <<"keys">> \in Seq(S)
    BY <1>1, <1>2
  <2>. HIDE DEF S, p4, p5
  <2>. QED
    BY <1>1, <2>1, <2>2, <2>3, SeqEqual, Zenon
<1>7. KeysWrapper.fullPath = p5
  BY <1>3, <1>4, <1>5, <1>6, Zenon
  DEF KeysWrapper, SignerWrapper, VersionWrapper, ApiWrapper, RootWrapper, Wrapper, FullPath
<1>. QED
  BY <1>7, RouterAssumption
  DEF Chain, KeysWrapper, SignerWrapper, VersionWrapper, ApiWrapper, RootWrapper, Wrapper

KeysTemplate == <<"apis", ApiGroup, ApiVersion, SignerKind, NameParam, "keys">>

\* Both routes Add registers for the keys are for GET and pass the router of
\* signerWrapper, which uses Authorize.
LEMMA KeysRoute ==
  ASSUME NEW r \in Routes, r.handler = "signerKeysHandler"
  PROVE  /\ r.methods = {"GET"} /\ r.authorize
         /\ r.template \in {KeysTemplate, Append(KeysTemplate, "")}
<1>1. Len(Chain) = 5
  BY DEF Chain
<1>2. r # Route(<<>>, {1}, 1)
  <2>1. Route(<<>>, {1}, 1).handler = Chain[1].handler
    BY DEF Route
  <2>. QED
    BY <2>1, KeysPath
<1>3. PICK w \in 2..5 : r \in Add(w)
  BY <1>1, <1>2 DEF Routes
<1>4. \/ r = Route(Append(Chain[w].fullPath, ""), 1..w, w)
      \/ r = Route(Chain[w].fullPath, 1..(w - 1), w)
  BY <1>3, Zenon DEF Add
<1>5. Chain[w].handler = "signerKeysHandler"
  <2>1. CASE r = Route(Append(Chain[w].fullPath, ""), 1..w, w)
    BY <2>1 DEF Route
  <2>2. CASE r = Route(Chain[w].fullPath, 1..(w - 1), w)
    BY <2>2 DEF Route
  <2>. QED
    BY <1>4, <2>1, <2>2
<1>6. w = 5
  BY <1>5, KeysPath
<1>7. (1..5) \cap Authorized # {} /\ (1..(5 - 1)) \cap Authorized # {}
  BY DEF Authorized
<1>. QED
  <2>1. CASE r = Route(Append(Chain[w].fullPath, ""), 1..w, w)
    BY <1>6, <1>7, <2>1, KeysPath DEF Route, KeysTemplate
  <2>2. CASE r = Route(Chain[w].fullPath, 1..(w - 1), w)
    BY <1>6, <1>7, <2>2, KeysPath DEF Route, KeysTemplate
  <2>. QED
    BY <1>4, <2>1, <2>2

\* Every path the root handler lists is the template of a route.
LEMMA ListedRoutes ==
  ASSUME NEW l \in Listed
  PROVE  \E r \in Routes : r.template = l
<1>1. Len(Chain) = 5 /\ Wrappers = 1..5
  BY DEF Chain, Wrappers
<1>2. PICK w \in 1..5 : Chain[w].handler # None /\ l = Chain[w].fullPath
  BY <1>1 DEF Listed
<1>3. CASE w = 1
  <2>1. Route(<<>>, {1}, 1) \in Routes
    BY Zenon DEF Routes
  <2>2. Route(<<>>, {1}, 1).template = <<>>
    BY DEF Route
  <2>. QED
    BY <1>2, <1>3, <2>1, <2>2, KeysPath
<1>4. CASE w # 1
  <2>1. w \in 2..Len(Chain)
    BY <1>1, <1>4
  <2>2. Route(Chain[w].fullPath, 1..(w - 1), w) \in Add(w)
    BY <1>2, Zenon DEF Add
  <2>3. Route(Chain[w].fullPath, 1..(w - 1), w).template = l
    BY <1>2 DEF Route
  <2>. QED
    BY <2>1, <2>2, <2>3, Zenon DEF Routes
<1>. QED
  BY <1>3, <1>4

LEMMA InBegun ==
  ASSUME NEW p \in Begun
  PROVE  \E k \in Kinds, n \in Names, i \in 0..6 : p = SubSeq(KeyUrl(k, n), 1, i)
BY DEF Begun

LEMMA Prefix ==
  ASSUME NEW T, NEW u \in Seq(T), Len(u) = 6, NEW i \in 0..6
  PROVE  SubSeq(u, 1, i) \in Seq(T) /\ Len(SubSeq(u, 1, i)) = i
<1>1. \A j \in 1..i : u[j] \in T
  <2>1. \A j \in 1..Len(u) : u[j] \in T
    BY ElementOfSeq
  <2>. QED
    BY <2>1
<1>2. SubSeq(u, 1, i) \in Seq(T)
  BY <1>1, SubSeqProperties
<1>3. Len(SubSeq(u, 1, i)) = IF 1 <= i THEN i - 1 + 1 ELSE 0
  BY <1>1, SubSeqProperties
<1>. QED
  BY <1>2, <1>3

\* The only URLs of six segments and the right kind that the keys' template
\* fits are those of SignerKeys.
LEMMA KeyUrlFits ==
  ASSUME NEW path \in Urls, Len(path) = 6, Fits(KeysTemplate, path), path[4] = SignerKind
  PROVE  \E n \in Names : path = KeyUrl(SignerKind, n)
<1>. DEFINE T == {"apis", ApiGroup, ApiVersion, "keys", ""} \cup Kinds \cup Names
<1>1. ASSUME NEW k \in Kinds, NEW n \in Names
      PROVE  KeyUrl(k, n) \in Seq(T) /\ Len(KeyUrl(k, n)) = 6
  <2>1. "apis" \in T /\ ApiGroup \in T /\ ApiVersion \in T /\ k \in T /\ n \in T /\ "keys" \in T
    BY Zenon
  <2>. HIDE DEF T
  <2>. QED
    BY <2>1 DEF KeyUrl
<1>2. \A p \in Begun : p \in Seq(T)
  <2>1. SUFFICES ASSUME NEW k \in Kinds, NEW n \in Names, NEW i \in 0..6
                 PROVE  SubSeq(KeyUrl(k, n), 1, i) \in Seq(T)
    BY InBegun, Zenon
  <2>. QED
    BY <1>1, Prefix, ZenonT(40)
<1>3. "" \in T
  BY Zenon
<1>. HIDE DEF T
<1>4. ASSUME NEW p \in Begun
      PROVE  /\ Append(p, "") \in Seq(T) /\ Len(p) \in Nat
             /\ Len(Append(p, "")) = Len(p) + 1 /\ Append(p, "")[Len(p) + 1] = ""
  <2>1. p \in Seq(T)
    BY <1>2
  <2>2. /\ Append(p, "") \in Seq(T)
        /\ Len(Append(p, "")) = Len(p) + 1 /\ Append(p, "")[Len(p) + 1] = ""
    BY <1>3, <2>1, AppendProperties, ZenonT(40)
  <2>3. Len(p) \in Nat
    BY <2>1, LenProperties, Zenon
  <2>. QED
    BY <2>2, <2>3, Zenon
<1>5. path[6] = "keys"
  <2>1. path \in Seq(T)
    BY <1>2, <1>4 DEF Urls
  <2>2. 6 \in DOMAIN path
    BY <2>1
  <2>3. KeysTemplate[6] = "keys" /\ "keys" # NameParam
    BY DEF KeysTemplate, NameParam
  <2>. QED
    BY <2>2, <2>3, Zenon DEF Fits
<1>6. path \in Begun
  BY <1>4, <1>5 DEF Urls
<1>7. PICK k \in Kinds, n \in Names, i \in 0..6 : path = SubSeq(KeyUrl(k, n), 1, i)
  BY <1>6, InBegun, Zenon
<1>8. i = 6
  BY <1>1, <1>7, Prefix
<1>9. path = KeyUrl(k, n)
  BY <1>1, <1>7, <1>8, SubSeqFull
<1>10. k = SignerKind
  BY <1>9 DEF KeyUrl
<1>. QED
  BY <1>9, <1>10

\* The name mux finds in a key's URL is the name that was asked for.
LEMMA NameOfUrl ==
  ASSUME NEW n \in Names, NEW r, r.template = KeysTemplate
  PROVE  Vars(r, KeyUrl(SignerKind, n)) = {n}
<1>1. \A j \in 1..6 : KeysTemplate[j] = NameParam <=> j = 5
  <2>1. /\ KeysTemplate[1] = "apis" /\ KeysTemplate[2] = "registry.tmax.io"
        /\ KeysTemplate[3] = "v1" /\ KeysTemplate[4] = "imagesigners"
        /\ KeysTemplate[5] = NameParam /\ KeysTemplate[6] = "keys"
    BY DEF KeysTemplate, ApiGroup, ApiVersion, SignerKind
  <2>2. \A j \in 1..6 : j \in {1, 2, 3, 4, 5, 6}
    OBVIOUS
  <2>3. NameParam \notin {"apis", "registry.tmax.io", "v1", "imagesigners", "keys"}
    BY DEF NameParam
  <2>. QED
    BY <2>1, <2>2, <2>3
<1>2. DOMAIN KeyUrl(SignerKind, n) = 1..6 /\ KeyUrl(SignerKind, n)[5] = n
  BY DEF KeyUrl
<1>3. {j \in DOMAIN KeyUrl(SignerKind, n) : r.template[j] = NameParam} = {5}
  BY <1>1, <1>2
<1>. QED
  BY <1>2, <1>3 DEF Vars

----------------------------------------------------------------------------
\* The request's way.
LEMMA RouteTaken ==
  ASSUME Matching(req.path) # {}
  PROVE  TheRoute \in Routes /\ Fits(TheRoute.template, req.path)
BY DEF TheRoute, Matching

\* A request that reaches the handler of keys is a GET, and was authorized.
LEMMA KeysRouteTaken ==
  ASSUME Matching(req.path) # {}, TheRoute.handler = "signerKeysHandler",
         Serves(TheRoute, req.method)
  PROVE  req.method = "GET" /\ TheRoute.authorize
<1>1. TheRoute \in Routes
  BY RouteTaken
<1>2. TheRoute.methods = {"GET"} /\ TheRoute.authorize
  BY <1>1, KeysRoute
<1>. QED
  BY <1>2 DEF Serves, AnyMethod

\* What a request of that form and kind names is the SignerKey of its URL.
LEMMA NameTaken ==
  ASSUME req \in Requests, Matching(req.path) # {}, TheRoute.handler = "signerKeysHandler",
         Len(req.path) = 6, req.path[4] = SignerKind
  PROVE  Name \in Names /\ req.path = KeyUrl(SignerKind, Name)
<1>1. TheRoute \in Routes /\ Fits(TheRoute.template, req.path)
  BY RouteTaken
<1>2. TheRoute.template \in {KeysTemplate, Append(KeysTemplate, "")}
  BY <1>1, KeysRoute
<1>3. TheRoute.template # Append(KeysTemplate, "")
  <2>. DEFINE S == {"apis", ApiGroup, ApiVersion, SignerKind, NameParam, "keys", ""}
  <2>1. KeysTemplate \in Seq(S) /\ Len(KeysTemplate) = 6 /\ "" \in S
    BY DEF KeysTemplate
  <2>. HIDE DEF S
  <2>2. \A t \in Seq(S), x \in S : Len(Append(t, x)) = Len(t) + 1
    BY AppendProperties
  <2>3. Len(Append(KeysTemplate, "")) = Len(KeysTemplate) + 1
    BY <2>1, <2>2, Zenon
  <2>4. Len(TheRoute.template) = 6
    BY <1>1, Zenon DEF Fits
  <2>. DEFINE n == Len(Append(KeysTemplate, ""))
  <2>5. n = 6 + 1
    BY <2>1, <2>3, Zenon
  <2>6. n # 6
    <3>. HIDE DEF n
    <3>. QED
      BY <2>5
  <2>. QED
    BY <2>4, <2>6, Zenon
<1>4. TheRoute.template = KeysTemplate
  BY <1>2, <1>3
<1>5. PICK n \in Names : req.path = KeyUrl(SignerKind, n)
  <2>1. req.path \in Urls
    BY DEF Requests
  <2>. QED
    BY <1>1, <1>4, <2>1, KeyUrlFits
<1>6. Vars(TheRoute, req.path) = {n}
  BY <1>4, <1>5, NameOfUrl
<1>7. Name = n
  BY <1>6 DEF Name
<1>. QED
  BY <1>5, <1>7

----------------------------------------------------------------------------
\* The inductive invariant.

\* Nothing is answered before the end.
Unanswered == pc # "done" => responses = <<>> /\ answer = None

\* From Dispatch on, the request is one for a SignerKey.
Routed ==
  pc \in {"authorize", "review", "get"} =>
    /\ Matching(req.path) # {} /\ Serves(TheRoute, req.method)
    /\ TheRoute.handler = "signerKeysHandler"

\* Once allowed, it names the SignerKey of its URL, and what that is now is in
\* the window.
Reviewed ==
  /\ pc = "review" => WellFormed
  /\ pc = "get" =>
       /\ WellFormed
       /\ Name \in Names /\ req.path = KeyUrl(SignerKind, Name)
       /\ keys[Name] \in window

AnswerInWindow == answer # None => answer \in window

ApiInv ==
  /\ TypeOK
  /\ pc # "none" => req \in Requests
  /\ Unanswered /\ Routed /\ Reviewed
  /\ AnswerReviewed /\ AnswerInWindow /\ ListedPathsFound

LEMMA Once == \A code \in Nat : Append(<<>>, code) = <<code>>
OBVIOUS

LEMMA ApiInit == Init => ApiInv
BY ApiAssumption DEF Init, ApiInv, TypeOK, Unanswered, Routed, Reviewed, AnswerReviewed,
  AnswerInWindow, ListedPathsFound, Steps

LEMMA RespondOnce ==
  ASSUME NEW code \in Nat, Respond(code), pc # "done", Unanswered
  PROVE  responses' = <<code>> /\ pc' = "done" /\ answer = None
BY Once DEF Respond, Unanswered

LEMMA ArriveStep == ASSUME ApiInv, Arrive PROVE ApiInv'
<1>. USE DEF ApiInv
<1>1. TypeOK'
  BY DEF Arrive, World, TypeOK, Steps
<1>. QED
  BY <1>1, ApiAssumption DEF Arrive, World, Unanswered, Routed, Reviewed, AnswerReviewed,
    AnswerInWindow, ListedPathsFound

\* Dispatch answers 404 only if no route fits, and every listed path has one.
LEMMA DispatchStep == ASSUME ApiInv, Dispatch PROVE ApiInv'
<1>. USE DEF ApiInv
<1>1. /\ pc = "route" /\ req \in Requests /\ answer = None
      /\ UNCHANGED <<keys, grants, changes, faults, req, answer, window>>
  BY DEF Dispatch, World, Unanswered
<1>2. CASE Matching(req.path) = {}
  <2>1. responses' = <<404>> /\ pc' = "done"
    BY <1>1, <1>2, RespondOnce DEF Dispatch
  <2>2. \A l \in Listed : ~Fits(l, req.path)
    BY <1>2, ListedRoutes DEF Matching
  <2>3. ListedPathsFound'
    BY <1>1, <2>2, Zenon DEF ListedPathsFound
  <2>. QED
    BY <1>1, <2>1, <2>3 DEF TypeOK, Steps, Unanswered, Routed, Reviewed, AnswerReviewed,
      AnswerInWindow
<1>3. ASSUME Matching(req.path) # {}, NEW code \in {200, 405}, Respond(code)
      PROVE  ApiInv'
  <2>1. responses' = <<code>> /\ pc' = "done"
    BY <1>1, <1>3, RespondOnce
  <2>2. code = 200 \/ code = 405
    OBVIOUS
  <2>3. TypeOK'
    BY <1>1, <2>1, <2>2 DEF TypeOK, Steps
  <2>4. ListedPathsFound'
    <3>1. responses' # <<404>>
      BY <2>1, <2>2
    <3>. QED
      BY <3>1, Zenon DEF ListedPathsFound
  <2>. QED
    BY <1>1, <2>1, <2>3, <2>4 DEF Unanswered, Routed, Reviewed, AnswerReviewed, AnswerInWindow
<1>4. CASE /\ Matching(req.path) # {} /\ Serves(TheRoute, req.method)
           /\ TheRoute.handler = "signerKeysHandler"
  <2>1. TheRoute.authorize
    BY <1>4, KeysRouteTaken
  <2>2. pc' = "authorize" /\ UNCHANGED responses
    BY <1>4, <2>1 DEF Dispatch
  <2>3. TypeOK'
    BY <1>1, <2>2 DEF TypeOK, Steps
  <2>4. Routed'
    BY <1>1, <1>4, Zenon DEF Routed, TheRoute
  <2>5. ListedPathsFound'
    <3>1. responses' = <<>>
      BY <1>1, <2>2 DEF Unanswered
    <3>. QED
      BY <3>1 DEF ListedPathsFound
  <2>. QED
    BY <1>1, <2>2, <2>3, <2>4, <2>5 DEF Unanswered, Reviewed, AnswerReviewed, AnswerInWindow
<1>. QED
  <2>1. ASSUME Matching(req.path) # {},
               ~(Serves(TheRoute, req.method) /\ TheRoute.handler = "signerKeysHandler")
        PROVE  Respond(200) \/ Respond(405)
    BY <2>1, Zenon DEF Dispatch
  <2>. QED
    BY <1>2, <1>3, <1>4, <2>1

LEMMA AuthorizeStep == ASSUME ApiInv, Authorize PROVE ApiInv'
<1>. USE DEF ApiInv
<1>1. /\ pc = "authorize" /\ req \in Requests /\ answer = None /\ responses = <<>>
      /\ UNCHANGED <<keys, grants, changes, faults, req, answer, window>>
  BY DEF Authorize, World, Unanswered
<1>2. CASE WellFormed
  <2>1. pc' = "review" /\ UNCHANGED responses
    BY <1>2 DEF Authorize
  <2>2. TypeOK'
    BY <1>1, <2>1 DEF TypeOK, Steps
  <2>3. Routed'
    BY <1>1, Zenon DEF Routed, TheRoute
  <2>4. Reviewed'
    BY <1>1, <1>2, <2>1 DEF Reviewed, WellFormed
  <2>5. ListedPathsFound'
    BY <1>1, <2>1 DEF ListedPathsFound
  <2>. QED
    BY <1>1, <2>1, <2>2, <2>3, <2>4, <2>5 DEF Unanswered, AnswerReviewed, AnswerInWindow
<1>3. CASE ~WellFormed
  <2>1. responses' = <<401>> /\ pc' = "done"
    BY <1>1, <1>3, RespondOnce DEF Authorize
  <2>2. TypeOK'
    BY <1>1, <2>1 DEF TypeOK, Steps
  <2>3. ListedPathsFound'
    <3>1. responses' # <<404>>
      BY <2>1
    <3>. QED
      BY <3>1, Zenon DEF ListedPathsFound
  <2>. QED
    BY <1>1, <2>1, <2>2, <2>3 DEF Unanswered, Routed, Reviewed, AnswerReviewed, AnswerInWindow
<1>. QED
  BY <1>2, <1>3

\* An access that is allowed opens the window with the SignerKey as it is.
LEMMA ReviewStep == ASSUME ApiInv, ReviewAccess PROVE ApiInv'
<1>. USE DEF ApiInv
<1>1. /\ pc = "review" /\ req \in Requests /\ answer = None /\ responses = <<>> /\ WellFormed
      /\ UNCHANGED <<keys, grants, changes, req, answer>>
  BY DEF ReviewAccess, World, Unanswered, Reviewed
<1>2. CASE Allowed /\ pc' = "get" /\ window' = {keys[Name]} /\ UNCHANGED <<responses, faults>>
  <2>1. Name \in Names /\ req.path = KeyUrl(SignerKind, Name)
    BY <1>1, <1>2, NameTaken DEF Allowed, WellFormed, Routed
  <2>2. Name' = Name
    BY <1>1, Zenon DEF Name, TheRoute
  <2>3. TypeOK'
    BY <1>1, <1>2, <2>1 DEF TypeOK, Steps
  <2>4. Routed'
    BY <1>1, Zenon DEF Routed, TheRoute
  <2>5. Reviewed'
    BY <1>1, <1>2, <2>1, <2>2 DEF Reviewed, WellFormed
  <2>6. ListedPathsFound'
    BY <1>1, <1>2 DEF ListedPathsFound
  <2>. QED
    BY <1>1, <1>2, <2>3, <2>4, <2>5, <2>6 DEF Unanswered, AnswerReviewed, AnswerInWindow
<1>3. ASSUME Respond(401), UNCHANGED window, faults' \in 0..MaxFaults
      PROVE  ApiInv'
  <2>1. responses' = <<401>> /\ pc' = "done"
    BY <1>1, <1>3, RespondOnce
  <2>2. TypeOK'
    BY <1>1, <1>3, <2>1 DEF TypeOK, Steps
  <2>3. ListedPathsFound'
    <3>1. responses' # <<404>>
      BY <2>1
    <3>. QED
      BY <3>1, Zenon DEF ListedPathsFound
  <2>. QED
    BY <1>1, <1>3, <2>1, <2>2, <2>3 DEF Unanswered, Routed, Reviewed, AnswerReviewed, AnswerInWindow
<1>4. CASE ~Allowed /\ Respond(401) /\ UNCHANGED <<window, faults>>
  BY <1>3, <1>4 DEF TypeOK
<1>5. CASE faults < MaxFaults /\ faults' = faults + 1 /\ Respond(401) /\ UNCHANGED window
  <2>1. faults' \in 0..MaxFaults
    BY <1>5, ApiAssumption DEF TypeOK
  <2>. QED
    BY <1>3, <1>5, <2>1
<1>. QED
  BY <1>2, <1>4, <1>5, Zenon DEF ReviewAccess

\* The handler reads the SignerKey of the moment, which is in the window.
LEMMA HandlerStep == ASSUME ApiInv, SignerKeysHandler PROVE ApiInv'
<1>. USE DEF ApiInv
<1>1. /\ pc = "get" /\ req \in Requests /\ answer = None /\ responses = <<>>
      /\ Name \in Names /\ req.path = KeyUrl(SignerKind, Name) /\ keys[Name] \in window
      /\ req.method = "GET"
      /\ UNCHANGED <<keys, grants, changes, req, window>>
  BY KeysRouteTaken DEF SignerKeysHandler, World, Unanswered, Reviewed, Routed
<1>2. CASE keys[Name] = None /\ Respond(404) /\ UNCHANGED <<answer, faults>>
  <2>1. responses' = <<404>> /\ pc' = "done" /\ None \in window
    BY <1>1, <1>2, RespondOnce
  <2>. QED
    BY <1>1, <1>2, <2>1 DEF TypeOK, Steps, Unanswered, Routed, Reviewed, AnswerReviewed,
      AnswerInWindow, ListedPathsFound
<1>3. CASE keys[Name] # None /\ Respond(200) /\ answer' = keys[Name] /\ UNCHANGED faults
  <2>1. responses' = <<200>> /\ pc' = "done"
    BY <1>1, <1>3, RespondOnce
  <2>2. TypeOK'
    BY <1>1, <1>3, <2>1 DEF TypeOK, Steps
  <2>3. ListedPathsFound'
    <3>1. responses' # <<404>>
      BY <2>1
    <3>. QED
      BY <3>1, Zenon DEF ListedPathsFound
  <2>4. AnswerReviewed' /\ AnswerInWindow'
    BY <1>1, <1>3 DEF AnswerReviewed, AnswerInWindow
  <2>. QED
    BY <1>1, <2>1, <2>2, <2>3, <2>4 DEF Unanswered, Routed, Reviewed
<1>4. CASE faults < MaxFaults /\ faults' = faults + 1 /\ Respond(500) /\ UNCHANGED answer
  <2>1. responses' = <<500>> /\ pc' = "done"
    BY <1>1, <1>4, RespondOnce
  <2>2. faults' \in 0..MaxFaults
    BY <1>4, ApiAssumption DEF TypeOK
  <2>3. TypeOK'
    BY <1>1, <1>4, <2>1, <2>2 DEF TypeOK, Steps
  <2>4. ListedPathsFound'
    <3>1. responses' # <<404>>
      BY <2>1
    <3>. QED
      BY <3>1, Zenon DEF ListedPathsFound
  <2>. QED
    BY <1>1, <1>4, <2>1, <2>3, <2>4 DEF Unanswered, Routed, Reviewed, AnswerReviewed, AnswerInWindow
<1>. QED
  BY <1>2, <1>3, <1>4 DEF SignerKeysHandler, ReadsKey

LEMMA ChangeKeyStep == ASSUME ApiInv, NEW n \in Names, ChangeKey(n) PROVE ApiInv'
<1>. USE DEF ApiInv
<1>1. /\ UNCHANGED <<faults, req, pc, responses, answer, grants>> /\ pc # "none" /\ req \in Requests
      /\ changes' = changes + 1
  BY DEF ChangeKey, Changes
<1>2. changes' \in 0..MaxChanges /\ 0..MaxChanges \subseteq Nat
  BY ApiAssumption DEF ChangeKey, Changes, TypeOK
<1>3. PICK k \in {changes + 1, None} :
        /\ keys' = [keys EXCEPT ![n] = k]
        /\ window' = IF pc = "get" /\ n = Name THEN window \cup {k} ELSE window
  BY DEF ChangeKey
<1>4. k \in 0..MaxChanges \cup {None}
  BY <1>1, <1>2
<1>5. window \subseteq window' /\ window' \subseteq 0..MaxChanges \cup {None}
  BY <1>3, <1>4 DEF TypeOK
<1>6. TypeOK'
  <2>1. keys' \in [Names -> 0..MaxChanges \cup {None}]
    BY <1>3, <1>4 DEF TypeOK
  <2>. QED
    BY <1>1, <1>2, <1>5, <2>1 DEF TypeOK
<1>7. Routed'
  BY <1>1, Zenon DEF Routed, TheRoute
<1>8. Reviewed'
  <2>1. Name' = Name
    BY <1>1, Zenon DEF Name, TheRoute
  <2>2. ASSUME pc = "get" PROVE keys'[Name] \in window'
    BY <1>3, <1>5, <2>2 DEF Reviewed, TypeOK
  <2>. QED
    BY <1>1, <2>1, <2>2 DEF Reviewed, WellFormed
<1>. QED
  BY <1>1, <1>5, <1>6, <1>7, <1>8 DEF Unanswered, AnswerReviewed, AnswerInWindow, ListedPathsFound

LEMMA ChangeGrantsStep == ASSUME ApiInv, NEW n \in Names, ChangeGrants(n) PROVE ApiInv'
<1>. USE DEF ApiInv
<1>1. /\ UNCHANGED <<faults, req, pc, responses, answer, keys, window>> /\ pc # "none"
      /\ changes' = changes + 1
  BY DEF ChangeGrants, Changes
<1>2. changes' \in 0..MaxChanges
  BY ApiAssumption DEF ChangeGrants, Changes, TypeOK
<1>3. grants' \in [Names -> SUBSET (Users \cup Groups)]
  BY DEF ChangeGrants, TypeOK
<1>4. Routed'
  BY <1>1, Zenon DEF Routed, TheRoute
<1>5. Reviewed'
  <2>1. Name' = Name
    BY <1>1, Zenon DEF Name, TheRoute
  <2>. QED
    BY <1>1, <2>1 DEF Reviewed, WellFormed
<1>. QED
  BY <1>1, <1>2, <1>3, <1>4, <1>5 DEF TypeOK, Unanswered, AnswerReviewed, AnswerInWindow,
    ListedPathsFound

LEMMA ApiStep == ASSUME ApiInv, [Next]_vars PROVE ApiInv'
<1>1. CASE UNCHANGED vars
  <2>1. Name' = Name /\ TheRoute' = TheRoute
    BY <1>1, Zenon DEF Name, TheRoute, vars
  <2>. QED
    BY <1>1, <2>1 DEF vars, ApiInv, TypeOK, Unanswered, Routed, Reviewed, WellFormed,
      AnswerReviewed, AnswerInWindow, ListedPathsFound
<1>. QED
  BY <1>1, ArriveStep, DispatchStep, AuthorizeStep, ReviewStep, HandlerStep, ChangeKeyStep,
    ChangeGrantsStep, Zenon DEF Next

\* The invariant above holds in every reachable state: a request on its way to
\* the handler took the keys' route, and from its review on, what the
\* SignerKey of its URL is now is in the window.
THEOREM ApiInvariance == Spec => []ApiInv
BY ApiInit, ApiStep, PTL DEF Spec

\* The model is typed, and a request is answered once: no early return of
\* authorize() or of the handlers is missing.
THEOREM ApiTypeCorrect == Spec => []TypeOK
<1>1. ApiInv => TypeOK
  BY DEF ApiInv
<1>. QED
  BY <1>1, ApiInvariance, PTL

\* No route leads around Authorize: a SignerKey is answered only to a GET of
\* its very URL that a review of its name allowed.
THEOREM KeysReviewed == Spec => []AnswerReviewed
<1>1. ApiInv => AnswerReviewed
  BY DEF ApiInv
<1>. QED
  BY <1>1, ApiInvariance, PTL

\* What is answered was the SignerKey at some moment after that review.
THEOREM KeysFresh == Spec => []AnswerFresh
<1>1. ApiInv => AnswerFresh
  BY DEF ApiInv, AnswerInWindow, AnswerFresh
<1>. QED
  BY <1>1, ApiInvariance, PTL

\* Every path the root handler lists is found, for any names and permissions.
THEOREM ListedFound == Spec => []ListedPathsFound
<1>1. ApiInv => ListedPathsFound
  BY DEF ApiInv
<1>. QED
  BY <1>1, ApiInvariance, PTL
=============================================================================
