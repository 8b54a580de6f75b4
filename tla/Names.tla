------------------------------- MODULE Names -------------------------------
(***************************************************************************)
(* The names an ImageSignRequest leads to: the target name under which its *)
(* key is recorded in the SignerKey (utils.ParseImage, buildTargetName),   *)
(* and the repository that is signed and pushed (RegCtl.GetEndpoint,       *)
(* SignImage).  SignRequest indexes its `repos' by target.                 *)
(*                                                                         *)
(* A string is the sequence of its characters.  Nothing happens: each      *)
(* initial state is two requests and the login URLs of their registries.   *)
(***************************************************************************)
EXTENDS Naturals, Sequences, SequencesExt

CONSTANTS
  Letters,   \* characters of names, those of "https" included
  MaxName    \* bound: characters of a name

ASSUME NamesAssumption == Letters \cap {":", "/"} = {} /\ MaxName \in Nat

VARIABLES a, b  \* two requests

Name == BoundedSeq(Letters, MaxName) \ {<<>>}

Https == <<"h", "t", "t", "p", "s", ":", "/", "/">>

Port == <<":", "5">>

Slashed(s, t) == s \o <<"/">> \o t

\* A path is one name, or two with a slash; the first may be a registry's port.
Path == Name \cup {Slashed(p, q) : p, q \in Name} \cup {Slashed(h \o Port, p) : h, p \in Name}

Tag == {<<>>} \cup {<<":">> \o n : n \in Name}

Image == {p \o t : p \in Path, t \in Tag}

\* A Registry's login URL has a scheme or none, a port or none; a Registry
\* without the annotation has no URL.
Login == {<<>>} \cup {s \o h \o p : s \in {Https, <<>>}, h \in Name, p \in {Port, <<>>}}

Requests == [namespace: Name, registry: Name, image: Image, login: Login]

SameRegistry == a.namespace = b.namespace /\ a.registry = b.registry

\* One Registry has one login URL, for as long as nobody edits it.
Init ==
  /\ a \in Requests /\ b \in Requests
  /\ SameRegistry => a.login = b.login

Spec == Init /\ [][UNCHANGED <<a, b>>]_<<a, b>>

----------------------------------------------------------------------------
\* path.Join of names that need no cleaning (no "." or ".." among them):
\* empty ones are left out.
Join(s, t) == IF s = <<>> THEN t ELSE IF t = <<>> THEN s ELSE Slashed(s, t)

\* The part of s before the first c, or all of it.
Before(s, c) ==
  LET i == SelectInSeq(s, LAMBDA x : x = c) IN IF i = 0 THEN s ELSE SubSeq(s, 1, i - 1)

\* ParseImage: the first and, if there is one, the second field between colons.
ParseName(image) == Before(image, ":")

ParseTag(image) == Before(SubSeq(image, Len(ParseName(image)) + 2, Len(image)), ":")

\* Mutant: the registry's namespace is left out.
BuildShortName(registry, namespace, image) == Join(registry, image)

BuildTargetName(registry, namespace, image) == Join(Join(namespace, registry), image)

TargetName(r) == BuildTargetName(r.registry, r.namespace, ParseName(r.image))

\* strings.TrimLeft: characters of the cutset go, in whatever order they come.
TrimLeft(s, cutset) ==
  LET i == SelectInSeq(s, LAMBDA x : x \notin cutset)
  IN IF i = 0 THEN <<>> ELSE SubSeq(s, i, Len(s))

GetEndpoint(url) == TrimLeft(url, ToSet(Https))

\* What SignImage tags and signs, before the colon and the tag.
Named(r) == Join(GetEndpoint(r.login), ParseName(r.image))

\* "host:5/path", split at its colon and put together again, has no tag.
HasPort(r) == "/" \in ToSet(ParseTag(r.image))

\* `docker trust sign' wants a tag; after a port there is none left.
Accepted(r) == ParseTag(r.image) # <<>> /\ ~HasPort(r)

\* The repository the reference names.
Repository(r) == IF HasPort(r) THEN Named(r) \o <<":">> \o ParseTag(r.image) ELSE Named(r)

----------------------------------------------------------------------------
\* Properties.

\* What SignRequest relies on: the key recorded under a target name is that of
\* one repository, whatever GetEndpoint leaves of the login URL.  Of images
\* with a port that is so only because docker refuses them: ParseImage makes
\* "host" of both "host:5/x" and "host:5/y".
OneRepositoryPerTarget ==
  Accepted(a) /\ Accepted(b) /\ TargetName(a) = TargetName(b) => Repository(a) = Repository(b)
=============================================================================
