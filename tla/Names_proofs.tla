---------------------------- MODULE Names_proofs ----------------------------
(***************************************************************************)
(* Names: a target name is that of one repository, for names of any        *)
(* letters but the two separators, and of any length.                      *)
(*                                                                         *)
(* The argument: a target name has the parts it was joined from (CutSlash: *)
(* what comes before the first slash is what was put before it), so it     *)
(* gives the Registry, and with it the login URL, and the image's name.    *)
(* A reference to an image with a port has no tag, and docker refuses it.  *)
(***************************************************************************)
EXTENDS Names, SequenceTheorems, WellFoundedInduction, TLAPS

LEMMA BoundedIsSeq ==
  ASSUME NEW S, NEW n \in Nat, NEW s \in BoundedSeq(S, n)
  PROVE  s \in Seq(S)
BY DEF BoundedSeq, SeqOf

Chars == Letters \cup {":", "/", "5"}

Words == Seq(Chars)

LEMMA LeastExists ==
  ASSUME NEW I, I \subseteq Nat, I # {}
  PROVE  Min(I) \in I
<1>1. PICK R : R = OpToRel(<, Nat)
  BY Zenon
<1>2. PICK m \in I : \A y \in I : ~(<<y, m>> \in R)
  BY Zenon, <1>1, NatLessThanWellFounded, WFMin
<1>3. \A x, y \in Nat : x < y => <<x, y>> \in R
  BY Zenon, <1>1 DEF OpToRel
<1>4. \A y \in I : ~(y < m)
  BY Zenon, <1>2, <1>3
<1>5. \A y \in I : m <= y
  BY <1>4, SMT
<1>. QED
  BY Zenon, <1>5 DEF Min

\* What is before a character of a word is a word.
LEMMA BeforeIsWord ==
  ASSUME NEW s \in Words, NEW c
  PROVE  Before(s, c) \in Words
<1>. DEFINE I == {i \in 1..Len(s) : s[i] = c}
            n == IF I # {} THEN Min(I) ELSE 0
<1>1. I \subseteq 1..Len(s) /\ I \subseteq Nat
  OBVIOUS
<1>2. Before(s, c) = IF n = 0 THEN s ELSE SubSeq(s, 1, n - 1)
  BY Zenon DEF Before, SelectInSeq
<1>3. n = 0 \/ n \in 1..Len(s)
  BY Zenon, <1>1, LeastExists
<1>. HIDE DEF n
<1>4. ASSUME n \in 1..Len(s) PROVE SubSeq(s, 1, n - 1) \in Words
  BY <1>4 DEF Words
<1>. QED
  BY Zenon, <1>2, <1>3, <1>4

Slash == <<"/">>

Pieces == {x \in Words : \A i \in 1..Len(x) : x[i] # "/"}

LEMMA SlashedParts ==
  ASSUME NEW s \in Pieces, NEW t \in Words
  PROVE  LET x == Slashed(s, t)
         IN  /\ Len(x) = Len(s) + 1 + Len(t) /\ Len(s) \in Nat /\ Len(t) \in Nat
             /\ \A i \in 1..Len(s) : x[i] = s[i] /\ s[i] # "/"
             /\ x[Len(s) + 1] = "/"
             /\ \A i \in 1..Len(t) : x[Len(s) + 1 + i] = t[i]
<1>. DEFINE S == Chars
            x == (s \o <<"/">>) \o t
<1>1. s \in Seq(S) /\ t \in Seq(S) /\ "/" \in S /\ \A i \in 1..Len(s) : s[i] # "/"
  BY DEF Pieces, Words, Chars
<1>. HIDE DEF S
<1>2. /\ Len(x) = Len(s) + 1 + Len(t) /\ Len(s) \in Nat /\ Len(t) \in Nat
      /\ \A i \in 1..Len(s) : x[i] = s[i]
      /\ x[Len(s) + 1] = "/"
      /\ \A i \in 1..Len(t) : x[Len(s) + 1 + i] = t[i]
  BY <1>1
<1>. QED
  BY <1>1, <1>2, Zenon DEF Slashed, Slash

\* Without a slash of its own, what comes before the first one is determined.
LEMMA CutSlash ==
  ASSUME NEW s \in Pieces, NEW t \in Words, NEW u \in Pieces, NEW v \in Words
  PROVE  Slashed(s, t) = Slashed(u, v) <=> s = u /\ t = v
<1>. DEFINE x == Slashed(s, t)
            y == Slashed(u, v)
<1>0. s \in Words /\ u \in Words
  BY Zenon DEF Pieces
<1>1. /\ Len(x) = Len(s) + 1 + Len(t) /\ Len(s) \in Nat /\ Len(t) \in Nat
      /\ \A i \in 1..Len(s) : x[i] = s[i] /\ s[i] # "/"
      /\ x[Len(s) + 1] = "/"
      /\ \A i \in 1..Len(t) : x[Len(s) + 1 + i] = t[i]
  BY SlashedParts
<1>2. /\ Len(y) = Len(u) + 1 + Len(v) /\ Len(u) \in Nat /\ Len(v) \in Nat
      /\ \A i \in 1..Len(u) : y[i] = u[i] /\ u[i] # "/"
      /\ y[Len(u) + 1] = "/"
      /\ \A i \in 1..Len(v) : y[Len(u) + 1 + i] = v[i]
  BY SlashedParts
<1>. HIDE DEF x, y
<1>3. ASSUME x = y
      PROVE  s = u /\ t = v
  <2>1. Len(s) = Len(u)
    <3>1. CASE Len(s) < Len(u)
      <4>1. Len(s) + 1 \in 1..Len(u)
        BY <1>1, <1>2, <3>1
      <4>. QED
        BY <1>1, <1>2, <1>3, <4>1, Zenon
    <3>2. CASE Len(u) < Len(s)
      <4>1. Len(u) + 1 \in 1..Len(s)
        BY <1>1, <1>2, <3>2
      <4>. QED
        BY <1>1, <1>2, <1>3, <4>1, Zenon
    <3>. QED
      BY <1>1, <1>2, <3>1, <3>2
  <2>2. \A i \in 1..Len(s) : s[i] = u[i]
    BY <1>1, <1>2, <1>3, <2>1
  <2>3. s = u
    BY <1>0, <2>1, <2>2, SeqEqual DEF Words
  <2>4. Len(t) = Len(v)
    BY <1>1, <1>2, <1>3, <2>1
  <2>5. \A i \in 1..Len(t) : t[i] = v[i]
    BY <1>1, <1>2, <1>3, <2>1, <2>4
  <2>6. t = v
    BY <2>4, <2>5, SeqEqual DEF Words
  <2>. QED
    BY <2>3, <2>6
<1>. QED
  BY <1>3, Zenon DEF x, y

\* A name without a slash is not one joined of two.
LEMMA NotSlashed ==
  ASSUME NEW s \in Pieces, NEW u \in Pieces, NEW v \in Words
  PROVE  s # Slashed(u, v)
<1>. DEFINE y == Slashed(u, v)
<1>1. /\ Len(y) = Len(u) + 1 + Len(v) /\ Len(u) \in Nat /\ Len(v) \in Nat
      /\ y[Len(u) + 1] = "/"
  BY SlashedParts
<1>. HIDE DEF y
<1>2. Len(u) + 1 \in 1..Len(y)
  BY <1>1
<1>3. \A i \in 1..Len(s) : s[i] # "/"
  BY DEF Pieces
<1>4. s # y
  BY Zenon, <1>1, <1>2, <1>3
<1>. QED
  BY <1>4 DEF y

----------------------------------------------------------------------------
\* The parts of a request.
LEMMA NameIsPiece ==
  ASSUME NEW x \in Name
  PROVE  x \in Seq(Letters) /\ x \in Pieces /\ x \in Words /\ x # <<>>
<1>1. x \in Seq(Letters) /\ x # <<>>
  BY BoundedIsSeq, NamesAssumption DEF Name
<1>2. \A i \in 1..Len(x) : x[i] \in Letters
  BY <1>1, ElementOfSeq
<1>3. x \in Words
  BY <1>1 DEF Words, Chars
<1>. QED
  BY <1>1, <1>2, <1>3, NamesAssumption DEF Pieces

LEMMA Glued ==
  ASSUME NEW s \in Words, NEW t \in Words
  PROVE  s \o t \in Words
BY DEF Words

LEMMA ImageIsWord ==
  ASSUME NEW x \in Image
  PROVE  x \in Words
<1>1. <<"/">> \in Words /\ <<":">> \in Words /\ <<>> \in Words /\ Port \in Words
  BY DEF Words, Chars, Port
<1>2. PICK p \in Path, t \in Tag : x = p \o t
  BY DEF Image
<1>3. p \in Words
  <2>1. ASSUME NEW u \in Words, NEW v \in Words PROVE Slashed(u, v) \in Words
    BY Zenon, <1>1, Glued DEF Slashed
  <2>2. CASE p \in Name
    BY Zenon, <2>2, NameIsPiece
  <2>3. CASE \E q, r \in Name : p = Slashed(q, r)
    BY Zenon, <2>3, <2>1, NameIsPiece
  <2>4. CASE \E h, r \in Name : p = Slashed(h \o Port, r)
    BY Zenon, <2>4, <2>1, <1>1, NameIsPiece, Glued
  <2>5. \/ p \in Name
        \/ \E q, r \in Name : p = Slashed(q, r)
        \/ \E h, r \in Name : p = Slashed(h \o Port, r)
    BY SMT DEF Path
  <2>. QED
    BY Zenon, <2>2, <2>3, <2>4, <2>5
<1>4. t \in Words
  <2>1. CASE t = <<>>
    BY Zenon, <2>1, <1>1
  <2>2. CASE \E n \in Name : t = <<":">> \o n
    BY Zenon, <2>2, <1>1, NameIsPiece, Glued
  <2>. QED
    BY <2>1, <2>2 DEF Tag
<1>. QED
  BY Zenon, <1>2, <1>3, <1>4, Glued

LEMMA Fields ==
  ASSUME NEW r \in Requests
  PROVE  /\ r.namespace \in Pieces /\ r.namespace # <<>> /\ r.namespace \in Words
         /\ r.registry \in Pieces /\ r.registry # <<>> /\ r.registry \in Words
         /\ ParseName(r.image) \in Words
<1>1. r.namespace \in Name /\ r.registry \in Name /\ r.image \in Image
  BY DEF Requests
<1>. QED
  BY Zenon, <1>1, NameIsPiece, ImageIsWord, BeforeIsWord DEF ParseName

\* A target name after its namespace: the Registry's name, and the image's if
\* it has one.
Rest(r) == IF ParseName(r.image) = <<>> THEN r.registry
                                        ELSE Slashed(r.registry, ParseName(r.image))

LEMMA RestIsWord ==
  ASSUME NEW r \in Requests
  PROVE  Rest(r) \in Words
<1>1. <<"/">> \in Words
  BY DEF Words, Chars
<1>. QED
  BY Zenon, <1>1, Fields, Glued DEF Rest, Slashed, Slash

LEMMA TargetOf ==
  ASSUME NEW r \in Requests
  PROVE  TargetName(r) = Slashed(r.namespace, Rest(r))
<1>. DEFINE n == r.namespace
            g == r.registry
            p == ParseName(r.image)
<1>1. n # <<>> /\ g # <<>> /\ n \in Words /\ g \in Words /\ p \in Words
  BY Fields, Zenon
<1>2. TargetName(r) = Join(Join(n, g), p)
  BY Zenon DEF TargetName, BuildTargetName
<1>. HIDE DEF n, g, p
<1>3. Join(n, g) = Slashed(n, g)
  BY <1>1, Zenon DEF Join
<1>4. Slashed(n, g) # <<>>
  <2>1. Len(Slashed(n, g)) # 0
    BY <1>1 DEF Slashed, Slash, Words, Chars
  <2>. QED
    BY <2>1
<1>5. CASE p = <<>>
  BY <1>2, <1>3, <1>4, <1>5, Zenon DEF Join, Rest, n, g, p
<1>6. CASE p # <<>>
  <2>1. TargetName(r) = Slashed(Slashed(n, g), p)
    BY <1>2, <1>3, <1>4, <1>6, Zenon DEF Join
  <2>2. Slash \in Words
    BY DEF Slash, Words, Chars
  <2>3. n \o Slash \in Words /\ g \o Slash \in Words
    BY Zenon, <1>1, <2>2, Glued
  <2>4. n \in Seq(Chars) /\ g \in Seq(Chars) /\ p \in Seq(Chars) /\ Slash \in Seq(Chars)
        /\ n \o Slash \in Seq(Chars) /\ g \o Slash \in Seq(Chars)
    BY Zenon, <1>1, <2>2, <2>3 DEF Words
  <2>5. ((n \o Slash) \o g) \o Slash = (n \o Slash) \o (g \o Slash)
    BY <2>4, ConcatAssociative, SMTT(40)
  <2>6. ((n \o Slash) \o (g \o Slash)) \o p = (n \o Slash) \o ((g \o Slash) \o p)
    BY <2>4, ConcatAssociative, SMTT(40)
  <2>. QED
    BY Zenon, <1>6, <2>1, <2>5, <2>6 DEF Slashed, Slash, Rest, n, g, p
<1>. QED
  BY <1>5, <1>6

\* A target name tells the Registry and the image's name.
LEMMA TargetTells ==
  ASSUME NEW q \in Requests, NEW r \in Requests, TargetName(q) = TargetName(r)
  PROVE  /\ q.namespace = r.namespace /\ q.registry = r.registry
         /\ ParseName(q.image) = ParseName(r.image)
<1>1. q.namespace = r.namespace /\ Rest(q) = Rest(r)
  <2>1. /\ q.namespace \in Pieces /\ r.namespace \in Pieces
        /\ Rest(q) \in Words /\ Rest(r) \in Words
    BY Zenon, Fields, RestIsWord
  <2>2. Slashed(q.namespace, Rest(q)) = Slashed(r.namespace, Rest(r))
    BY Zenon, TargetOf
  <2>. HIDE DEF Rest
  <2>. QED
    BY <2>1, <2>2, CutSlash, SMT
<1>2. CASE ParseName(q.image) = <<>> /\ ParseName(r.image) = <<>>
  BY Zenon, <1>1, <1>2 DEF Rest
<1>3. CASE ParseName(q.image) # <<>> /\ ParseName(r.image) # <<>>
  <2>1. /\ q.registry \in Pieces /\ r.registry \in Pieces
        /\ ParseName(q.image) \in Words /\ ParseName(r.image) \in Words
    BY Zenon, Fields
  <2>2. Slashed(q.registry, ParseName(q.image)) = Slashed(r.registry, ParseName(r.image))
    BY Zenon, <1>1, <1>3 DEF Rest
  <2>. HIDE DEF ParseName, Slashed
  <2>3. q.registry = r.registry /\ ParseName(q.image) = ParseName(r.image)
    BY <2>1, <2>2, CutSlash, SMT
  <2>. QED
    BY Zenon, <1>1, <2>3
<1>4. CASE ParseName(q.image) = <<>> /\ ParseName(r.image) # <<>>
  BY Zenon, <1>1, <1>4, Fields, NotSlashed DEF Rest
<1>5. CASE ParseName(q.image) # <<>> /\ ParseName(r.image) = <<>>
  BY Zenon, <1>1, <1>5, Fields, NotSlashed DEF Rest
<1>. QED
  BY <1>1, <1>2, <1>3, <1>4, <1>5

Given == /\ a \in Requests /\ b \in Requests
         /\ SameRegistry => a.login = b.login

LEMMA OneRepository ==
  ASSUME Given
  PROVE  OneRepositoryPerTarget
<1>. SUFFICES ASSUME Accepted(a), Accepted(b), TargetName(a) = TargetName(b)
              PROVE  Repository(a) = Repository(b)
  BY Zenon DEF OneRepositoryPerTarget
<1>1. SameRegistry /\ ParseName(a.image) = ParseName(b.image)
  BY Zenon, TargetTells DEF Given, SameRegistry
<1>2. a.login = b.login
  BY <1>1 DEF Given
<1>3. ~HasPort(a) /\ ~HasPort(b)
  BY Zenon DEF Accepted
<1>. QED
  BY Zenon, <1>1, <1>2, <1>3 DEF Repository, Named

\* The key recorded under a target name is that of one repository, as long as
\* a Registry has one login URL: what SignRequest takes for granted when it
\* indexes repositories by target.
THEOREM TargetsNameOneRepository == Spec => []OneRepositoryPerTarget
<1>1. Init => Given
  BY Zenon DEF Init, Given
<1>2. Given /\ [UNCHANGED <<a, b>>]_<<a, b>> => Given'
  BY DEF Given, SameRegistry
<1>3. Given => OneRepositoryPerTarget
  BY OneRepository
<1>. QED
  BY <1>1, <1>2, <1>3, PTL DEF Spec
=============================================================================
