-------------------------- MODULE ServerBoot_proofs --------------------------
(***************************************************************************)
(* ServerBoot: type correctness, EditsKept and DistrustedMeansOvertaken,   *)
(* for any numbers of pods, edits and faults.  Both rest on what an update *)
(* that is accepted was computed from: the present APIService (Reads).     *)
(***************************************************************************)
EXTENDS ServerBoot, TLAPS

\* A process has an authority from the moment it made one until it ends.
Authorities ==
  \A p \in Pods : proc[p].pc \in {"get", "update", "start", "serving"} => proc[p].ca \in Nat

\* An APIService in hand is an older version or the present one.
Reads ==
  \A p \in Pods :
    proc[p].read # None =>
      /\ proc[p].read.rv <= service.rv
      /\ proc[p].read.rv = service.rv => proc[p].read = service

\* The bundle is the authority published last, and whoever serves has
\* published its own.
Bundle ==
  /\ published # <<>> => service.ca = published[Len(published)]
  /\ \A p \in Pods :
       Serving(p) => \E i \in 1..Len(published) : published[i] = proc[p].ca

BootInv == TypeOK /\ Authorities /\ Reads /\ Bundle

(***************************************************************************)
(* Processes.                                                              *)
(***************************************************************************)
LEMMA InPodType ==
  ASSUME NEW step \in Steps
  PROVE  /\ InPod(step) \in Process /\ InPod(step).pc = step
         /\ InPod(step).ca = None /\ InPod(step).read = None
BY DEF InPod, Process

\* What a step may do to the processes.
LEMMA ProcMoves ==
  ASSUME TypeOK, [Next]_vars
  PROVE  \/ proc' = proc
         \/ \E p \in Pods, step \in {"absent", "boot", "dead"} :
              proc' = [proc EXCEPT ![p] = InPod(step)]
         \/ \E p \in Pods : CreateCerts(p) \/ GetService(p) \/ Start(p)
         \/ \E p \in Pods : UpdateService(p) /\ UpdateAccepted(proc[p].read)
                            /\ proc' = [proc EXCEPT ![p].pc = "start", ![p].read = None]
<1>1. ASSUME NEW p \in Pods, UpdateService(p)
      PROVE  \/ proc' = [proc EXCEPT ![p] = InPod("dead")]
             \/ /\ UpdateAccepted(proc[p].read)
                /\ proc' = [proc EXCEPT ![p].pc = "start", ![p].read = None]
  BY <1>1 DEF UpdateService, CannotCreateCert, Exit
<1>2. ASSUME NEW p \in Pods, Dies(p) \/ Restart(p) \/ Retire(p)
      PROVE  \E step \in {"absent", "boot", "dead"} : proc' = [proc EXCEPT ![p] = InPod(step)]
  BY <1>2 DEF Dies, Exit, Restart, Retire
<1>3. CASE RollOut
  <2>1. newest + 1 \in Pods
    BY <1>3, BootAssumption DEF RollOut, TypeOK, Pods
  <2>. QED
    BY <1>3, <2>1 DEF RollOut
<1>4. CASE EditService \/ UNCHANGED vars
  BY <1>4 DEF EditService, vars
<1>. QED
  BY <1>1, <1>2, <1>3, <1>4 DEF Next, Boot

\* What a step may do to the APIService and to the record of what was
\* published in it.
LEMMA ServiceMoves ==
  ASSUME [Next]_vars
  PROVE  \/ service' = service /\ published' = published
         \/ EditService /\ published' = published
         \/ \E p \in Pods :
              /\ UpdateService(p) /\ UpdateAccepted(proc[p].read)
              /\ service' = [proc[p].read EXCEPT !.ca = proc[p].ca, !.rv = service.rv + 1]
              /\ published' = Append(published, proc[p].ca)
<1>1. ASSUME NEW p \in Pods, UpdateService(p)
      PROVE  \/ service' = service /\ published' = published
             \/ /\ UpdateAccepted(proc[p].read)
                /\ service' = [proc[p].read EXCEPT !.ca = proc[p].ca, !.rv = service.rv + 1]
                /\ published' = Append(published, proc[p].ca)
  BY <1>1 DEF UpdateService
<1>2. ASSUME NEW p \in Pods,
             CreateCerts(p) \/ GetService(p) \/ Start(p) \/ Dies(p) \/ Restart(p) \/ Retire(p)
      PROVE  service' = service /\ published' = published
  BY <1>2 DEF CreateCerts, GetService, Start, Dies, Restart, Retire
<1>3. CASE RollOut \/ EditService \/ UNCHANGED vars
  BY <1>3 DEF RollOut, EditService, vars
<1>. QED
  BY <1>1, <1>2, <1>3 DEF Next, Boot

\* An accepted update puts its authority into the present APIService.
LEMMA UpdateEffect ==
  ASSUME BootInv, NEW p \in Pods, UpdateService(p), UpdateAccepted(proc[p].read)
  PROVE  proc[p].read = service /\ proc[p].ca \in Nat
<1>1. proc[p].pc = "update" /\ proc[p].read # None
  BY DEF BootInv, TypeOK, UpdateService
<1>. QED
  BY <1>1 DEF BootInv, Authorities, Reads, UpdateAccepted

(***************************************************************************)
(* The parts of the invariant.                                             *)
(***************************************************************************)
\* A process, after a step, is as it was, new, or one step further.
LEMMA ProcStep ==
  ASSUME BootInv, [Next]_vars, NEW p \in Pods
  PROVE  \/ proc'[p] = proc[p]
         \/ proc'[p] \in {InPod("absent"), InPod("boot"), InPod("dead")}
         \/ proc'[p] = [pc |-> "get", ca |-> made + 1, read |-> proc[p].read]
            /\ proc[p].pc = "boot"
         \/ proc'[p] = [pc |-> "update", ca |-> proc[p].ca, read |-> service]
            /\ proc[p].pc = "get"
         \/ proc'[p] = [pc |-> "start", ca |-> proc[p].ca, read |-> None]
            /\ UpdateService(p) /\ UpdateAccepted(proc[p].read)
         \/ proc'[p] = [pc |-> "serving", ca |-> proc[p].ca, read |-> proc[p].read]
            /\ proc[p].pc = "start"
<1>1. proc \in [Pods -> Process]
  BY DEF BootInv, TypeOK
<1>2. ASSUME NEW q \in Pods, CreateCerts(q)
      PROVE  \/ proc'[p] = proc[p]
             \/ proc'[p] = [pc |-> "get", ca |-> made + 1, read |-> proc[p].read]
                /\ proc[p].pc = "boot"
  BY <1>1, <1>2 DEF CreateCerts, Process
<1>3. ASSUME NEW q \in Pods, GetService(q)
      PROVE  \/ proc'[p] = proc[p]
             \/ proc'[p] = [pc |-> "update", ca |-> proc[p].ca, read |-> service]
                /\ proc[p].pc = "get"
  BY <1>1, <1>3 DEF GetService, Process
<1>4. ASSUME NEW q \in Pods, Start(q)
      PROVE  \/ proc'[p] = proc[p]
             \/ proc'[p] = [pc |-> "serving", ca |-> proc[p].ca, read |-> proc[p].read]
                /\ proc[p].pc = "start"
  BY <1>1, <1>4 DEF Start, Process
<1>5. ASSUME NEW q \in Pods, UpdateService(q), UpdateAccepted(proc[q].read),
             proc' = [proc EXCEPT ![q].pc = "start", ![q].read = None]
      PROVE  \/ proc'[p] = proc[p]
             \/ proc'[p] = [pc |-> "start", ca |-> proc[p].ca, read |-> None]
                /\ UpdateService(p) /\ UpdateAccepted(proc[p].read)
  <2>1. CASE q = p
    BY <1>1, <1>5, <2>1 DEF Process
  <2>2. CASE q # p
    BY <1>1, <1>5, <2>2
  <2>. QED
    BY <2>1, <2>2
<1>6. ASSUME NEW q \in Pods, NEW step \in {"absent", "boot", "dead"},
             proc' = [proc EXCEPT ![q] = InPod(step)]
      PROVE  \/ proc'[p] = proc[p]
             \/ proc'[p] \in {InPod("absent"), InPod("boot"), InPod("dead")}
  BY <1>1, <1>6
<1>. QED
  BY <1>2, <1>3, <1>4, <1>5, <1>6, ProcMoves DEF BootInv

LEMMA ProcFields ==
  ASSUME BootInv, [Next]_vars, NEW p \in Pods
  PROVE  \/ proc'[p] = proc[p]
         \/ proc'[p].pc \in {"absent", "boot", "dead"} /\ proc'[p].read = None
         \/ /\ proc'[p].pc = "get" /\ proc'[p].ca = made + 1
            /\ proc'[p].read = proc[p].read
         \/ /\ proc'[p].pc = "update" /\ proc'[p].ca = proc[p].ca
            /\ proc[p].pc = "get" /\ proc'[p].read = service
         \/ /\ proc'[p].pc = "start" /\ proc'[p].ca = proc[p].ca /\ proc[p].pc = "update"
            /\ proc'[p].read = None /\ UpdateService(p) /\ UpdateAccepted(proc[p].read)
         \/ /\ proc'[p].pc = "serving" /\ proc'[p].ca = proc[p].ca
            /\ proc[p].pc = "start" /\ proc'[p].read = proc[p].read
<1>1. CASE proc'[p] \in {InPod("absent"), InPod("boot"), InPod("dead")}
  BY <1>1 DEF InPod
<1>2. CASE proc'[p] = [pc |-> "get", ca |-> made + 1, read |-> proc[p].read]
  BY <1>2
<1>3. CASE /\ proc'[p] = [pc |-> "update", ca |-> proc[p].ca, read |-> service]
           /\ proc[p].pc = "get"
  BY <1>3
<1>4. CASE /\ proc'[p] = [pc |-> "start", ca |-> proc[p].ca, read |-> None]
           /\ UpdateService(p) /\ UpdateAccepted(proc[p].read)
  <2>1. proc[p].pc = "update"
    BY <1>4 DEF UpdateService
  <2>. QED
    BY <1>4, <2>1
<1>5. CASE /\ proc'[p] = [pc |-> "serving", ca |-> proc[p].ca, read |-> proc[p].read]
           /\ proc[p].pc = "start"
  BY <1>5
<1>. QED
  BY <1>1, <1>2, <1>3, <1>4, <1>5, ProcStep

LEMMA ServiceStep ==
  ASSUME BootInv, [Next]_vars
  PROVE  /\ service' \in APIService
         /\ service'.edits >= service.edits
         /\ \/ service' = service /\ published' = published
            \/ /\ service'.rv = service.rv + 1
               /\ \/ service'.ca = service.ca /\ published' = published
                  \/ \E p \in Pods : /\ UpdateService(p) /\ UpdateAccepted(proc[p].read)
                                     /\ proc[p].ca \in Nat
                                     /\ service'.ca = proc[p].ca
                                     /\ published' = Append(published, proc[p].ca)
<1>1. service \in APIService /\ service.edits \in Nat /\ MaxEdits \in Nat /\ service.rv \in Nat
  BY BootAssumption DEF BootInv, TypeOK, APIService
<1>2. ASSUME EditService
      PROVE  /\ service' \in APIService /\ service'.edits >= service.edits
             /\ service'.rv = service.rv + 1 /\ service'.ca = service.ca
  <2>1. service' = [ca |-> service.ca, edits |-> service.edits + 1, rv |-> service.rv + 1]
    BY <1>1, <1>2 DEF EditService, APIService
  <2>2. service.edits + 1 \in 0..MaxEdits /\ service.rv + 1 \in Nat
    BY <1>1, <1>2 DEF EditService
  <2>. QED
    BY <1>1, <2>1, <2>2 DEF APIService
<1>3. ASSUME NEW p \in Pods, UpdateService(p), UpdateAccepted(proc[p].read),
             service' = [proc[p].read EXCEPT !.ca = proc[p].ca, !.rv = service.rv + 1]
      PROVE  /\ service' \in APIService /\ service'.edits >= service.edits
             /\ service'.rv = service.rv + 1 /\ service'.ca = proc[p].ca
             /\ proc[p].ca \in Nat
  <2>1. proc[p].read = service /\ proc[p].ca \in Nat
    BY <1>3, UpdateEffect
  <2>2. service' = [ca |-> proc[p].ca, edits |-> service.edits, rv |-> service.rv + 1]
    BY <1>1, <1>3, <2>1 DEF APIService
  <2>3. service.rv + 1 \in Nat
    BY <1>1
  <2>. QED
    BY <1>1, <2>1, <2>2, <2>3 DEF APIService
<1>4. CASE service' = service /\ published' = published
  BY <1>1, <1>4
<1>5. CASE EditService /\ published' = published
  BY <1>2, <1>5
<1>6. ASSUME NEW p \in Pods, UpdateService(p), UpdateAccepted(proc[p].read),
             service' = [proc[p].read EXCEPT !.ca = proc[p].ca, !.rv = service.rv + 1],
             published' = Append(published, proc[p].ca)
      PROVE  /\ service' \in APIService /\ service'.edits >= service.edits
             /\ service'.rv = service.rv + 1
             /\ \E q \in Pods : /\ UpdateService(q) /\ UpdateAccepted(proc[q].read)
                                /\ proc[q].ca \in Nat
                                /\ service'.ca = proc[q].ca
                                /\ published' = Append(published, proc[q].ca)
  BY <1>3, <1>6
<1>. QED
  BY <1>4, <1>5, <1>6, ServiceMoves

LEMMA CountersStep ==
  ASSUME TypeOK, [Next]_vars
  PROVE  newest' \in Pods /\ made' \in Nat /\ faults' \in 0..MaxFaults
<1>1. newest \in Pods /\ made \in Nat /\ faults \in 0..MaxFaults /\ MaxFaults \in Nat
  BY BootAssumption DEF TypeOK
<1>2. newest' \in Pods
  <2>1. CASE RollOut
    BY <1>1, <2>1, BootAssumption DEF RollOut, Pods
  <2>2. CASE newest' = newest
    BY <1>1, <2>2
  <2>. QED
    BY <2>1, <2>2 DEF Next, Boot, CreateCerts, GetService, UpdateService, Start, Dies,
                      Restart, Retire, EditService, vars
<1>3. made' \in {made, made + 1}
  BY DEF Next, Boot, CreateCerts, GetService, UpdateService, Start, Dies,
         Restart, RollOut, Retire, EditService, vars
<1>4. faults' = faults \/ (faults < MaxFaults /\ faults' = faults + 1)
  BY DEF Next, Boot, CreateCerts, GetService, UpdateService, Start, Dies,
         Restart, RollOut, Retire, EditService, vars, Fault, NoFault
<1>. QED
  BY <1>1, <1>2, <1>3, <1>4

LEMMA BootTypes ==
  ASSUME BootInv, [Next]_vars
  PROVE  TypeOK'
<1>1. /\ proc \in [Pods -> Process] /\ service \in APIService /\ made \in Nat
      /\ published \in Seq(Nat)
      /\ \A p \in Pods : proc[p].pc = "update" <=> proc[p].read # None
  BY DEF BootInv, TypeOK
<1>2. ASSUME NEW p \in Pods
      PROVE  proc'[p] \in Process /\ (proc'[p].pc = "update" <=> proc'[p].read # None)
  <2>1. proc[p] \in Process /\ service # None /\ made + 1 \in Nat
        /\ (proc[p].pc = "update" <=> proc[p].read # None)
    BY <1>1, BootAssumption
  <2>2. CASE proc'[p] = proc[p]
    BY <2>1, <2>2
  <2>3. CASE proc'[p] \in {InPod("absent"), InPod("boot"), InPod("dead")}
    BY <2>3, InPodType DEF Steps
  <2>4. CASE /\ proc'[p] = [pc |-> "get", ca |-> made + 1, read |-> proc[p].read]
             /\ proc[p].pc = "boot"
    BY <2>1, <2>4 DEF Process, Steps
  <2>5. CASE /\ proc'[p] = [pc |-> "update", ca |-> proc[p].ca, read |-> service]
             /\ proc[p].pc = "get"
    BY <1>1, <2>1, <2>5 DEF Process, Steps
  <2>6. CASE proc'[p] = [pc |-> "start", ca |-> proc[p].ca, read |-> None]
    BY <2>1, <2>6 DEF Process, Steps
  <2>7. CASE /\ proc'[p] = [pc |-> "serving", ca |-> proc[p].ca, read |-> proc[p].read]
             /\ proc[p].pc = "start"
    BY <2>1, <2>7 DEF Process, Steps
  <2>. QED
    BY <2>2, <2>3, <2>4, <2>5, <2>6, <2>7, ProcStep
<1>3. DOMAIN proc' = Pods /\ proc' = [p \in Pods |-> proc'[p]]
  BY <1>1, ProcMoves DEF BootInv, CreateCerts, GetService, Start
<1>4. proc' \in [Pods -> Process]
  BY <1>2, <1>3
<1>5. service' \in APIService /\ published' \in Seq(Nat)
  BY <1>1, ServiceStep
<1>. QED
  BY <1>2, <1>4, <1>5, CountersStep DEF BootInv, TypeOK

LEMMA AuthoritiesStep ==
  ASSUME BootInv, [Next]_vars
  PROVE  Authorities'
<1>1. SUFFICES ASSUME NEW p \in Pods, proc'[p].pc \in {"get", "update", "start", "serving"}
               PROVE  proc'[p].ca \in Nat
  BY DEF Authorities
<1>2. /\ proc[p].pc \in {"get", "update", "start", "serving"} => proc[p].ca \in Nat
      /\ made \in Nat
  BY DEF BootInv, TypeOK, Authorities
<1>. QED
  BY <1>1, <1>2, ProcFields

LEMMA ReadsStep ==
  ASSUME BootInv, [Next]_vars
  PROVE  Reads'
<1>1. SUFFICES ASSUME NEW p \in Pods, proc'[p].read # None
               PROVE  /\ proc'[p].read.rv <= service'.rv
                      /\ proc'[p].read.rv = service'.rv => proc'[p].read = service'
  BY DEF Reads
<1>2. /\ proc[p].read # None => /\ proc[p].read.rv <= service.rv
                                /\ proc[p].read.rv = service.rv => proc[p].read = service
      /\ proc[p] \in Process /\ service \in APIService
  BY DEF BootInv, TypeOK, Reads
<1>3. service.rv \in Nat /\ (proc[p].read # None => proc[p].read.rv \in Nat)
  BY <1>2 DEF Process, APIService
<1>4. service' = service \/ service'.rv = service.rv + 1
  BY ServiceStep
<1>5. proc'[p].read = proc[p].read \/ proc'[p].read = service
  BY <1>1, ProcFields
<1>. QED
  BY <1>1, <1>2, <1>3, <1>4, <1>5

LEMMA BundleStep ==
  ASSUME BootInv, [Next]_vars
  PROVE  Bundle'
<1>1. published \in Seq(Nat) /\ Bundle
  BY DEF BootInv, TypeOK
<1>2. \A i \in 1..Len(published) :
        i \in 1..Len(published') /\ published'[i] = published[i]
  BY <1>1, ServiceStep
<1>3. published' # <<>> => service'.ca = published'[Len(published')]
  BY <1>1, ServiceStep DEF Bundle
<1>4. ASSUME NEW p \in Pods, proc'[p].pc \in {"start", "serving"}
      PROVE  \E i \in 1..Len(published') : published'[i] = proc'[p].ca
  <2>1. CASE Serving(p) /\ proc'[p].ca = proc[p].ca
    BY <1>1, <1>2, <2>1 DEF Bundle
  <2>2. CASE UpdateService(p) /\ UpdateAccepted(proc[p].read) /\ proc'[p].ca = proc[p].ca
    <3>1. proc[p].ca \in Nat /\ published' = Append(published, proc[p].ca)
      BY <2>2, UpdateEffect DEF UpdateService
    <3>. QED
      BY <1>1, <2>2, <3>1
  <2>. QED
    BY <1>4, <2>1, <2>2, ProcFields DEF Serving
<1>. QED
  BY <1>3, <1>4 DEF Bundle, Serving

LEMMA InitBoot ==
  ASSUME Init
  PROVE  BootInv
<1>1. \A p \in Pods : /\ proc[p] \in {InPod("boot"), InPod("absent")}
                      /\ proc[p] \in Process /\ proc[p].pc \in {"boot", "absent"}
                      /\ proc[p].read = None
  BY InPodType DEF Init, Steps
<1>2. TypeOK
  <2>1. proc \in [Pods -> Process]
    BY <1>1 DEF Init
  <2>2. service \in APIService /\ faults \in 0..MaxFaults /\ newest \in Pods
    BY BootAssumption DEF Init, APIService, Pods
  <2>3. made \in Nat /\ published \in Seq(Nat)
    BY DEF Init
  <2>. QED
    BY <1>1, <2>1, <2>2, <2>3 DEF TypeOK
<1>. QED
  BY <1>1, <1>2 DEF Init, BootInv, Authorities, Reads, Bundle, Serving

(***************************************************************************)
(* Theorems.                                                               *)
(***************************************************************************)
\* BootInv is an invariant.
THEOREM BootInvariance == Spec => []BootInv
<1>1. Init => BootInv
  BY InitBoot
<1>2. BootInv /\ [Next]_vars => BootInv'
  BY BootTypes, AuthoritiesStep, ReadsStep, BundleStep DEF BootInv
<1>. QED
  BY <1>1, <1>2, PTL DEF Spec

\* The variables keep their types, and a process holds an APIService just
\* between createCert's Get and its Update.
THEOREM BootTypeCorrect == Spec => []TypeOK
<1>1. BootInv => TypeOK
  BY DEF BootInv
<1>. QED
  BY <1>1, BootInvariance, PTL

\* createCert never takes back an edit of the APIService: the version it read
\* is checked by the update.
THEOREM UsersEditsKept == Spec => EditsKept
<1>1. BootInv /\ [Next]_vars => [service'.edits >= service.edits]_vars
  BY ServiceStep
<1>. QED
  BY <1>1, BootInvariance, PTL DEF Spec, EditsKept

\* A process that serves has published its authority, and is distrusted only
\* if a later one has taken its place in the CA bundle.
THEOREM OnlyOvertakenDistrusted == Spec => []DistrustedMeansOvertaken
<1>1. BootInv => DistrustedMeansOvertaken
  <2>1. SUFFICES ASSUME BootInv, NEW p \in Pods, Serving(p)
                 PROVE  \E i \in DOMAIN published :
                          /\ published[i] = proc[p].ca
                          /\ Trusted(p) \/ (i < Len(published) /\ service.ca = Last(published))
    BY DEF DistrustedMeansOvertaken
  <2>2. published \in Seq(Nat) /\ Bundle
    BY <2>1 DEF BootInv, TypeOK
  <2>3. PICK i \in 1..Len(published) : published[i] = proc[p].ca
    BY <2>1, <2>2 DEF Bundle
  <2>4. published # <<>> /\ DOMAIN published = 1..Len(published)
    BY <2>2, <2>3
  <2>5. service.ca = published[Len(published)]
    BY <2>2, <2>4 DEF Bundle
  <2>6. i = Len(published) \/ i < Len(published)
    <3>1. Len(published) \in Nat
      BY <2>2
    <3>2. \A n \in Nat : \A j \in 1..n : j = n \/ j < n
      OBVIOUS
    <3>. QED
      BY <2>3, <3>1, <3>2
  <2>. QED
    BY <2>3, <2>4, <2>5, <2>6 DEF Trusted, Last
<1>. QED
  BY <1>1, BootInvariance, PTL
=============================================================================
