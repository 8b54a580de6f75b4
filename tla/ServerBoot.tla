----------------------------- MODULE ServerBoot -----------------------------
(***************************************************************************)
(* How an operator process comes to serve the extension API (pkg/apiserver/*)
(* server.go, cert.go, and main.go): it makes an authority and a server    *)
(* certificate of its own, publishes the authority in the APIService,      *)
(* starts the reconcilers, and serves.  The kube-apiserver forwards a      *)
(* request only to a process whose authority the APIService names.         *)
(*                                                                         *)
(* The Deployment has one replica, whose container restarts when it ends;  *)
(* a rolling update starts the next pod before it deletes the last.  The   *)
(* certificate files are the container's own.                              *)
(***************************************************************************)
EXTENDS Naturals, Sequences, SequencesExt

CONSTANTS
  MaxPods,   \* bound: pods of the Deployment, one after the other
  MaxEdits,  \* bound: edits of the APIService by users
  MaxFaults, \* bound: crashes and failed calls
  None

VARIABLES
  service,   \* the APIService: its CABundle's authority, users' edits, version
  proc,      \* proc[p]: the process in pod p
  newest,    \* the Deployment's latest pod
  made,      \* authorities made so far
  published, \* history: authorities in the order they were published
  faults

vars == <<service, proc, newest, made, published, faults>>

Pods == 1..MaxPods

APIService == [ca: Nat \cup {None}, edits: 0..MaxEdits, rv: Nat]

Steps == {"absent", "boot", "get", "update", "start", "serving", "dead"}

Process == [pc: Steps, ca: Nat \cup {None}, read: APIService \cup {None}]

ASSUME BootAssumption ==
  /\ MaxPods \in Nat \ {0} /\ MaxEdits \in Nat /\ MaxFaults \in Nat
  /\ None \notin Nat /\ None \notin APIService

\* What was read of the APIService is held until the update, and no longer.
TypeOK ==
  /\ service \in APIService
  /\ proc \in [Pods -> Process]
  /\ \A p \in Pods : proc[p].pc = "update" <=> proc[p].read # None
  /\ newest \in Pods
  /\ made \in Nat
  /\ published \in Seq(Nat)
  /\ faults \in 0..MaxFaults

InPod(step) == [pc |-> step, ca |-> None, read |-> None]

Init ==
  /\ service = [ca |-> None, edits |-> 0, rv |-> 0]
  /\ proc = [p \in Pods |-> InPod(IF p = 1 THEN "boot" ELSE "absent")]
  /\ newest = 1
  /\ made = 0 /\ published = <<>> /\ faults = 0

Fault == faults < MaxFaults /\ faults' = faults + 1
NoFault == UNCHANGED faults

----------------------------------------------------------------------------
\* os.Exit ends the process, whichever goroutine calls it.
Exit(p) == proc' = [proc EXCEPT ![p] = InPod("dead")]

\* New: CreateCerts, and the key and certificate files.
CreateCerts(p) ==
  /\ proc[p].pc = "boot"
  /\ made' = made + 1
  /\ proc' = [proc EXCEPT ![p].pc = "get", ![p].ca = made + 1]
  /\ NoFault
  /\ UNCHANGED <<service, newest, published>>

GetService(p) ==
  /\ proc[p].pc = "get"
  /\ proc' = [proc EXCEPT ![p].pc = "update", ![p].read = service]
  /\ NoFault
  /\ UNCHANGED <<service, newest, made, published>>

\* Mutant: an update without a resource version.
UncheckedUpdate(read) == read # None

\* Optimistic locking: the update carries the version that was read.
UpdateAccepted(read) == read.rv = service.rv

\* Mutant: the error is only logged.
LogsOnly(p) == proc' = [proc EXCEPT ![p].pc = "start"]

\* createCert's error: "cannot create cert".
CannotCreateCert(p) == Exit(p)

\* The object read is written back with the new bundle; a conflict, or an
\* error reported after the write, ends the process.
UpdateService(p) ==
  /\ proc[p].pc = "update"
  /\ \/ /\ UpdateAccepted(proc[p].read)
        /\ service' = [proc[p].read EXCEPT !.ca = proc[p].ca, !.rv = service.rv + 1]
        /\ published' = Append(published, proc[p].ca)
        /\ \/ NoFault /\ proc' = [proc EXCEPT ![p].pc = "start", ![p].read = None]
           \/ Fault /\ CannotCreateCert(p)
     \/ /\ ~UpdateAccepted(proc[p].read)
        /\ CannotCreateCert(p)
        /\ NoFault
        /\ UNCHANGED <<service, published>>
  /\ UNCHANGED <<newest, made>>

\* The goroutine: Initiate, tlsConfig, ListenAndServeTLS.
Start(p) ==
  /\ proc[p].pc = "start"
  /\ proc' = [proc EXCEPT ![p].pc = "serving"]
  /\ NoFault
  /\ UNCHANGED <<service, newest, made, published>>

Boot(p) == CreateCerts(p) \/ GetService(p) \/ UpdateService(p) \/ Start(p)

Running(p) == proc[p].pc \notin {"absent", "dead"}

\* A call of New or Start fails, the API server's goroutine or the manager
\* gives up, or the process crashes: all of it ends.
Dies(p) ==
  /\ Running(p)
  /\ Exit(p)
  /\ Fault
  /\ UNCHANGED <<service, newest, made, published>>

\* The kubelet restarts the container.
Restart(p) ==
  /\ proc[p].pc = "dead"
  /\ proc' = [proc EXCEPT ![p] = InPod("boot")]
  /\ NoFault
  /\ UNCHANGED <<service, newest, made, published>>

\* A rolling update starts the next pod ...
RollOut ==
  /\ newest < MaxPods
  /\ newest' = newest + 1
  /\ proc' = [proc EXCEPT ![newest + 1] = InPod("boot")]
  /\ NoFault
  /\ UNCHANGED <<service, made, published>>

\* ... and deletes an older one when it runs: there is no readiness probe.
Retire(p) ==
  /\ p < newest /\ proc[p].pc # "absent" /\ Running(newest)
  /\ proc' = [proc EXCEPT ![p] = InPod("absent")]
  /\ NoFault
  /\ UNCHANGED <<service, newest, made, published>>

EditService ==
  /\ service.edits < MaxEdits
  /\ service' = [service EXCEPT !.edits = @ + 1, !.rv = @ + 1]
  /\ NoFault
  /\ UNCHANGED <<proc, newest, made, published>>

Next ==
  \/ \E p \in Pods : Boot(p) \/ Dies(p) \/ Restart(p) \/ Retire(p)
  \/ RollOut \/ EditService

Spec == Init /\ [][Next]_vars

\* Go runs a process on, the kubelet restarts it, and a rolling update ends.
FairSpec ==
  /\ Spec
  /\ \A p \in Pods : WF_vars(Boot(p)) /\ WF_vars(Restart(p)) /\ WF_vars(Retire(p))

----------------------------------------------------------------------------
\* Properties.

\* A booting process never takes back what users write in the APIService.
EditsKept == [][service'.edits >= service.edits]_vars

Serving(p) == proc[p].pc \in {"start", "serving"}

Trusted(p) == service.ca = proc[p].ca

\* A process serves only after its authority was published, and
\* is distrusted only because one that published later has overwritten it,
\* restarts, conflicts and two pods at once included.
DistrustedMeansOvertaken ==
  \A p \in Pods :
    Serving(p) =>
      \E i \in DOMAIN published :
        /\ published[i] = proc[p].ca
        /\ Trusted(p) \/ (i < Len(published) /\ service.ca = Last(published))

\* The newest pod ends up serving, and under the authority in the APIService
\* if it is the only pod there was: a conflict with an edit, or a crash after
\* the update, is made up for by the restart.  After a rolling update the last
\* authority published may be that of the retired pod.
EventuallyServes ==
  <>[](proc[newest].pc = "serving" /\ (newest = 1 => Trusted(newest)))
=============================================================================
