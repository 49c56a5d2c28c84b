------------------------- MODULE HostnameLifecycle -------------------------
(***************************************************************************)
(* What the deployment flow promises of its hostnames, whatever its        *)
(* daemons do in between: a hostname is queued by a request for it,        *)
(* becomes available after its worker was found ready, once for each such  *)
(* check, and one that failed, or is available, is not queued again before *)
(* it was taken out.  Every step concerns the hostnames of one worker.     *)
(***************************************************************************)
CONSTANTS Workers, Hostnames, WorkerOf

VARIABLES
  status,   \* what is known of each hostname
  approved  \* workers found ready, whose hostnames are not yet available

lifecycleVars == <<status, approved>>

LifecycleTypeOK ==
  /\ status \in [Hostnames -> {"idle", "queued", "failed", "available"}]
  /\ approved \subseteq Workers

LifecycleInit ==
  /\ status = [h \in Hostnames |-> "idle"]
  /\ approved = {}

\* The hostnames H get status s.
Assign(H, s) == status' = [h \in Hostnames |-> IF h \in H THEN s ELSE status[h]]

OwnHostnames(w) == {h \in Hostnames : WorkerOf[h] = w}

Enqueue(h) ==
  /\ status[h] = "idle"
  /\ Assign({h}, "queued")
  /\ UNCHANGED approved

\* Hostnames of w fail or are taken out; also the end of the flow, between
\* approval and publication.
Withdraw(w) ==
  /\ \E F, I \in SUBSET OwnHostnames(w) :
       status' = [h \in Hostnames |-> IF h \in F THEN "failed"
                                     ELSE IF h \in I THEN "idle"
                                     ELSE status[h]]
  /\ UNCHANGED approved

Approve(w) ==
  /\ approved' = approved \union {w}
  /\ UNCHANGED status

MakeAvailable(w) ==
  /\ w \in approved
  /\ approved' = approved \ {w}
  /\ \E H \in SUBSET OwnHostnames(w) : Assign(H, "available")

\* The process that found the workers ready dies.
Forget ==
  /\ approved' = {}
  /\ UNCHANGED status

LifecycleNext ==
  \/ \E h \in Hostnames : Enqueue(h)
  \/ \E w \in Workers : Withdraw(w) \/ Approve(w) \/ MakeAvailable(w)
  \/ Forget

LifecycleSpec == LifecycleInit /\ [][LifecycleNext]_lifecycleVars
=============================================================================
