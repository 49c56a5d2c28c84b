------------------------------ MODULE Updater ------------------------------
(***************************************************************************)
(* The updater daemon (updater.py): each iteration asks CWM for the        *)
(* updates since the cursor, stores the cursor, and runs a subprocess for  *)
(* every release and for every updated instance without one, which gives   *)
(* the deployment flow its orders.  CWM and the flow are the environment.  *)
(* Its metrics (send_agg_metrics) are left out.                            *)
(***************************************************************************)
EXTENDS Naturals, FiniteSets

CONSTANTS
  Workers,
  Window,       \* UPDATER_DEFAULT_LAST_UPDATE_DATETIME_SECONDS
  MaxUpdaters,  \* UPDATER_MAX_PARALLEL_DEPLOY_PROCESSES, more than 1
  MaxClock,     \* bound on the time
  MaxRestarts   \* bound on the restarts of the daemon

ASSUME UpdaterAssumption ==
  /\ Window \in Nat
  /\ MaxUpdaters \in Nat \ {0, 1}
  /\ MaxClock \in Nat \ {0}
  /\ MaxRestarts \in Nat

VARIABLES
  clock,            \* the time in seconds, in UTC for everyone
  gone,             \* instances deleted in CWM
  updates,          \* what GET svc/instances reports: instances and times
  cursor,           \* updater:last_cwm_api_update, 0 when it is not set
  forceUpdate,      \* worker:force_update
  forceDelete,      \* worker:force_delete and whether it can be cancelled
  forceDeleteData,  \* worker:force_delete_data
  released,         \* MinIO users, by which iterate_all_releases lists workers
  phase,            \* where in run_single_iteration the daemon is
  answer,           \* the updates CWM answered in this iteration
  unchecked,        \* those of them whose instance is still to be asked for
  lastUpdate,       \* last_update, 0 for None
  instanceUpdates,  \* instances_updates
  releases,         \* releases still to process
  creates,          \* updated instances without a release still to process
  jobs,             \* workers whose subprocess runs
  restarts,         \* restarts so far
  served,           \* history: updates that led to an order
  excused           \* history: updates the program gives up, see below

cwmVars == <<clock, gone, updates>>
orderVars == <<forceUpdate, forceDelete, forceDeleteData>>
taskVars == <<releases, creates, jobs>>
iterationVars == <<answer, unchecked, lastUpdate, instanceUpdates>>
vars == <<cwmVars, cursor, orderVars, released, phase, taskVars, iterationVars,
          restarts, served, excused>>

Updates == [worker : Workers, time : 1 .. MaxClock]

TypeOK ==
  /\ clock \in 1 .. MaxClock
  /\ gone \subseteq Workers
  /\ updates \subseteq Updates
  /\ cursor \in 0 .. MaxClock
  /\ forceUpdate \subseteq Workers
  /\ forceDelete \in [Workers -> {"none", "allow_cancel", "no_cancel"}]
  /\ forceDeleteData \subseteq Workers
  /\ released \subseteq Workers
  /\ phase \in {"idle", "check", "list", "process"}
  /\ answer \subseteq Updates
  /\ unchecked \subseteq answer
  /\ lastUpdate \in 0 .. MaxClock
  /\ instanceUpdates \in [Workers -> {"none", "update", "delete"}]
  /\ releases \subseteq Workers
  /\ creates \subseteq Workers
  /\ jobs \subseteq Workers
  /\ restarts \in 0 .. MaxRestarts
  /\ served \subseteq Updates
  /\ excused \subseteq Updates

NoUpdates == [w \in Workers |-> "none"]

Init ==
  /\ clock = 1
  /\ gone = {}
  /\ updates = {}
  /\ cursor = 0
  /\ forceUpdate = {}
  /\ forceDelete = [w \in Workers |-> "none"]
  /\ forceDeleteData = {}
  /\ released = {}
  /\ phase = "idle"
  /\ answer = {}
  /\ unchecked = {}
  /\ lastUpdate = 0
  /\ instanceUpdates = NoUpdates
  /\ releases = {} /\ creates = {} /\ jobs = {}
  /\ restarts = 0
  /\ served = {}
  /\ excused = {}

-----------------------------------------------------------------------------
(* The environment *)

Tick ==
  /\ clock < MaxClock
  /\ clock' = clock + 1
  /\ UNCHANGED <<gone, updates, cursor, orderVars, released, phase, taskVars,
                 iterationVars, restarts, served, excused>>

\* An instance is created, updated or deleted in CWM.  The next query starts a
\* second after the last update reported, and so misses another one of that
\* second.
CwmUpdate(w) ==
  LET u == [worker |-> w, time |-> clock]
  IN  /\ w \notin gone
      /\ u \notin updates
      /\ updates' = updates \union {u}
      /\ gone' \in {gone, gone \union {w}}
      /\ excused' = IF cursor = clock \/ \E other \in answer : other.time = clock
                    THEN excused \union {u}
                    ELSE excused
      /\ UNCHANGED <<clock, cursor, orderVars, released, phase, taskVars,
                     iterationVars, restarts, served>>

\* The deployment flow deploys a worker, by order or by request.
FlowDeploys(w) ==
  /\ released' = released \union {w}
  /\ forceUpdate' = forceUpdate \ {w}
  /\ UNCHANGED <<cwmVars, cursor, forceDelete, forceDeleteData, phase, taskVars,
                 iterationVars, restarts, served, excused>>

\* It deletes one that is ordered deleted, which stays a release unless its
\* data is deleted.
FlowDeletes(w) ==
  /\ forceDelete[w] # "none"
  /\ forceDelete' = [forceDelete EXCEPT ![w] = "none"]
  /\ forceUpdate' = forceUpdate \ {w}
  /\ released' = released \ (forceDeleteData \intersect {w})
  /\ forceDeleteData' = forceDeleteData \ {w}
  /\ UNCHANGED <<cwmVars, cursor, phase, taskVars, iterationVars, restarts,
                 served, excused>>

Environment ==
  \/ Tick
  \/ \E w \in Workers : CwmUpdate(w) \/ FlowDeploys(w) \/ FlowDeletes(w)

-----------------------------------------------------------------------------
(* The daemon *)

\* CWM answers with the updates since from_datetime, at that second included:
\* the window before now, or the second after the cursor.
IsReported(u) ==
  IF cursor = 0 THEN u.time + Window >= clock ELSE u.time >= cursor + 1

Query ==
  /\ phase = "idle"
  /\ phase' = "check"
  /\ answer' = {u \in updates : IsReported(u)}
  /\ unchecked' = answer'
  /\ lastUpdate' = 0
  /\ instanceUpdates' = NoUpdates
  /\ excused' = IF cursor = 0
                THEN excused \union {u \in updates : u.time + Window < clock}
                ELSE excused
  /\ UNCHANGED <<cwmVars, cursor, orderVars, released, taskVars, restarts, served>>

\* The instance of an update is asked for once; CWM answers with errors when
\* it is gone.
CheckUpdate(u) ==
  LET w == u.worker
      operation == IF w \in gone THEN "delete" ELSE "update"
  IN  /\ phase = "check"
      /\ u \in unchecked
      /\ unchecked' = unchecked \ {u}
      /\ lastUpdate' = IF lastUpdate < u.time THEN u.time ELSE lastUpdate
      /\ instanceUpdates' = IF instanceUpdates[w] = "none"
                            THEN [instanceUpdates EXCEPT ![w] = operation]
                            ELSE instanceUpdates
      /\ UNCHANGED <<cwmVars, cursor, orderVars, released, phase, answer, taskVars,
                     restarts, served, excused>>

\* NextCursor, as if CWM had answered with all the updates until now.
CursorNow == IF answer = {} THEN cursor ELSE clock

\* NextCursor, with the second that the next query adds.
CursorPlusOne == IF answer = {} THEN cursor ELSE lastUpdate + 1

\* The cursor after this iteration's updates.
NextCursor == IF answer = {} THEN cursor ELSE lastUpdate

StoreCursor ==
  /\ phase = "check"
  /\ unchecked = {}
  /\ phase' = "list"
  /\ cursor' = NextCursor
  /\ UNCHANGED <<cwmVars, orderVars, released, taskVars, iterationVars, restarts,
                 served, excused>>

\* CreatedInstances, with the test for a release inverted.
RecreatedInstances == {w \in Workers : instanceUpdates[w] = "update"} \intersect released

\* The second loop of run_single_iteration: updated instances without release.
CreatedInstances == {w \in Workers : instanceUpdates[w] = "update"} \ released

\* A deleted instance without a release has nothing to delete.
ListReleases ==
  /\ phase = "list"
  /\ phase' = "process"
  /\ releases' = released
  /\ creates' = CreatedInstances
  /\ excused' = excused \union
       {u \in answer : instanceUpdates[u.worker] = "delete" /\ u.worker \notin released}
  /\ UNCHANGED <<cwmVars, cursor, orderVars, released, jobs, iterationVars,
                 restarts, served>>

\* The releases come first.
Launch(w) ==
  /\ phase = "process"
  /\ Cardinality(jobs) < MaxUpdaters
  /\ IF releases # {} THEN w \in releases ELSE w \in creates
  /\ releases' = releases \ {w}
  /\ creates' = IF releases # {} THEN creates ELSE creates \ {w}
  /\ jobs' = jobs \union {w}
  /\ UNCHANGED <<cwmVars, cursor, orderVars, released, phase, iterationVars,
                 restarts, served, excused>>

\* check_update_release for an instance CWM reported deleted ...
OrderDataDeletion(w) ==
  /\ instanceUpdates[w] = "delete"
  /\ forceDeleteData' = forceDeleteData \union {w}
  /\ forceDelete' = [forceDelete EXCEPT ![w] = "no_cancel"]
  /\ UNCHANGED forceUpdate

\* ... for one it reported updated, released ("update") or not ("create") ...
OrderUpdate(w) ==
  /\ instanceUpdates[w] = "update"
  /\ forceUpdate' = forceUpdate \union {w}
  /\ UNCHANGED <<forceDelete, forceDeleteData>>

\* ... and for one it did not report: by the time and the requests since its
\* last update, nothing, a deletion or an update.
OrderRoutine(w) ==
  /\ instanceUpdates[w] = "none"
  /\ \/ UNCHANGED <<forceUpdate, forceDelete>>
     \/ forceDelete' = [forceDelete EXCEPT ![w] = "allow_cancel"] /\ UNCHANGED forceUpdate
     \/ forceUpdate' = forceUpdate \union {w} /\ UNCHANGED forceDelete
  /\ UNCHANGED forceDeleteData

\* A subprocess gives its order and ends.
Process(w) ==
  /\ w \in jobs
  /\ jobs' = jobs \ {w}
  /\ OrderDataDeletion(w) \/ OrderUpdate(w) \/ OrderRoutine(w)
  /\ served' = served \union {u \in answer : u.worker = w}
  /\ UNCHANGED <<cwmVars, cursor, released, phase, releases, creates, iterationVars,
                 restarts, excused>>

Finalize ==
  /\ phase = "process"
  /\ releases = {} /\ creates = {} /\ jobs = {}
  /\ phase' = "idle"
  /\ answer' = {} /\ unchecked' = {}
  /\ lastUpdate' = 0
  /\ instanceUpdates' = NoUpdates
  /\ UNCHANGED <<cwmVars, cursor, orderVars, released, taskVars, restarts,
                 served, excused>>

UpdaterNext ==
  \/ Query
  \/ \E u \in unchecked : CheckUpdate(u)
  \/ StoreCursor
  \/ ListReleases
  \/ \E w \in Workers : Launch(w) \/ Process(w)
  \/ Finalize

\* A call raises or the pod dies: the daemon starts over.  Once the cursor is
\* stored, updates not yet served are lost.
Restart ==
  /\ phase # "idle"
  /\ restarts < MaxRestarts
  /\ restarts' = restarts + 1
  /\ phase' = "idle"
  /\ answer' = {} /\ unchecked' = {}
  /\ lastUpdate' = 0
  /\ instanceUpdates' = NoUpdates
  /\ releases' = {} /\ creates' = {} /\ jobs' = {}
  /\ excused' = IF phase = "check" THEN excused ELSE excused \union (answer \ served)
  /\ UNCHANGED <<cwmVars, cursor, orderVars, released, served>>

Next == Environment \/ UpdaterNext \/ Restart

Spec == Init /\ [][Next]_vars

\* The daemon loops for ever.
FairSpec == Spec /\ WF_vars(UpdaterNext)

-----------------------------------------------------------------------------
(* Properties *)

\* u is to be processed in this iteration.
InHand(u) ==
  /\ u \in answer
  /\ phase = "process" => u.worker \in releases \union creates \union jobs

\* The cursor passes no update by: one that led to no order is after the
\* cursor, to be reported yet, or in hand.  The cursor is stored between the
\* query and the orders, and CWM goes on in between.  The exceptions are
\* those of CwmUpdate, Query, ListReleases and Restart, and no others.
UpdatesAccountedFor ==
  \A u \in updates \ (served \union excused) : u.time > cursor \/ InHand(u)

\* Every update leads to an order or is one of the exceptions.
UpdatesOrdered == \A u \in Updates : u \in updates ~> u \in served \union excused
=============================================================================
