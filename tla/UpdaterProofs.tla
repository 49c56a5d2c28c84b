--------------------------- MODULE UpdaterProofs ---------------------------
(* Theorems about Updater for all values of its constants. *)
EXTENDS Updater, TLAPS

-----------------------------------------------------------------------------
(* Types *)

\* The values of the state are of their types after Init.
LEMMA TypeInit == Init => TypeOK
BY UpdaterAssumption DEF Init, TypeOK, NoUpdates

\* CWM and the deployment flow preserve the types.
LEMMA EnvironmentTypes == TypeOK /\ Environment => TypeOK'
<1> SUFFICES ASSUME TypeOK, Environment PROVE TypeOK'
  OBVIOUS
<1> USE UpdaterAssumption
<1>1. CASE Tick
  BY <1>1 DEF Tick, TypeOK, orderVars, taskVars, iterationVars
<1>2. ASSUME NEW w \in Workers, CwmUpdate(w) PROVE TypeOK'
  <2>1. [worker |-> w, time |-> clock] \in Updates
    BY DEF Updates, TypeOK
  <2> QED
    BY <1>2, <2>1 DEF CwmUpdate, TypeOK, orderVars, taskVars, iterationVars
<1>3. ASSUME NEW w \in Workers, FlowDeploys(w) PROVE TypeOK'
  BY <1>3 DEF FlowDeploys, TypeOK, cwmVars, taskVars, iterationVars
<1>4. ASSUME NEW w \in Workers, FlowDeletes(w) PROVE TypeOK'
  BY <1>4 DEF FlowDeletes, TypeOK, cwmVars, taskVars, iterationVars
<1> QED BY <1>1, <1>2, <1>3, <1>4 DEF Environment

\* So does the daemon until it has its tasks.
LEMMA QueryTypes ==
  TypeOK /\ (Query \/ (\E u \in unchecked : CheckUpdate(u)) \/ StoreCursor \/ ListReleases)
    => TypeOK'
<1> SUFFICES ASSUME TypeOK,
                    Query \/ (\E u \in unchecked : CheckUpdate(u)) \/ StoreCursor \/ ListReleases
             PROVE  TypeOK'
  OBVIOUS
<1> USE UpdaterAssumption
<1>1. CASE Query
  BY <1>1 DEF Query, TypeOK, NoUpdates, cwmVars, orderVars, taskVars
<1>2. ASSUME NEW u \in unchecked, CheckUpdate(u) PROVE TypeOK'
  <2>1. u.worker \in Workers /\ u.time \in 1 .. MaxClock
    BY DEF TypeOK, Updates
  <2>2. lastUpdate' \in 0 .. MaxClock
    BY <1>2, <2>1 DEF CheckUpdate, TypeOK
  <2>3. instanceUpdates' \in [Workers -> {"none", "update", "delete"}]
    BY <1>2, <2>1 DEF CheckUpdate, TypeOK
  <2> QED
    BY <1>2, <2>2, <2>3 DEF CheckUpdate, TypeOK, cwmVars, orderVars, taskVars
<1>3. CASE StoreCursor
  BY <1>3 DEF StoreCursor, NextCursor, TypeOK, cwmVars, orderVars, taskVars, iterationVars
<1>4. CASE ListReleases
  BY <1>4 DEF ListReleases, CreatedInstances, TypeOK, cwmVars, orderVars, iterationVars
<1> QED BY <1>1, <1>2, <1>3, <1>4

\* And so do its subprocesses, its end of an iteration and its restart.
LEMMA ProcessTypes ==
  TypeOK /\ ((\E w \in Workers : Launch(w) \/ Process(w)) \/ Finalize \/ Restart) => TypeOK'
<1> SUFFICES ASSUME TypeOK,
                    (\E w \in Workers : Launch(w) \/ Process(w)) \/ Finalize \/ Restart
             PROVE  TypeOK'
  OBVIOUS
<1> USE UpdaterAssumption
<1>1. ASSUME NEW w \in Workers, Launch(w) PROVE TypeOK'
  BY <1>1 DEF Launch, TypeOK, cwmVars, orderVars, iterationVars
<1>2. ASSUME NEW w \in Workers, Process(w) PROVE TypeOK'
  <2>1. /\ forceUpdate' \subseteq Workers
        /\ forceDelete' \in [Workers -> {"none", "allow_cancel", "no_cancel"}]
        /\ forceDeleteData' \subseteq Workers
    BY <1>2 DEF Process, OrderDataDeletion, OrderUpdate, OrderRoutine, TypeOK
  <2> QED
    BY <1>2, <2>1 DEF Process, TypeOK, cwmVars, iterationVars
<1>3. CASE Finalize
  BY <1>3 DEF Finalize, TypeOK, NoUpdates, cwmVars, orderVars, taskVars
<1>4. CASE Restart
  BY <1>4 DEF Restart, TypeOK, NoUpdates, cwmVars, orderVars
<1> QED BY <1>1, <1>2, <1>3, <1>4

\* Type correctness: the keys, the snapshots and the tasks keep to their
\* values.
THEOREM TypeCorrect == Spec => []TypeOK
<1>1. TypeOK /\ [Next]_vars => TypeOK'
  <2>1. TypeOK /\ UNCHANGED vars => TypeOK'
    BY DEF TypeOK, vars, cwmVars, orderVars, taskVars, iterationVars
  <2> QED
    BY <2>1, EnvironmentTypes, QueryTypes, ProcessTypes DEF Next, UpdaterNext
<1> QED BY <1>1, TypeInit, PTL DEF Spec

-----------------------------------------------------------------------------
(* The cursor passes no update by *)

\* Neither an update nor the cursor is of the future; no answer is in hand
\* between the iterations.
ClockInv ==
  /\ answer \subseteq updates
  /\ \A u \in updates : u.time <= clock
  /\ cursor <= clock
  /\ phase = "idle" => answer = {}

\* The cursor is to become the time of an update of the answer.
LastUpdateInv ==
  lastUpdate = 0 \/ \E u \in answer : u.time = lastUpdate

\* Until the cursor is stored, the answer is of updates after it, and holds
\* every update of its times and before that led to no order.
CheckInv ==
  phase = "check" =>
    /\ \A u \in answer : u.time > cursor
    /\ \A u \in updates \ (served \union excused) :
         u \in answer \/ \A other \in answer : other.time < u.time

\* An operation is known for every instance whose update has been checked, and
\* all have been before the releases are listed.
OperationInv ==
  /\ \A u \in answer \ unchecked : instanceUpdates[u.worker] # "none"
  /\ phase \in {"list", "process"} => unchecked = {}

UpdaterInv ==
  /\ TypeOK
  /\ ClockInv
  /\ LastUpdateInv
  /\ CheckInv
  /\ OperationInv
  /\ UpdatesAccountedFor

\* The updates and the clock are numbers to the provers.
LEMMA Times ==
  ASSUME TypeOK
  PROVE  /\ clock \in Nat /\ cursor \in Nat /\ lastUpdate \in Nat
         /\ \A u \in updates : u.worker \in Workers /\ u.time \in Nat /\ u.time >= 1
         /\ \A u \in answer : u.worker \in Workers /\ u.time \in Nat /\ u.time >= 1
BY UpdaterAssumption DEF TypeOK, Updates

\* Init satisfies the invariant: there are no updates.
LEMMA UpdaterInvInit == Init => UpdaterInv
<1> SUFFICES ASSUME Init PROVE UpdaterInv
  OBVIOUS
<1>1. TypeOK
  BY TypeInit
<1> QED
  BY <1>1 DEF Init, UpdaterInv, ClockInv, LastUpdateInv, CheckInv, OperationInv,
              UpdatesAccountedFor

\* An update made in CWM is later than the cursor and than the answer, unless
\* it is of a second already reported.
LEMMA CwmUpdateKeepsInv ==
  ASSUME UpdaterInv, TypeOK', NEW w \in Workers, CwmUpdate(w)
  PROVE  UpdaterInv'
<1> DEFINE u == [worker |-> w, time |-> clock]
<1> USE DEF UpdaterInv
<1>1. /\ clock \in Nat /\ cursor \in Nat /\ cursor <= clock
      /\ \A other \in answer : other.time \in Nat /\ other.time <= clock
  BY Times DEF ClockInv
<1>2. /\ updates' = updates \union {u}
      /\ UNCHANGED <<clock, cursor, phase, answer, unchecked, lastUpdate,
                     instanceUpdates, releases, creates, jobs, served>>
      /\ excused \subseteq excused'
      /\ u \notin excused' => cursor # clock /\ \A other \in answer : other.time # clock
  BY DEF CwmUpdate, iterationVars, taskVars
<1>3. u \notin excused' => u.time > cursor /\ \A other \in answer : other.time < u.time
  BY <1>1, <1>2
<1>4. ClockInv'
  BY <1>1, <1>2 DEF ClockInv
<1>5. LastUpdateInv' /\ OperationInv'
  BY <1>2 DEF LastUpdateInv, OperationInv
<1>6. CheckInv'
  BY <1>2, <1>3 DEF CheckInv
<1>7. UpdatesAccountedFor'
  BY <1>2, <1>3 DEF UpdatesAccountedFor, InHand
<1> QED BY <1>4, <1>5, <1>6, <1>7

\* The rest of the environment leaves what the invariant is about alone, but
\* for the time that passes.
LEMMA EnvironmentKeepsInv ==
  ASSUME UpdaterInv, TypeOK',
         UNCHANGED <<updates, cursor, phase, answer, unchecked, lastUpdate,
                     instanceUpdates, releases, creates, jobs, served, excused>>,
         clock' \in {clock, clock + 1}
  PROVE  UpdaterInv'
<1> USE DEF UpdaterInv
<1>1. ClockInv'
  BY Times DEF ClockInv
<1>2. LastUpdateInv' /\ CheckInv' /\ OperationInv' /\ UpdatesAccountedFor'
  BY DEF LastUpdateInv, CheckInv, OperationInv, UpdatesAccountedFor, InHand
<1> QED BY <1>1, <1>2

\* The answer to a query holds every update that led to no order.
LEMMA QueryKeepsInv == ASSUME UpdaterInv, TypeOK', Query PROVE UpdaterInv'
<1> USE DEF UpdaterInv
<1>1. /\ phase = "idle" /\ phase' = "check"
      /\ answer' = {u \in updates : IsReported(u)}
      /\ unchecked' = answer' /\ lastUpdate' = 0
      /\ UNCHANGED <<clock, updates, cursor, served>>
      /\ excused \subseteq excused'
      /\ cursor = 0 => \A u \in updates : u.time + Window < clock => u \in excused'
  BY DEF Query, cwmVars
<1>2. Window \in Nat
  BY UpdaterAssumption DEF UpdaterAssumption
<1>3. \A u \in answer' : u.time > cursor
  BY <1>1, <1>2, Times DEF IsReported
<1>4. \A u \in updates \ (served \union excused') : u \in answer'
  <2> SUFFICES ASSUME NEW u \in updates \ (served \union excused') PROVE u \in answer'
    OBVIOUS
  <2>1. u.time > cursor
    BY <1>1 DEF UpdatesAccountedFor, InHand, ClockInv
  <2> QED BY <1>1, <1>2, <2>1, Times DEF IsReported
<1>5. ClockInv' /\ LastUpdateInv' /\ OperationInv'
  BY <1>1 DEF ClockInv, LastUpdateInv, OperationInv
<1>6. CheckInv' /\ UpdatesAccountedFor'
  BY <1>1, <1>3, <1>4 DEF CheckInv, UpdatesAccountedFor, InHand
<1> QED BY <1>5, <1>6

\* Checking an update gives its instance an operation.
LEMMA CheckUpdateKeepsInv ==
  ASSUME UpdaterInv, TypeOK', NEW u \in unchecked, CheckUpdate(u)
  PROVE  UpdaterInv'
<1> USE DEF UpdaterInv
<1>1. /\ phase = "check" /\ unchecked' = unchecked \ {u}
      /\ lastUpdate' \in {lastUpdate, u.time}
      /\ UNCHANGED <<clock, updates, cursor, phase, answer, releases, creates, jobs,
                     served, excused>>
  BY DEF CheckUpdate, cwmVars, taskVars
<1>2. u \in answer /\ unchecked \subseteq answer
  BY DEF TypeOK
<1>3. \A v \in Workers :
        instanceUpdates[v] # "none" \/ v = u.worker => instanceUpdates'[v] # "none"
  BY DEF CheckUpdate, TypeOK
<1>4. OperationInv'
  BY <1>1, <1>2, <1>3, Times DEF OperationInv
<1>5. ClockInv' /\ LastUpdateInv' /\ CheckInv' /\ UpdatesAccountedFor'
  BY <1>1, <1>2 DEF ClockInv, LastUpdateInv, CheckInv, UpdatesAccountedFor, InHand
<1> QED BY <1>4, <1>5

\* The new cursor is the time of an update of the answer, which passes none by.
LEMMA StoreCursorKeepsInv == ASSUME UpdaterInv, TypeOK', StoreCursor PROVE UpdaterInv'
<1> USE DEF UpdaterInv
<1>1. /\ phase = "check" /\ phase' = "list" /\ unchecked = {}
      /\ cursor' = IF answer = {} THEN cursor ELSE lastUpdate
      /\ UNCHANGED <<clock, updates, answer, unchecked, lastUpdate, instanceUpdates,
                     releases, creates, jobs, served, excused>>
  BY DEF StoreCursor, NextCursor, cwmVars, taskVars, iterationVars
<1>2. ClockInv'
  BY <1>1, Times DEF ClockInv, LastUpdateInv
<1>3. LastUpdateInv' /\ CheckInv' /\ OperationInv'
  BY <1>1 DEF LastUpdateInv, CheckInv, OperationInv
<1>4. \A u \in updates \ (served \union excused) : u \in answer \/ u.time > cursor'
  <2> SUFFICES ASSUME NEW u \in updates \ (served \union excused), u \notin answer
               PROVE  u.time > cursor'
    OBVIOUS
  <2>1. CASE answer = {}
    BY <1>1, <2>1 DEF UpdatesAccountedFor, InHand
  <2>2. CASE answer # {} /\ lastUpdate = 0
    BY <1>1, <2>2, Times
  <2>3. CASE answer # {} /\ lastUpdate # 0
    BY <1>1, <2>3 DEF LastUpdateInv, CheckInv
  <2> QED BY <2>1, <2>2, <2>3
<1>5. UpdatesAccountedFor'
  BY <1>1, <1>4 DEF UpdatesAccountedFor, InHand
<1> QED BY <1>2, <1>3, <1>5

\* Every update of the answer has a release or a creation to lead to an order.
LEMMA ListReleasesKeepsInv == ASSUME UpdaterInv, TypeOK', ListReleases PROVE UpdaterInv'
<1> USE DEF UpdaterInv
<1>1. /\ phase = "list" /\ phase' = "process"
      /\ releases' = released /\ creates' = CreatedInstances
      /\ UNCHANGED <<clock, updates, cursor, answer, unchecked, lastUpdate,
                     instanceUpdates, jobs, served>>
      /\ excused \subseteq excused'
      /\ \A u \in answer : instanceUpdates[u.worker] = "delete" /\ u.worker \notin released
           => u \in excused'
  BY DEF ListReleases, cwmVars, iterationVars
<1>2. \A u \in answer \ excused' : u.worker \in releases' \union creates'
  BY <1>1, Times DEF OperationInv, CreatedInstances, TypeOK
<1>3. ClockInv' /\ LastUpdateInv' /\ CheckInv' /\ OperationInv'
  BY <1>1 DEF ClockInv, LastUpdateInv, CheckInv, OperationInv
<1>4. UpdatesAccountedFor'
  BY <1>1, <1>2 DEF UpdatesAccountedFor, InHand
<1> QED BY <1>3, <1>4

\* A worker whose subprocess starts stays in hand.
LEMMA LaunchKeepsInv ==
  ASSUME UpdaterInv, TypeOK', NEW w \in Workers, Launch(w)
  PROVE  UpdaterInv'
<1> USE DEF UpdaterInv
<1>1. /\ releases \union creates \union jobs
           \subseteq releases' \union creates' \union jobs'
      /\ UNCHANGED <<clock, updates, cursor, phase, answer, unchecked, lastUpdate,
                     instanceUpdates, served, excused>>
  BY DEF Launch, cwmVars, iterationVars
<1> QED
  BY <1>1 DEF ClockInv, LastUpdateInv, CheckInv, OperationInv, UpdatesAccountedFor, InHand

\* One whose subprocess ends has its updates served.
LEMMA ProcessKeepsInv ==
  ASSUME UpdaterInv, TypeOK', NEW w \in Workers, Process(w)
  PROVE  UpdaterInv'
<1> USE DEF UpdaterInv
<1>1. /\ jobs' = jobs \ {w}
      /\ served' = served \union {u \in answer : u.worker = w}
      /\ UNCHANGED <<clock, updates, cursor, phase, answer, unchecked, lastUpdate,
                     instanceUpdates, releases, creates, excused>>
  BY DEF Process, cwmVars, iterationVars
<1> QED
  BY <1>1 DEF ClockInv, LastUpdateInv, CheckInv, OperationInv, UpdatesAccountedFor, InHand

\* Nothing is in hand when an iteration ends.
LEMMA FinalizeKeepsInv == ASSUME UpdaterInv, TypeOK', Finalize PROVE UpdaterInv'
<1> USE DEF UpdaterInv
<1>1. /\ phase = "process" /\ phase' = "idle"
      /\ releases = {} /\ creates = {} /\ jobs = {}
      /\ answer' = {} /\ unchecked' = {} /\ lastUpdate' = 0
      /\ UNCHANGED <<clock, updates, cursor, served, excused>>
  BY DEF Finalize, cwmVars
<1> QED
  BY <1>1 DEF ClockInv, LastUpdateInv, CheckInv, OperationInv, UpdatesAccountedFor, InHand

\* A restart before the cursor is stored leaves the answer to the next query.
LEMMA RestartKeepsInv == ASSUME UpdaterInv, TypeOK', Restart PROVE UpdaterInv'
<1> USE DEF UpdaterInv
<1>1. /\ phase' = "idle"
      /\ answer' = {} /\ unchecked' = {} /\ lastUpdate' = 0
      /\ UNCHANGED <<clock, updates, cursor, served>>
      /\ excused \subseteq excused'
      /\ phase # "check" => answer \ served \subseteq excused'
  BY DEF Restart, cwmVars
<1>2. ClockInv' /\ LastUpdateInv' /\ CheckInv' /\ OperationInv'
  BY <1>1 DEF ClockInv, LastUpdateInv, CheckInv, OperationInv
<1>3. UpdatesAccountedFor'
  BY <1>1 DEF UpdatesAccountedFor, InHand, CheckInv
<1> QED BY <1>2, <1>3

\* The cursor passes no update by, in any number of iterations and restarts
\* and for any number of instances.
THEOREM UpdatesAccountedForHolds == Spec => []UpdatesAccountedFor
<1>1. UpdaterInv /\ [Next]_vars => UpdaterInv'
  <2> SUFFICES ASSUME UpdaterInv, [Next]_vars PROVE UpdaterInv'
    OBVIOUS
  <2>1. CASE UNCHANGED vars
    <3>1. TypeOK'
      BY <2>1 DEF UpdaterInv, TypeOK, vars, cwmVars, orderVars, taskVars, iterationVars
    <3> QED
      BY <2>1, <3>1, EnvironmentKeepsInv DEF vars, cwmVars, taskVars, iterationVars
  <2>2. CASE Environment
    <3>1. TypeOK'
      BY <2>2, EnvironmentTypes DEF UpdaterInv
    <3>2. CASE Tick
      BY <3>1, <3>2, EnvironmentKeepsInv DEF Tick, taskVars, iterationVars
    <3>3. ASSUME NEW w \in Workers, FlowDeploys(w) \/ FlowDeletes(w) PROVE UpdaterInv'
      BY <3>1, <3>3, EnvironmentKeepsInv
      DEF FlowDeploys, FlowDeletes, cwmVars, taskVars, iterationVars
    <3> QED BY <2>2, <3>1, <3>2, <3>3, CwmUpdateKeepsInv DEF Environment
  <2>3. CASE UpdaterNext
    <3>1. TypeOK'
      BY <2>3, QueryTypes, ProcessTypes DEF UpdaterNext, UpdaterInv
    <3> QED
      BY <2>3, <3>1, QueryKeepsInv, CheckUpdateKeepsInv, StoreCursorKeepsInv,
         ListReleasesKeepsInv, LaunchKeepsInv, ProcessKeepsInv, FinalizeKeepsInv
      DEF UpdaterNext
  <2>4. CASE Restart
    BY <2>4, ProcessTypes, RestartKeepsInv DEF UpdaterInv
  <2> QED BY <2>1, <2>2, <2>3, <2>4 DEF Next
<1>2. UpdaterInv => UpdatesAccountedFor
  BY DEF UpdaterInv
<1> QED BY <1>1, <1>2, UpdaterInvInit, PTL DEF Spec
=============================================================================
