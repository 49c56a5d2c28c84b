--------------------------- MODULE WorkersChecker ---------------------------
(***************************************************************************)
(* The workers checker (workers_checker.py) and one worker: each check     *)
(* stores the health it observes under its second, keeps the newest items, *)
(* and works out of them for how long each condition of the worker has     *)
(* held without a break, to alert about those that have for too long.      *)
(* What a health says is the set of the worker's conditions.               *)
(***************************************************************************)
EXTENDS Naturals, Sequences, SequencesExt, FiniteSets

CONSTANTS
  LastingConditions,  \* "pending", "missing", "terminating", "invalid"
  Healths,            \* what get_health may tell, each a set of conditions
  AlertAfter,         \* the seconds from which on a condition is alerted
  MaxHealthItems,     \* max_items
  MaxCheckClock,      \* bound on the time
  MaxCheckFailures    \* bound on failed checks

\* What pods and namespace tell; "error" is alerted at once, as are crash
\* loops and unknown pods.
Conditions == LastingConditions \union {"error"}

\* "gone" stands for no health; a failing get_health tells that the pods of
\* the worker are missing.
ASSUME ChecksAssumption ==
  /\ LastingConditions \subseteq {"pending", "missing", "terminating", "invalid"}
  /\ \A health \in Healths : health \subseteq Conditions
  /\ AlertAfter \in [LastingConditions -> Nat \ {0}]
  /\ MaxHealthItems \in Nat \ {0} /\ MaxCheckClock \in Nat /\ MaxCheckFailures \in Nat

VARIABLES
  checkClock,
  healthKey,      \* worker:health exists
  healthItems,    \* workers_checker/health/{}, the newest item first
  checkPhase,     \* where in process_worker the checker is
  checkedAt,      \* now
  checkedHealth,  \* health
  checkAlert,     \* what the alert of the last check tells
  checkFailures,
  observed        \* history: each observation that was stored

checkVars == <<checkClock, healthKey, healthItems, checkPhase, checkedAt, checkedHealth,
               checkAlert, checkFailures, observed>>

Gone == {"gone"}
CheckTimes == 0 .. MaxCheckClock
Observations == [at : CheckTimes, health : Healths \union {Gone}]

CheckTypeOK ==
  /\ checkClock \in CheckTimes /\ checkedAt \in CheckTimes
  /\ healthKey \in BOOLEAN
  /\ healthItems \in Seq(Observations)
  /\ Len(healthItems) <= MaxHealthItems
  /\ checkPhase \in {"idle", "store", "append", "done"}
  /\ checkedHealth \in Healths \union {Gone}
  /\ checkAlert \subseteq Conditions
  /\ checkFailures \in 0 .. MaxCheckFailures
  /\ observed \subseteq Observations

CheckInit ==
  /\ checkClock = 0 /\ checkedAt = 0
  /\ healthKey = FALSE /\ healthItems = <<>>
  /\ checkPhase = "idle" /\ checkedHealth = Gone
  /\ checkAlert = {} /\ checkFailures = 0
  /\ observed = {}

CheckTick ==
  /\ checkClock < MaxCheckClock
  /\ checkClock' = checkClock + 1
  /\ UNCHANGED <<healthKey, healthItems, checkPhase, checkedAt, checkedHealth, checkAlert,
                 checkFailures, observed>>

\* process_worker, up to the answer of get_health.
GetHealth(health) ==
  /\ checkPhase \in {"idle", "done"}
  /\ checkPhase' = "store"
  /\ checkedAt' = checkClock
  /\ checkedHealth' = health
  /\ checkAlert' = {}
  /\ UNCHANGED <<checkClock, healthKey, healthItems, checkFailures, observed>>

\* No health, and none before: nothing to record.
SkipGone ==
  /\ checkPhase = "store"
  /\ checkedHealth = Gone /\ ~healthKey
  /\ checkedHealth' = Gone
  /\ checkPhase' = "idle"
  /\ UNCHANGED <<checkClock, healthKey, healthItems, checkedAt, checkAlert, checkFailures, observed>>

StoreHealth ==
  /\ checkPhase = "store"
  /\ checkedHealth # Gone \/ healthKey
  /\ healthKey' = (checkedHealth # Gone)
  /\ checkPhase' = "append"
  /\ UNCHANGED <<checkClock, healthItems, checkedAt, checkedHealth, checkAlert, checkFailures,
                 observed>>

\* The item of the same second is overwritten: a check is never of an earlier
\* second than those before it, so that it is the newest one.
Appended(item) ==
  LET isSameSecond == healthItems # <<>> /\ healthItems[1].at = item.at
  IN  <<item>> \o (IF isSameSecond THEN Tail(healthItems) ELSE healthItems)

\* ItemsWith with a mistake: one too many is kept.
ItemsOverLimit(item) ==
  IF Len(Appended(item)) > MaxHealthItems + 1 THEN Front(Appended(item)) ELSE Appended(item)

\* local_storage_json_last_items_append: over the limit the oldest goes.
ItemsWith(item) ==
  IF Len(Appended(item)) > MaxHealthItems THEN Front(Appended(item)) ELSE Appended(item)

\* StateDuration.next with a mistake: the state is looked for past a break.
NextWithoutBreak(state, seen, item) ==
  IF state \in item.health THEN [seen EXCEPT !.lastAt = item.at] ELSE seen

\* StateDuration.next.
NextOfState(state, seen, item) ==
  CASE seen.stopLooking -> seen
    [] ~seen.stopLooking /\ state \in item.health -> [seen EXCEPT !.lastAt = item.at]
    [] OTHER -> [seen EXCEPT !.stopLooking = TRUE]

NothingSeen == [health |-> Gone, firstAt |-> 0, lastAt |-> 0, stopLooking |-> FALSE]

\* One item in the loop of get_worker_conditions: deletions are passed over,
\* and the first of the others is what the worker is like now.
LookAt(state, seen, item) ==
  CASE item.health = Gone -> seen
    [] item.health # Gone /\ seen.health = Gone ->
         [health |-> item.health, firstAt |-> item.at, lastAt |-> item.at, stopLooking |-> FALSE]
    [] OTHER -> NextOfState(state, seen, item)

\* The StateDuration of a condition, from the newest item to the oldest.
DurationOf(state, items) ==
  FoldLeft(LAMBDA seen, item : LookAt(state, seen, item), NothingSeen, items)

\* An invalid worker or a terminating namespace hides the other conditions.
Told(health) ==
  CASE "invalid" \in health -> {"invalid"}
    [] "invalid" \notin health /\ "terminating" \in health -> {"terminating"}
    [] OTHER -> health

IsLasting(c, seen) == seen.firstAt - seen.lastAt >= AlertAfter[c]

\* get_worker_conditions and get_worker_conditions_alert.
AlertOf(items) ==
  {c \in Conditions :
     LET seen == DurationOf(c, items)
     IN  c \in Told(seen.health) /\ (c = "error" \/ IsLasting(c, seen))}

\* The alert is pushed when the daemon reads the subprocess's response.
AppendHealth ==
  LET item == [at |-> checkedAt, health |-> checkedHealth]
  IN  /\ checkPhase = "append"
      /\ checkedHealth' = Gone
      /\ checkPhase' = "done"
      /\ healthItems' = ItemsWith(item)
      /\ checkAlert' = AlertOf(healthItems')
      /\ observed' = {o \in observed : o.at # checkedAt} \union {item}
      /\ UNCHANGED <<checkClock, healthKey, checkedAt, checkFailures>>

\* The subprocess dies; what it observed may be in Redis, and not in storage.
CheckFails ==
  /\ checkPhase \in {"store", "append"}
  /\ checkFailures < MaxCheckFailures
  /\ checkFailures' = checkFailures + 1
  /\ checkedHealth' = Gone
  /\ checkPhase' = "idle"
  /\ UNCHANGED <<checkClock, healthKey, healthItems, checkedAt, checkAlert, observed>>

CheckNext ==
  \/ CheckTick \/ SkipGone \/ StoreHealth \/ AppendHealth \/ CheckFails
  \/ \E health \in Healths \union {Gone} : GetHealth(health)

CheckSpec == CheckInit /\ [][CheckNext]_checkVars

-----------------------------------------------------------------------------
(* Properties *)

\* The observations of a worker that was there.
Present == {o \in observed : o.health # Gone}

\* Since start, c held at every check of these.
HeldSince(c, start) == \A o \in Present : o.at >= start => c \in o.health

IsHidden(c) ==
  \E o \in Present :
    /\ \A earlier \in Present : earlier.at <= o.at
    /\ \/ c # "invalid" /\ "invalid" \in o.health
       \/ c \notin {"invalid", "terminating"} /\ "terminating" \in o.health

HasLasted(c, first) ==
  /\ HeldSince(c, first.at)
  /\ \E last \in Present : last.at >= first.at + AlertAfter[c]

\* A check alerts about a condition if that has held for too long at every
\* check, and only then.  Checks at which the worker was gone do not count, nor
\* do failed ones, an invalid worker and a terminating namespace hide the rest,
\* and what has lasted for more checks than are kept may go unnoticed.
AlertedInTime ==
  checkPhase = "done" =>
    \A c \in LastingConditions :
      /\ c \in checkAlert => ~IsHidden(c) /\ \E first \in Present : HasLasted(c, first)
      /\ c \notin checkAlert =>
           \A first \in Present :
             HasLasted(c, first) =>
               \/ IsHidden(c)
               \/ Cardinality({o \in observed : o.at >= first.at}) > MaxHealthItems
=============================================================================
