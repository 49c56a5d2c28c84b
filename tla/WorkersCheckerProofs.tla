------------------------ MODULE WorkersCheckerProofs ------------------------
(***************************************************************************)
(* Proofs about the workers checker, for any conditions, delays, numbers   *)
(* of items and times, and about the pool of subprocesses it runs in.      *)
(* What its loop over the items makes of them is a fold, and is found by   *)
(* induction: over the numbers, by way of the least one for which it does  *)
(* not hold.                                                               *)
(***************************************************************************)
EXTENDS WorkersChecker, Multiprocessor, FiniteSetTheorems, WellFoundedInduction, TLAPS

-----------------------------------------------------------------------------
(* Induction *)

LessThan == {pair \in Nat \X Nat : pair[1] < pair[2]}

\* A set of numbers has a least one.
LEMMA LeastNumber ==
  ASSUME NEW T \in SUBSET Nat, T # {}
  PROVE  \E m \in T : \A k \in T : m <= k
<1>1. OpToRel(<, Nat) = LessThan
  BY Zenon DEF OpToRel, LessThan
<1>2. IsWellFoundedOn(LessThan, Nat)
  BY <1>1, NatLessThanWellFounded
<1>3. PICK m \in T : \A k \in T : <<k, m>> \notin LessThan
  BY <1>2, WFMin
<1>4. ASSUME NEW k \in T PROVE m <= k
  <2>1. m \in Nat /\ k \in Nat /\ <<k, m>> \notin LessThan
    BY <1>3
  <2>2. <<k, m>> \in Nat \X Nat /\ <<k, m>>[1] = k /\ <<k, m>>[2] = m
    BY <2>1
  <2>3. ~(k < m)
    BY <2>1, <2>2 DEF LessThan
  <2> QED
    BY <2>1, <2>3
<1> QED
  BY <1>4

\* A set of numbers up to n has a greatest one, and Max is it.
LEMMA GreatestNumber ==
  ASSUME NEW n \in Nat, NEW T \in SUBSET (1 .. n), T # {}
  PROVE  Max(T) \in T /\ \A k \in T : Max(T) >= k
<1> DEFINE rest == {n - k : k \in T}
<1>1. rest \in SUBSET Nat /\ rest # {}
  <2>1. \A k \in T : k \in Nat /\ k <= n
    OBVIOUS
  <2>2. \A k \in T : n - k \in Nat
    BY <2>1
  <2> QED
    BY <2>2
<1>2. PICK m \in rest : \A r \in rest : m <= r
  BY <1>1, LeastNumber
<1>3. PICK k \in T : m = n - k
  OBVIOUS
<1>4. \A j \in T : k >= j
  <2> TAKE j \in T
  <2>1. m <= n - j
    BY <1>2
  <2> QED
    BY <1>3, <2>1
<1> QED
  BY <1>4 DEF Max

-----------------------------------------------------------------------------
(* The loop over the items *)

\* f is the loop over any part of the items up to n.
IsLoop(f, c, items, n) ==
  f = [s \in SUBSET (1 .. n) |->
         IF s = {} THEN NothingSeen ELSE LookAt(c, f[s \ {Max(s)}], items[Max(s)])]

\* A loop over one item more is one over the others, with a last step.
LEMMA LoopGrows ==
  ASSUME NEW c, NEW items, NEW n \in Nat, NEW f, IsLoop(f, c, items, n)
  PROVE  \E g : IsLoop(g, c, items, n + 1)
<1> DEFINE Step(h, s) == IF s = {} THEN NothingSeen ELSE LookAt(c, h[s \ {Max(s)}], items[Max(s)])
           new == n + 1
           g == [s \in SUBSET (1 .. new) |->
                   IF new \in s THEN LookAt(c, f[s \ {new}], items[new]) ELSE f[s]]
<1> HIDE DEF Step
<1>1. \A s \in SUBSET (1 .. n) : f[s] = Step(f, s)
  BY DEF IsLoop, Step
<1>2. \A s \in SUBSET (1 .. new) : new \notin s => s \in SUBSET (1 .. n)
  OBVIOUS
<1>3. \A s \in SUBSET (1 .. n) : s \in SUBSET (1 .. new) /\ new \notin s /\ g[s] = f[s]
  OBVIOUS
<1>4. ASSUME NEW s \in SUBSET (1 .. new) PROVE g[s] = Step(g, s)
  <2>1. CASE new \in s
    <3>1. Max(s) = new
      <4>1. new \in Nat /\ s # {}
        BY <2>1
      <4>2. Max(s) \in s /\ \A k \in s : Max(s) >= k
        BY <4>1, GreatestNumber
      <4>3. Max(s) \in 1 .. new /\ Max(s) >= new
        BY <2>1, <4>2
      <4> QED
        BY <4>1, <4>3
    <3>2. s \ {new} \in SUBSET (1 .. n)
      OBVIOUS
    <3>3. g[s \ {new}] = f[s \ {new}]
      BY <1>3, <3>2
    <3>4. g[s] = LookAt(c, f[s \ {new}], items[new])
      BY <2>1
    <3> HIDE DEF g, new
    <3> QED
      BY <2>1, <3>1, <3>3, <3>4 DEF Step
  <2>2. CASE new \notin s
    <3>1. s \in SUBSET (1 .. n) /\ s \ {Max(s)} \in SUBSET (1 .. n)
      BY <1>2, <2>2
    <3>2. g[s] = f[s] /\ g[s \ {Max(s)}] = f[s \ {Max(s)}]
      BY <1>3, <3>1
    <3>3. f[s] = Step(f, s)
      BY <1>1, <3>1
    <3> HIDE DEF g, new
    <3> QED
      BY <3>2, <3>3 DEF Step
  <2> QED
    BY <2>1, <2>2
<1>5. g = [s \in SUBSET (1 .. new) |-> Step(g, s)]
  <2>1. g = [s \in SUBSET (1 .. new) |-> g[s]]
    OBVIOUS
  <2> HIDE DEF g
  <2> QED
    BY <1>4, <2>1
<1>6. IsLoop(g, c, items, new)
  <2> HIDE DEF g
  <2> QED
    BY <1>5 DEF IsLoop, Step
<1> QED
  BY <1>6

\* There is a loop over any number of items.
LEMMA LoopExists ==
  ASSUME NEW c, NEW items, NEW n \in Nat
  PROVE  \E f : IsLoop(f, c, items, n)
<1> DEFINE Without == {k \in Nat : ~\E f : IsLoop(f, c, items, k)}
<1>1. 0 \notin Without
  <2> DEFINE f == [s \in SUBSET (1 .. 0) |-> NothingSeen]
  <2>1. \A s \in SUBSET (1 .. 0) : s = {}
    OBVIOUS
  <2>2. IsLoop(f, c, items, 0)
    BY <2>1 DEF IsLoop
  <2> QED
    BY <2>2
<1>2. \A k \in Nat : k \notin Without => k + 1 \notin Without
  BY LoopGrows
<1>3. Without = {}
  <2> SUFFICES ASSUME Without # {} PROVE FALSE
    OBVIOUS
  <2> HIDE DEF Without
  <2>1. Without \in SUBSET Nat
    BY DEF Without
  <2>2. PICK m \in Without : \A k \in Without : m <= k
    BY <2>1, LeastNumber
  <2>3. m \in Nat /\ m # 0
    BY <1>1, <2>1
  <2>4. m - 1 \in Nat /\ m - 1 \notin Without
    BY <2>2, <2>3
  <2>5. (m - 1) + 1 \notin Without
    BY <1>2, <2>4
  <2> QED
    BY <2>3, <2>5
<1> QED
  BY <1>3

\* The duration of a condition comes about item by item.
IsCourse(g, c, items) ==
  /\ g[0] = NothingSeen
  /\ \A k \in 1 .. Len(items) : g[k] = LookAt(c, g[k - 1], items[k])

LEMMA DurationHasCourse ==
  ASSUME NEW c, NEW S, NEW items \in Seq(S)
  PROVE  \E g : IsCourse(g, c, items) /\ DurationOf(c, items) = g[Len(items)]
<1> DEFINE n == Len(items)
           f == CHOOSE h : IsLoop(h, c, items, n)
           g == [k \in 0 .. n |-> f[1 .. k]]
<1>1. n \in Nat /\ DOMAIN items = 1 .. n
  OBVIOUS
<1>2. DurationOf(c, items) = f[1 .. n]
  <2>1. DurationOf(c, items) =
          (CHOOSE h : h = [s \in SUBSET (DOMAIN items) |->
                             IF s = {} THEN NothingSeen
                             ELSE LookAt(c, h[s \ {Max(s)}], items[Max(s)])])[DOMAIN items]
    BY DEF DurationOf, FoldLeft, MapThenFoldSet
  <2> QED
    BY <1>1, <2>1, Zenon DEF IsLoop
<1>3. IsLoop(f, c, items, n)
  BY <1>1, LoopExists
<1> HIDE DEF f
<1>4. \A s \in SUBSET (1 .. n) :
        f[s] = IF s = {} THEN NothingSeen ELSE LookAt(c, f[s \ {Max(s)}], items[Max(s)])
  BY <1>3 DEF IsLoop
<1>5. g[0] = NothingSeen
  <2>1. 1 .. 0 = {} /\ {} \in SUBSET (1 .. n) /\ 0 \in 0 .. n
    BY <1>1
  <2>2. g[0] = f[1 .. 0]
    BY <2>1
  <2> HIDE DEF g
  <2> QED
    BY <1>4, <2>1, <2>2
<1>6. ASSUME NEW k \in 1 .. n PROVE g[k] = LookAt(c, g[k - 1], items[k])
  <2>1. 1 .. k \in SUBSET (1 .. n) /\ k \in 1 .. k /\ 1 .. k # {}
    <3>1. k \in Nat /\ 1 <= k /\ k <= n
      BY <1>1
    <3> HIDE DEF n
    <3> QED
      BY <1>1, <3>1
  <2>2. Max(1 .. k) = k
    <3>1. Max(1 .. k) \in 1 .. k /\ \A j \in 1 .. k : Max(1 .. k) >= j
      BY <1>1, <2>1, GreatestNumber
    <3> QED
      BY <2>1, <3>1
  <2>3. (1 .. k) \ {k} = 1 .. (k - 1)
    BY <1>1
  <2>4. f[1 .. k] = LookAt(c, f[1 .. (k - 1)], items[k])
    BY <1>4, <2>1, <2>2, <2>3
  <2>5. k \in 0 .. n /\ k - 1 \in 0 .. n
    BY <1>1
  <2>6. g[k] = f[1 .. k] /\ g[k - 1] = f[1 .. (k - 1)]
    BY <2>5
  <2> HIDE DEF g
  <2> QED
    BY <2>4, <2>6
<1>7. DurationOf(c, items) = g[n]
  BY <1>1, <1>2
<1> HIDE DEF g
<1> QED
  BY <1>5, <1>6, <1>7 DEF IsCourse

-----------------------------------------------------------------------------
(* What the loop finds *)

Durations == [health : Healths \union {Gone}, firstAt : CheckTimes, lastAt : CheckTimes,
              stopLooking : BOOLEAN]

\* The places up to k of items at which the worker was there.
PlacesUpTo(items, k) == {j \in 1 .. Len(items) : j <= k /\ items[j].health # Gone}

\* c held at all of the places up to since, and that is as far back as c goes:
\* to a place where it did not hold, or to the last one.
HoldsBackTo(c, items, places, since, isBroken) ==
  /\ \A j \in places : j <= since => c \in items[j].health
  /\ ~isBroken => \A j \in places : j <= since
  /\ isBroken => \E b \in places : c \notin items[b].health /\ \A j \in places : j < b => j <= since

\* What is seen of the items at these places.
IsSeen(c, items, places, seen) ==
  /\ seen \in Durations
  /\ places = {} => seen.health = Gone
  /\ places # {} =>
       \E now, since \in places :
         /\ \A j \in places : now <= j
         /\ seen.health = items[now].health /\ seen.firstAt = items[now].at
         /\ seen.lastAt = items[since].at
         /\ c \in items[now].health => HoldsBackTo(c, items, places, since, seen.stopLooking)

\* "gone" is no condition.
LEMMA GoneIsNoHealth == Gone \notin Healths /\ "error" \notin LastingConditions
<1>1. "gone" \in Gone /\ "gone" \notin Conditions
  BY ChecksAssumption DEF Gone, Conditions
<1>2. \A health \in Healths : health \subseteq Conditions
  BY ChecksAssumption
<1>3. Gone \notin Healths
  BY <1>1, <1>2
<1>4. "error" \notin LastingConditions
  BY ChecksAssumption
<1> QED
  BY <1>3, <1>4

\* Another item keeps what is seen true.
LEMMA LookKeepsSeen ==
  ASSUME NEW c, NEW items \in Seq(Observations), NEW k \in 1 .. Len(items), NEW seen,
         IsSeen(c, items, PlacesUpTo(items, k - 1), seen)
  PROVE  IsSeen(c, items, PlacesUpTo(items, k), LookAt(c, seen, items[k]))
<1> DEFINE old == PlacesUpTo(items, k - 1)
           places == PlacesUpTo(items, k)
           item == items[k]
           next == LookAt(c, seen, item)
<1> SUFFICES IsSeen(c, items, places, next)
  OBVIOUS
<1>1. /\ k \in Nat /\ 1 <= k /\ Len(items) \in Nat /\ k <= Len(items)
      /\ item.health \in Healths \union {Gone} /\ item.at \in CheckTimes
  <2>1. Len(items) \in Nat /\ items[k] \in Observations
    OBVIOUS
  <2> QED
    BY <2>1 DEF Observations
<1>2. /\ old \subseteq 1 .. Len(items) /\ places \subseteq 1 .. Len(items)
      /\ \A j \in old : j < k
      /\ \A j \in old : items[j].health # Gone
  BY <1>1 DEF PlacesUpTo
<1>3. places = IF item.health = Gone THEN old ELSE old \union {k}
  <2>1. \A j \in 1 .. Len(items) : j <= k <=> j <= k - 1 \/ j = k
    BY <1>1
  <2> QED
    BY <1>1, <2>1 DEF PlacesUpTo
<1>4. /\ seen \in Durations
      /\ old = {} => seen.health = Gone
      /\ old # {} =>
           \E now, since \in old :
             /\ \A j \in old : now <= j
             /\ seen.health = items[now].health /\ seen.firstAt = items[now].at
             /\ seen.lastAt = items[since].at
             /\ c \in items[now].health => HoldsBackTo(c, items, old, since, seen.stopLooking)
  BY DEF IsSeen
<1> HIDE DEF old, places
<1>5. CASE item.health = Gone
  <2>1. next = seen /\ places = old
    BY <1>3, <1>5 DEF LookAt
  <2> HIDE DEF next
  <2> QED
    BY <1>4, <2>1 DEF IsSeen
<1>6. CASE item.health # Gone /\ seen.health = Gone
  <2>1. next = [health |-> item.health, firstAt |-> item.at, lastAt |-> item.at, stopLooking |-> FALSE]
    BY <1>6 DEF LookAt
  <2>2. old = {}
    BY <1>2, <1>4, <1>6
  <2>3. places = {k}
    BY <1>3, <1>6, <2>2
  <2> HIDE DEF next
  <2>4. /\ next \in Durations /\ next.health = item.health
        /\ next.firstAt = item.at /\ next.lastAt = item.at /\ ~next.stopLooking
    BY <1>1, <2>1 DEF Durations
  <2>5. k \in places /\ \A j \in places : k <= j
    BY <1>1, <2>3
  <2>6. c \in item.health => HoldsBackTo(c, items, places, k, next.stopLooking)
    BY <1>1, <2>3, <2>4 DEF HoldsBackTo
  <2> QED
    BY <2>4, <2>5, <2>6 DEF IsSeen
<1>7. CASE item.health # Gone /\ seen.health # Gone
  <2>1. next = NextOfState(c, seen, item)
    BY <1>7 DEF LookAt
  <2>2. places = old \union {k}
    BY <1>3, <1>7
  <2>3. PICK now \in old, since \in old :
          /\ \A j \in old : now <= j
          /\ seen.health = items[now].health /\ seen.firstAt = items[now].at
          /\ seen.lastAt = items[since].at
          /\ c \in items[now].health => HoldsBackTo(c, items, old, since, seen.stopLooking)
    BY <1>4, <1>7
  <2>4. now \in Nat /\ since \in Nat /\ now < k /\ since < k /\ \A j \in places : now <= j
    BY <1>1, <1>2, <2>2, <2>3
  <2> HIDE DEF next
  <2>5. CASE seen.stopLooking
    <3>1. next = seen
      BY <2>1, <2>5 DEF NextOfState
    <3>2. c \in items[now].health => HoldsBackTo(c, items, places, since, next.stopLooking)
      BY <1>1, <1>2, <2>2, <2>3, <2>4, <2>5, <3>1 DEF HoldsBackTo
    <3> QED
      BY <1>4, <2>2, <2>3, <2>4, <3>1, <3>2 DEF IsSeen
  <2>6. CASE ~seen.stopLooking /\ c \in item.health
    <3>1. next = [seen EXCEPT !.lastAt = item.at]
      BY <2>1, <2>6 DEF NextOfState
    <3>2. /\ next \in Durations /\ next.health = seen.health /\ next.firstAt = seen.firstAt
          /\ next.lastAt = item.at /\ next.stopLooking = seen.stopLooking
      BY <1>1, <1>4, <3>1 DEF Durations
    <3>3. c \in items[now].health => HoldsBackTo(c, items, places, k, next.stopLooking)
      BY <1>1, <1>2, <2>2, <2>3, <2>4, <2>6, <3>2 DEF HoldsBackTo
    <3> QED
      BY <2>2, <2>3, <2>4, <3>2, <3>3 DEF IsSeen
  <2>7. CASE ~seen.stopLooking /\ c \notin item.health
    <3>1. next = [seen EXCEPT !.stopLooking = TRUE]
      BY <2>1, <2>7 DEF NextOfState
    <3>2. /\ next \in Durations /\ next.health = seen.health /\ next.firstAt = seen.firstAt
          /\ next.lastAt = seen.lastAt /\ next.stopLooking
      BY <1>4, <3>1 DEF Durations
    <3>3. c \in items[now].health => HoldsBackTo(c, items, places, since, next.stopLooking)
      BY <1>1, <1>2, <2>2, <2>3, <2>4, <2>7, <3>2 DEF HoldsBackTo
    <3> QED
      BY <2>2, <2>3, <2>4, <3>2, <3>3 DEF IsSeen
  <2> QED
    BY <2>5, <2>6, <2>7
<1> QED
  BY <1>5, <1>6, <1>7

\* So it is of all the items.
LEMMA DurationIsSeen ==
  ASSUME NEW c, NEW items \in Seq(Observations)
  PROVE  IsSeen(c, items, PlacesUpTo(items, Len(items)), DurationOf(c, items))
<1>1. PICK g : IsCourse(g, c, items) /\ DurationOf(c, items) = g[Len(items)]
  BY DurationHasCourse
<1> DEFINE Wrong == {k \in 0 .. Len(items) : ~IsSeen(c, items, PlacesUpTo(items, k), g[k])}
<1>2. 0 \notin Wrong
  <2>1. PlacesUpTo(items, 0) = {}
    BY DEF PlacesUpTo
  <2>2. g[0] \in Durations /\ g[0].health = Gone
    BY <1>1, ChecksAssumption DEF IsCourse, NothingSeen, Durations, CheckTimes
  <2> QED
    BY <2>1, <2>2 DEF IsSeen
<1>3. \A k \in 1 .. Len(items) : k - 1 \notin Wrong => k \notin Wrong
  <2> SUFFICES ASSUME NEW k \in 1 .. Len(items), k - 1 \notin Wrong PROVE k \notin Wrong
    OBVIOUS
  <2>1. IsSeen(c, items, PlacesUpTo(items, k - 1), g[k - 1])
    OBVIOUS
  <2>2. g[k] = LookAt(c, g[k - 1], items[k])
    BY <1>1 DEF IsCourse
  <2> QED
    BY <2>1, <2>2, LookKeepsSeen
<1>4. Wrong = {}
  <2> SUFFICES ASSUME Wrong # {} PROVE FALSE
    OBVIOUS
  <2>1. Wrong \in SUBSET Nat /\ Wrong \subseteq 0 .. Len(items)
    OBVIOUS
  <2> HIDE DEF Wrong
  <2>2. PICK m \in Wrong : \A k \in Wrong : m <= k
    BY <2>1, LeastNumber
  <2>3. m \in 1 .. Len(items) /\ m - 1 \notin Wrong
    BY <1>2, <2>1, <2>2
  <2> QED
    BY <1>3, <2>3
<1> QED
  BY <1>1, <1>4

-----------------------------------------------------------------------------
(* The items are the newest observations *)

\* Checks are made one after the other, and overwrite those of their second.
TimesInOrder ==
  /\ checkedAt <= checkClock
  /\ \A o \in observed : o.at <= checkedAt
  /\ \A o, p \in observed : o.at = p.at => o = p

\* The items are in order, and what is not among them is older than they are,
\* and has had to leave.
NewestKept ==
  /\ \A i, j \in 1 .. Len(healthItems) : i < j => healthItems[i].at > healthItems[j].at
  /\ \A i \in 1 .. Len(healthItems) : healthItems[i] \in observed
  /\ \A o \in observed :
       \/ \E i \in 1 .. Len(healthItems) : healthItems[i] = o
       \/ /\ Len(healthItems) = MaxHealthItems
          /\ \A i \in 1 .. Len(healthItems) : o.at < healthItems[i].at

AlertIsOfItems == checkPhase = "done" => checkAlert = AlertOf(healthItems)

CheckInv ==
  CheckTypeOK /\ IsFiniteSet(observed) /\ TimesInOrder /\ NewestKept /\ AlertIsOfItems

\* Those kept and one that was not are more than are kept.
LEMMA MoreThanKept ==
  ASSUME CheckInv, NEW first \in observed,
         ~\E i \in 1 .. Len(healthItems) : healthItems[i] = first
  PROVE  Cardinality({o \in observed : o.at >= first.at}) > MaxHealthItems
<1> DEFINE n == Len(healthItems)
           since == {o \in observed : o.at >= first.at}
           kept == {healthItems[i] : i \in 1 .. n}
           f == [i \in 1 .. n |-> healthItems[i]]
<1>1. n = MaxHealthItems /\ n \in Nat /\ \A i \in 1 .. n : first.at < healthItems[i].at
  BY ChecksAssumption DEF CheckInv, NewestKept
<1>2. /\ \A i \in 1 .. n : healthItems[i] \in observed /\ healthItems[i].at \in Nat
      /\ first.at \in Nat
  BY DEF CheckInv, CheckTypeOK, NewestKept, Observations, CheckTimes
<1>3. \A i, j \in 1 .. n : i # j => healthItems[i] # healthItems[j]
  <2> SUFFICES ASSUME NEW i \in 1 .. n, NEW j \in 1 .. n, i < j PROVE healthItems[i] # healthItems[j]
    OBVIOUS
  <2>1. healthItems[i].at > healthItems[j].at
    BY DEF CheckInv, NewestKept
  <2> QED
    BY <1>2, <2>1
<1>4. IsFiniteSet(kept) /\ Cardinality(kept) = n
  <2>1. f \in Bijection(1 .. n, kept)
    BY <1>3 DEF Bijection, Injection, Surjection, IsInjective
  <2>2. IsFiniteSet(1 .. n) /\ Cardinality(1 .. n) = n
    BY <1>1, FS_Interval
  <2> QED
    BY <2>1, <2>2, FS_Bijection DEF ExistsBijection
<1>5. first \notin kept
  OBVIOUS
<1>6. Cardinality(kept \union {first}) = n + 1
  BY <1>4, <1>5, FS_AddElement
<1>7. kept \union {first} \subseteq since
  BY <1>1, <1>2
<1>8. IsFiniteSet(since)
  BY FS_Subset DEF CheckInv
<1>9. /\ Cardinality(kept \union {first}) <= Cardinality(since)
      /\ Cardinality(since) \in Nat
  BY <1>7, <1>8, FS_Subset, FS_CardinalityType
<1> QED
  BY <1>1, <1>6, <1>9

\* What the alert tells of a condition is what the observations tell.
LEMMA AlertIsRight ==
  ASSUME CheckInv, NEW c \in LastingConditions
  PROVE  /\ c \in AlertOf(healthItems) => ~IsHidden(c) /\ \E first \in Present : HasLasted(c, first)
         /\ c \notin AlertOf(healthItems) =>
              \A first \in Present :
                HasLasted(c, first) =>
                  \/ IsHidden(c)
                  \/ Cardinality({o \in observed : o.at >= first.at}) > MaxHealthItems
<1> DEFINE items == healthItems
           n == Len(items)
           places == PlacesUpTo(items, n)
           seen == DurationOf(c, items)
<1>1. items \in Seq(Observations) /\ n \in Nat
  BY DEF CheckInv, CheckTypeOK
<1>2. places = {j \in 1 .. n : items[j].health # Gone}
  BY <1>1 DEF PlacesUpTo
<1>3. /\ \A i \in 1 .. n : items[i] \in observed /\ items[i].at \in Nat
      /\ \A o \in observed : o.at \in Nat /\ o.health \in Healths \union {Gone}
      /\ \A i, j \in 1 .. n : i < j => items[i].at > items[j].at
      /\ \A o \in observed :
           (\E i \in 1 .. n : items[i] = o) \/ (\A i \in 1 .. n : o.at < items[i].at)
  <2>1. \A o \in observed : o.at \in Nat /\ o.health \in Healths \union {Gone}
    BY DEF CheckInv, CheckTypeOK, Observations, CheckTimes
  <2>2. NewestKept
    BY DEF CheckInv
  <2> QED
    BY <2>1, <2>2 DEF NewestKept
<1>4. IsSeen(c, items, places, seen)
  BY <1>1, DurationIsSeen
<1>5. c \in AlertOf(items) <=> c \in Told(seen.health) /\ IsLasting(c, seen)
  BY GoneIsNoHealth DEF AlertOf, Conditions
<1>6. c \notin Gone /\ "invalid" \notin Gone /\ "terminating" \notin Gone
  BY ChecksAssumption DEF Gone
<1>7. AlertAfter[c] \in Nat \ {0}
  BY ChecksAssumption
<1>8. \A o \in Present : o \in observed /\ o.health # Gone
  BY DEF Present
<1> HIDE DEF places, seen, n, items
<1>9. CASE places = {}
  <2>1. c \notin AlertOf(items)
    BY <1>4, <1>5, <1>6, <1>9 DEF IsSeen, Told
  <2>2. ASSUME NEW first \in Present
         PROVE  Cardinality({o \in observed : o.at >= first.at}) > MaxHealthItems
    <3>1. ~\E i \in 1 .. n : items[i] = first
      BY <1>2, <1>8, <1>9
    <3> QED
      BY <1>8, <3>1, MoreThanKept DEF items, n
  <2> QED
    BY <2>1, <2>2 DEF items
<1>10. CASE places # {}
  <2>1. PICK now \in places, since \in places :
          /\ \A j \in places : now <= j
          /\ seen.health = items[now].health /\ seen.firstAt = items[now].at
          /\ seen.lastAt = items[since].at
          /\ c \in items[now].health => HoldsBackTo(c, items, places, since, seen.stopLooking)
    BY <1>4, <1>10 DEF IsSeen
  <2>2. /\ now \in 1 .. n /\ since \in 1 .. n
        /\ items[now] \in Present /\ items[since] \in Present
    BY <1>2, <1>3, <2>1 DEF Present
  <2>3. \A o \in Present : o.at <= items[now].at
    <3> SUFFICES ASSUME NEW o \in Present PROVE o.at <= items[now].at
      OBVIOUS
    <3>1. CASE \E i \in 1 .. n : items[i] = o
      <4>1. PICK i \in 1 .. n : items[i] = o
        BY <3>1
      <4>2. i \in places
        BY <1>2, <1>8, <4>1
      <4>3. now <= i
        BY <2>1, <4>2
      <4>4. now = i \/ now < i
        BY <1>1, <2>2, <4>3 DEF n
      <4> QED
        BY <1>3, <2>2, <4>1, <4>4
    <3>2. CASE \A i \in 1 .. n : o.at < items[i].at
      BY <1>3, <1>8, <2>2, <3>2
    <3> QED
      BY <1>3, <1>8, <3>1, <3>2
  <2>4. IsHidden(c) <=> \/ c # "invalid" /\ "invalid" \in items[now].health
                        \/ c \notin {"invalid", "terminating"} /\ "terminating" \in items[now].health
    <3>1. ASSUME NEW o \in Present, \A earlier \in Present : earlier.at <= o.at
           PROVE  o = items[now]
      <4>1. o.at = items[now].at
        BY <1>3, <1>8, <2>2, <2>3, <3>1
      <4> QED
        BY <1>8, <2>2, <4>1 DEF CheckInv, TimesInOrder
    <3> QED
      BY <2>2, <2>3, <3>1 DEF IsHidden
  <2>5. c \in Told(items[now].health) <=> c \in items[now].health /\ ~IsHidden(c)
    BY <2>4 DEF Told
  <2>6. c \in AlertOf(items) <=>
          /\ c \in items[now].health /\ ~IsHidden(c)
          /\ items[now].at - items[since].at >= AlertAfter[c]
    BY <1>5, <2>1, <2>5 DEF IsLasting
  <2>7. ASSUME c \in AlertOf(items)
         PROVE  ~IsHidden(c) /\ \E first \in Present : HasLasted(c, first)
    <3>1. HoldsBackTo(c, items, places, since, seen.stopLooking)
      BY <2>1, <2>6, <2>7
    <3>2. HeldSince(c, items[since].at)
      <4> SUFFICES ASSUME NEW o \in Present, o.at >= items[since].at PROVE c \in o.health
        BY DEF HeldSince
      <4>1. PICK i \in 1 .. n : items[i] = o
        BY <1>3, <1>8, <2>2
      <4>2. i \in places
        BY <1>2, <1>8, <4>1
      <4>3. i <= since
        BY <1>1, <1>3, <2>2, <4>1 DEF n
      <4> QED
        BY <3>1, <4>1, <4>2, <4>3 DEF HoldsBackTo
    <3>3. items[now].at >= items[since].at + AlertAfter[c]
      BY <1>3, <1>7, <2>2, <2>6, <2>7
    <3> QED
      BY <2>2, <2>6, <2>7, <3>2, <3>3 DEF HasLasted
  <2>8. ASSUME c \notin AlertOf(items), NEW first \in Present, HasLasted(c, first), ~IsHidden(c)
         PROVE  Cardinality({o \in observed : o.at >= first.at}) > MaxHealthItems
    <3> SUFFICES ASSUME NEW i \in 1 .. n, items[i] = first PROVE FALSE
      BY <1>8, MoreThanKept DEF items, n
    <3>1. i \in places
      BY <1>2, <1>8
    <3>2. ASSUME NEW j \in places, j <= i PROVE c \in items[j].health
      <4>1. j \in 1 .. n /\ items[j] \in Present
        BY <1>2, <1>3 DEF Present
      <4>2. j = i \/ j < i
        BY <1>1, <3>2, <4>1 DEF n
      <4>3. items[j].at >= items[i].at
        BY <1>3, <4>1, <4>2
      <4> QED
        BY <2>8, <4>1, <4>3 DEF HasLasted, HeldSince
    <3>3. c \in items[now].health
      BY <2>1, <3>1, <3>2
    <3>4. HoldsBackTo(c, items, places, since, seen.stopLooking)
      BY <2>1, <3>3
    <3>5. i <= since
      <4>1. CASE seen.stopLooking
        <5>1. PICK b \in places : c \notin items[b].health /\ \A j \in places : j < b => j <= since
          BY <3>4, <4>1 DEF HoldsBackTo
        <5>2. b \in 1 .. n /\ ~(b <= i)
          BY <1>2, <3>2, <5>1
        <5>3. i < b
          BY <1>1, <5>2 DEF n
        <5> QED
          BY <3>1, <5>1, <5>3
      <4>2. CASE ~seen.stopLooking
        BY <3>1, <3>4, <4>2 DEF HoldsBackTo
      <4> QED
        BY <4>1, <4>2
    <3>6. items[since].at <= first.at
      <4>1. i = since \/ i < since
        BY <1>1, <2>2, <3>5 DEF n
      <4> QED
        BY <1>3, <2>2, <4>1
    <3>7. PICK last \in Present : last.at >= first.at + AlertAfter[c]
      BY <2>8 DEF HasLasted
    <3>8. /\ last.at \in Nat /\ first.at \in Nat /\ items[now].at \in Nat /\ items[since].at \in Nat
          /\ last.at <= items[now].at
      BY <1>3, <1>8, <2>2, <2>3
    <3>9. items[now].at - items[since].at >= AlertAfter[c]
      BY <1>7, <3>6, <3>7, <3>8
    <3> QED
      BY <2>6, <2>8, <3>3, <3>9
  <2> QED
    BY <2>7, <2>8 DEF items
<1> QED
  BY <1>9, <1>10

-----------------------------------------------------------------------------
(* Every step keeps this *)

\* The item comes first in the new list, and in the place of one (same) of its
\* second; one may have had to leave (over).
ComesFirst(item, new, same, over) ==
  /\ (same = 1) <=> (healthItems # <<>> /\ healthItems[1].at = item.at)
  /\ over = 1 => Len(new) = MaxHealthItems
  /\ new \in Seq(Observations)
  /\ Len(new) = 1 + Len(healthItems) - same - over
  /\ Len(new) \in 1 .. MaxHealthItems
  /\ new[1] = item
  /\ \A i \in 2 .. Len(new) : new[i] = healthItems[i + same - 1]

LEMMA ItemsWithShape ==
  ASSUME CheckTypeOK, NEW item \in Observations
  PROVE  \E same, over \in {0, 1} : ComesFirst(item, ItemsWith(item), same, over)
<1> DEFINE n == Len(healthItems)
           rest == IF healthItems # <<>> /\ healthItems[1].at = item.at THEN Tail(healthItems) ELSE healthItems
           all == Appended(item)
           same == IF healthItems # <<>> /\ healthItems[1].at = item.at THEN 1 ELSE 0
<1>1. healthItems \in Seq(Observations) /\ n \in Nat /\ n <= MaxHealthItems /\ MaxHealthItems \in Nat \ {0}
  BY ChecksAssumption DEF CheckTypeOK
<1>2. /\ rest \in Seq(Observations) /\ Len(rest) = n - same
      /\ \A i \in 1 .. Len(rest) : rest[i] = healthItems[i + same]
  BY <1>1
<1>3. all = <<item>> \o rest
  BY DEF Appended
<1> HIDE DEF rest, all
<1>4. /\ all \in Seq(Observations) /\ Len(all) = 1 + n - same
      /\ all[1] = item
      /\ \A i \in 2 .. Len(all) : all[i] = rest[i - 1]
  BY <1>1, <1>2, <1>3
<1>5. /\ same \in {0, 1} /\ (same = 1 => n >= 1)
      /\ (same = 1) <=> (healthItems # <<>> /\ healthItems[1].at = item.at)
  BY <1>1
<1> HIDE DEF same
<1>6. \A i \in 2 .. Len(all) : all[i] = healthItems[i + same - 1]
  <2> SUFFICES ASSUME NEW i \in 2 .. Len(all) PROVE all[i] = healthItems[i + same - 1]
    OBVIOUS
  <2>1. i - 1 \in 1 .. Len(rest) /\ (i - 1) + same = i + same - 1
    BY <1>1, <1>2, <1>4, <1>5
  <2> QED
    BY <1>2, <1>4, <2>1
<1>7. CASE Len(all) > MaxHealthItems
  <2>1. ItemsWith(item) = Front(all)
    BY <1>7 DEF ItemsWith, all
  <2>2. Front(all) = SubSeq(all, 1, Len(all) - 1)
    BY DEF Front
  <2>3. Len(all) = MaxHealthItems + 1
    BY <1>1, <1>4, <1>5, <1>7
  <2>4. /\ ItemsWith(item) \in Seq(Observations) /\ Len(ItemsWith(item)) = MaxHealthItems
        /\ \A i \in 1 .. MaxHealthItems : ItemsWith(item)[i] = all[i]
    BY <1>1, <1>4, <2>1, <2>2, <2>3
  <2>5. ComesFirst(item, ItemsWith(item), same, 1)
    <3>1. /\ ItemsWith(item)[1] = item
          /\ \A i \in 2 .. Len(ItemsWith(item)) : ItemsWith(item)[i] = healthItems[i + same - 1]
      BY <1>1, <1>4, <1>6, <2>3, <2>4
    <3>2. Len(ItemsWith(item)) = 1 + n - same - 1 /\ Len(ItemsWith(item)) \in 1 .. MaxHealthItems
      BY <1>1, <1>4, <1>5, <2>3, <2>4
    <3> QED
      BY <1>5, <2>4, <3>1, <3>2 DEF ComesFirst
  <2> QED
    BY <1>5, <2>5
<1>8. CASE ~(Len(all) > MaxHealthItems)
  <2>1. ItemsWith(item) = all
    BY <1>8 DEF ItemsWith, all
  <2>2. Len(all) \in 1 .. MaxHealthItems /\ Len(all) = 1 + n - same - 0
    BY <1>1, <1>4, <1>5, <1>8
  <2>3. ComesFirst(item, ItemsWith(item), same, 0)
    BY <1>4, <1>5, <1>6, <2>1, <2>2 DEF ComesFirst
  <2> QED
    BY <1>5, <2>3
<1> QED
  BY <1>7, <1>8

\* The item of a check is the newest, and what had to leave is the oldest.
LEMMA AppendKeepsCheckInv ==
  ASSUME CheckInv, AppendHealth, checkedHealth \in Healths \union {Gone}
  PROVE  CheckInv'
<1> DEFINE item == [at |-> checkedAt, health |-> checkedHealth]
           new == healthItems'
           n == Len(healthItems)
<1>1. /\ checkPhase = "append" /\ checkPhase' = "done" /\ checkedHealth' = Gone
      /\ new = ItemsWith(item) /\ checkAlert' = AlertOf(healthItems')
      /\ observed' = {o \in observed : o.at # checkedAt} \union {item}
      /\ UNCHANGED <<checkClock, healthKey, checkedAt, checkFailures>>
  BY DEF AppendHealth
<1>2. item \in Observations /\ item.at = checkedAt /\ checkedAt \in Nat
  BY DEF CheckInv, CheckTypeOK, Observations, CheckTimes
<1> HIDE DEF item, new
<1>3. PICK same \in {0, 1}, over \in {0, 1} :
        /\ (same = 1) <=> (healthItems # <<>> /\ healthItems[1].at = item.at)
        /\ over = 1 => Len(new) = MaxHealthItems
        /\ new \in Seq(Observations)
        /\ Len(new) = 1 + n - same - over
        /\ Len(new) \in 1 .. MaxHealthItems
        /\ new[1] = item
        /\ \A i \in 2 .. Len(new) : new[i] = healthItems[i + same - 1]
  <2>1. PICK same, over \in {0, 1} : ComesFirst(item, new, same, over)
    BY <1>1, <1>2, ItemsWithShape DEF CheckInv
  <2> QED
    BY <2>1 DEF ComesFirst
<1>4. /\ n \in Nat /\ n <= MaxHealthItems /\ MaxHealthItems \in Nat \ {0}
      /\ \A i \in 1 .. n : healthItems[i] \in observed
      /\ \A i, j \in 1 .. n : i < j => healthItems[i].at > healthItems[j].at
      /\ \A o \in observed : o.at \in Nat /\ o.at <= checkedAt
      /\ \A o \in observed :
           (\E i \in 1 .. n : healthItems[i] = o) \/
             (n = MaxHealthItems /\ \A i \in 1 .. n : o.at < healthItems[i].at)
  <2>1. /\ healthItems \in Seq(Observations) /\ n <= MaxHealthItems /\ MaxHealthItems \in Nat \ {0}
        /\ \A o \in observed : o.at \in Nat /\ o.at <= checkedAt
    BY ChecksAssumption DEF CheckInv, CheckTypeOK, TimesInOrder, Observations, CheckTimes
  <2>2. NewestKept
    BY DEF CheckInv
  <2> QED
    BY <2>1, <2>2 DEF NewestKept
<1> HIDE DEF n
<1>5. \A i \in 2 .. Len(new) : i + same - 1 \in 1 .. n
  BY <1>3, <1>4
\* The items that stay are of earlier seconds.
<1>6. \A i \in 2 .. Len(new) : new[i] \in observed /\ new[i].at < checkedAt /\ new[i].at \in Nat
  <2> SUFFICES ASSUME NEW i \in 2 .. Len(new)
               PROVE  new[i] \in observed /\ new[i].at < checkedAt /\ new[i].at \in Nat
    OBVIOUS
  <2>1. new[i] = healthItems[i + same - 1] /\ i + same - 1 \in 1 .. n /\ 1 \in 1 .. n
    <3>1. i + same - 1 \in 1 .. n
      BY <1>5
    <3> QED
      BY <1>3, <1>4, <3>1
  <2>2. /\ healthItems[1] \in observed /\ healthItems[1].at \in Nat
        /\ new[i] \in observed /\ new[i].at \in Nat /\ new[i].at <= checkedAt
        /\ healthItems[1].at <= checkedAt
    BY <1>4, <2>1
  <2>3. CASE same = 1
    <3>1. 1 < i + same - 1 /\ healthItems[1].at = checkedAt
      BY <1>2, <1>3, <2>3
    <3> QED
      BY <1>4, <2>1, <2>2, <3>1
  <2>4. CASE same = 0
    <3>1. healthItems # <<>> /\ healthItems[1].at # checkedAt
      BY <1>2, <1>3, <2>1, <2>4 DEF n
    <3>2. healthItems[1].at < checkedAt
      BY <1>2, <2>2, <3>1
    <3>3. CASE i + same - 1 = 1
      BY <2>1, <2>2, <3>2, <3>3
    <3>4. CASE 1 < i + same - 1
      <4>1. healthItems[1].at > healthItems[i + same - 1].at
        BY <1>4, <2>1, <3>4
      <4> QED
        BY <1>2, <2>1, <2>2, <3>2, <4>1
    <3>5. i + same - 1 = 1 \/ 1 < i + same - 1
      BY <2>1
    <3> QED
      BY <3>3, <3>4, <3>5
  <2> QED
    BY <2>3, <2>4
<1>7. NewestKept'
  <2>1. ASSUME NEW i \in 1 .. Len(new), NEW j \in 1 .. Len(new), i < j
         PROVE  new[i].at > new[j].at
    <3>1. j \in 2 .. Len(new)
      BY <1>3, <2>1
    <3>2. CASE i = 1
      BY <1>2, <1>3, <1>6, <3>1, <3>2
    <3>3. CASE i \in 2 .. Len(new)
      <4>1. i + same - 1 < j + same - 1
        BY <2>1
      <4> QED
        BY <1>3, <1>4, <1>5, <3>1, <3>3, <4>1
    <3> QED
      BY <1>3, <3>2, <3>3
  <2>2. ASSUME NEW i \in 1 .. Len(new) PROVE new[i] \in observed'
    <3>1. CASE i = 1
      BY <1>1, <1>3, <3>1 DEF item
    <3>2. CASE i \in 2 .. Len(new)
      <4>1. new[i] \in observed /\ new[i].at # checkedAt
        BY <1>2, <1>6, <3>2
      <4> QED
        BY <1>1, <4>1
    <3> QED
      BY <3>1, <3>2
  <2>3. ASSUME NEW o \in observed', ~\E i \in 1 .. Len(new) : new[i] = o
         PROVE  Len(new) = MaxHealthItems /\ \A i \in 1 .. Len(new) : o.at < new[i].at
    <3>1. o # item
      BY <1>3, <2>3
    <3>2. o \in observed /\ o.at # checkedAt
      BY <1>1, <3>1 DEF item
    <3>3. o.at \in Nat /\ o.at < checkedAt
      BY <1>2, <1>4, <3>2
    <3>4. CASE \E i \in 1 .. n : healthItems[i] = o
      <4>1. PICK i \in 1 .. n : healthItems[i] = o
        BY <3>4
      <4>2. i > same
        <5>1. same = 1 => i # 1
          BY <1>2, <1>3, <3>2, <4>1
        <5> QED
          BY <1>3, <1>4, <5>1
      <4>3. i - same + 1 > Len(new)
        <5> SUFFICES ASSUME i - same + 1 <= Len(new) PROVE FALSE
          BY <1>3, <1>4
        <5>1. i - same + 1 \in 2 .. Len(new) /\ (i - same + 1) + same - 1 = i
          BY <1>3, <1>4, <4>2
        <5>2. new[i - same + 1] = o
          BY <1>3, <4>1, <5>1
        <5>3. i - same + 1 \in 1 .. Len(new)
          BY <5>1
        <5> QED
          BY <2>3, <5>2, <5>3
      <4>4. over = 1 /\ i = n
        BY <1>3, <1>4, <4>3
      <4>5. ASSUME NEW j \in 1 .. Len(new) PROVE o.at < new[j].at
        <5>1. CASE j = 1
          BY <1>2, <1>3, <3>3, <5>1
        <5>2. CASE j \in 2 .. Len(new)
          <6>1. j + same - 1 \in 1 .. n /\ j + same - 1 < n
            BY <1>3, <1>4, <1>5, <4>4, <5>2
          <6> QED
            BY <1>3, <1>4, <4>1, <4>4, <5>2, <6>1
        <5> QED
          BY <5>1, <5>2
      <4> QED
        BY <1>3, <4>4, <4>5
    <3>5. CASE n = MaxHealthItems /\ \A i \in 1 .. n : o.at < healthItems[i].at
      <4>1. Len(new) = MaxHealthItems
        <5>1. CASE same = 1
          BY <1>3, <1>4, <3>5, <5>1
        <5>2. CASE same = 0
          BY <1>3, <1>4, <3>5, <5>2
        <5> QED
          BY <5>1, <5>2
      <4>2. ASSUME NEW j \in 1 .. Len(new) PROVE o.at < new[j].at
        <5>1. CASE j = 1
          BY <1>2, <1>3, <3>3, <5>1
        <5>2. CASE j \in 2 .. Len(new)
          BY <1>3, <1>5, <3>5, <5>2
        <5> QED
          BY <5>1, <5>2
      <4> QED
        BY <4>1, <4>2
    <3> QED
      BY <1>4, <3>2, <3>4, <3>5
  <2> QED
    BY <2>1, <2>2, <2>3 DEF NewestKept, new
<1>8. IsFiniteSet(observed')
  <2>1. IsFiniteSet({o \in observed : o.at # checkedAt})
    BY FS_Subset DEF CheckInv
  <2> QED
    BY <1>1, <2>1, FS_AddElement
<1>9. TimesInOrder'
  BY <1>1, <1>2 DEF CheckInv, TimesInOrder
<1>10. CheckTypeOK'
  <2>1. /\ healthItems' \in Seq(Observations) /\ Len(healthItems') <= MaxHealthItems
    BY <1>3, <1>4 DEF new
  <2>2. checkAlert' \subseteq Conditions
    BY <1>1 DEF AlertOf
  <2>3. observed' \subseteq Observations
    BY <1>1, <1>2 DEF CheckInv, CheckTypeOK
  <2> QED
    BY <1>1, <2>1, <2>2, <2>3 DEF CheckInv, CheckTypeOK
<1>11. AlertIsOfItems'
  BY <1>1 DEF AlertIsOfItems
<1> QED
  BY <1>7, <1>8, <1>9, <1>10, <1>11 DEF CheckInv

LEMMA CheckInvInit == CheckInit => CheckInv
<1> SUFFICES ASSUME CheckInit PROVE CheckInv
  OBVIOUS
<1>1. CheckTypeOK
  <2>1. 0 \in CheckTimes /\ 0 \in 0 .. MaxCheckFailures /\ Len(<<>>) <= MaxHealthItems
    BY ChecksAssumption DEF CheckTimes
  <2>2. <<>> \in Seq(Observations) /\ {} \subseteq Observations /\ {} \subseteq Conditions
    OBVIOUS
  <2> QED
    BY <2>1, <2>2 DEF CheckInit, CheckTypeOK
<1>2. TimesInOrder /\ NewestKept /\ AlertIsOfItems
  BY DEF CheckInit, TimesInOrder, NewestKept, AlertIsOfItems
<1>3. IsFiniteSet(observed)
  BY FS_EmptySet DEF CheckInit
<1> QED
  BY <1>1, <1>2, <1>3 DEF CheckInv

LEMMA CheckInvStep ==
  ASSUME CheckInv, [CheckNext]_checkVars
  PROVE  CheckInv'
<1> USE ChecksAssumption
<1>1. CASE CheckTick
  BY <1>1 DEF CheckTick, CheckInv, CheckTypeOK, CheckTimes, TimesInOrder, NewestKept, AlertIsOfItems
<1>2. CASE \E health \in Healths \union {Gone} : GetHealth(health)
  <2> PICK health \in Healths \union {Gone} : GetHealth(health)
    BY <1>2
  <2>1. CheckTypeOK'
    BY DEF GetHealth, CheckInv, CheckTypeOK
  <2>2. TimesInOrder'
    <3>1. checkClock \in Nat /\ checkedAt \in Nat /\ \A o \in observed : o.at \in Nat
      BY DEF CheckInv, CheckTypeOK, CheckTimes, Observations
    <3> QED
      BY <3>1 DEF GetHealth, CheckInv, TimesInOrder
  <2>3. IsFiniteSet(observed)' /\ NewestKept' /\ AlertIsOfItems'
    BY DEF GetHealth, CheckInv, NewestKept, AlertIsOfItems
  <2> QED
    BY <2>1, <2>2, <2>3 DEF CheckInv
<1>3. CASE SkipGone \/ StoreHealth \/ CheckFails
  <2>1. /\ checkPhase' # "done"
        /\ UNCHANGED <<checkClock, checkedAt, healthItems, observed>>
    BY <1>3 DEF SkipGone, StoreHealth, CheckFails
  <2>2. CheckTypeOK'
    <3>1. CASE SkipGone
      BY <3>1 DEF SkipGone, CheckInv, CheckTypeOK
    <3>2. CASE StoreHealth
      BY <3>2 DEF StoreHealth, CheckInv, CheckTypeOK
    <3>3. CASE CheckFails
      BY <3>3 DEF CheckFails, CheckInv, CheckTypeOK
    <3> QED
      BY <1>3, <3>1, <3>2, <3>3
  <2> QED
    BY <2>1, <2>2 DEF CheckInv, TimesInOrder, NewestKept, AlertIsOfItems
<1>4. CASE AppendHealth
  <2>1. checkedHealth \in Healths \union {Gone}
    BY DEF CheckInv, CheckTypeOK
  <2> QED
    BY <1>4, <2>1, AppendKeepsCheckInv
<1>5. CASE UNCHANGED checkVars
  BY <1>5 DEF checkVars, CheckInv, CheckTypeOK, TimesInOrder, NewestKept, AlertIsOfItems
<1> QED
  BY <1>1, <1>2, <1>3, <1>4, <1>5 DEF CheckNext

\* The types of the workers checker, for any number of items, times and failures.
THEOREM CheckTypeCorrect == CheckSpec => []CheckTypeOK
<1>1. CheckInv => CheckTypeOK
  BY DEF CheckInv
<1> QED
  BY <1>1, CheckInvInit, CheckInvStep, PTL DEF CheckSpec

\* A check alerts about a condition if it has held for too long at every check,
\* and only then, for any delays, any number of items and any time
\* (get_worker_conditions over the items that are kept).
THEOREM AlertedInTimeHolds == CheckSpec => []AlertedInTime
<1>1. CheckInv => AlertedInTime
  BY AlertIsRight DEF AlertedInTime, CheckInv, AlertIsOfItems
<1> QED
  BY <1>1, CheckInvInit, CheckInvStep, PTL DEF CheckSpec

-----------------------------------------------------------------------------
(* The pool of subprocesses: its limit, and what an iteration ends with *)

\* What the daemon has taken note of is true of the processes.
CompletedHaveEnded ==
  /\ \A t \in completed : process[t] \in {"succeeded", "failed"}
  /\ errored = {t \in completed : process[t] = "failed"}
  /\ \A t \in Tasks :
       responses[t] = IF t \in completed /\ process[t] = "succeeded" THEN 1 ELSE 0

\* A slot is free whenever a task is about to be started.
SlotsFree ==
  /\ Cardinality(Active) <= MaxProcesses
  /\ poolPhase = "process" => Cardinality(Active) < MaxProcesses

\* All tasks are started before finalize, and have ended after it.
AllAccountedFor ==
  /\ poolPhase \in {"finalize", "done", "raised"} => Started = Tasks
  /\ poolPhase \in {"done", "raised"} => completed = Tasks
  /\ poolPhase = "done" => errored = {}
  /\ poolPhase = "raised" => errored # {}

PoolInv == PoolTypeOK /\ CompletedHaveEnded /\ SlotsFree /\ AllAccountedFor

\* Fewer active processes, none of them new, are no more than there were.
LEMMA FewerActive ==
  ASSUME NEW S, NEW T, IsFiniteSet(T), S \subseteq T
  PROVE  /\ IsFiniteSet(S) /\ Cardinality(S) \in Nat /\ Cardinality(T) \in Nat
         /\ Cardinality(S) <= Cardinality(T)
BY FS_Subset, FS_CardinalityType

\* The sets of processes that are counted are finite.
LEMMA ActiveFinite ==
  ASSUME PoolTypeOK
  PROVE  IsFiniteSet(Active) /\ Cardinality(Active) \in Nat
BY PoolAssumption, FS_Subset, FS_CardinalityType DEF Active, Started, PoolTypeOK

\* PoolInv holds at the start, without processes.
LEMMA PoolInvInit == PoolInit => PoolInv
<1> SUFFICES ASSUME PoolInit PROVE PoolInv
  OBVIOUS
<1>1. Started = {} /\ Active = {}
  BY DEF PoolInit, Started, Active
<1>2. Cardinality(Active) = 0
  BY <1>1, FS_EmptySet
<1> QED
  BY <1>1, <1>2, PoolAssumption
  DEF PoolInit, PoolInv, PoolTypeOK, CompletedHaveEnded, SlotsFree, AllAccountedFor

\* Every step keeps the types.
LEMMA PoolStepType ==
  ASSUME PoolTypeOK, [PoolNext]_poolVars
  PROVE  PoolTypeOK'
<1> USE PoolAssumption DEF PoolTypeOK
<1>1. CASE \E t \in Tasks : StartTask(t)
  BY <1>1 DEF StartTask
<1>2. CASE SlotAvailable \/ Finalize \/ AllEnded \/ PoolDies
  BY <1>2 DEF SlotAvailable, Finalize, AllEnded, PoolDies
<1>3. CASE NextIteration
  <2>1. output' \in [Tasks -> Nat] /\ unwritten' \in [Tasks -> Nat]
    BY <1>3 DEF NextIteration
  <2> QED
    BY <1>3, <2>1 DEF NextIteration
<1>4. CASE \E t \in Tasks : PollEnded(t)
  BY <1>4 DEF PollEnded
<1>5. CASE \E t \in Tasks : WriteOutput(t)
  BY <1>5 DEF WriteOutput
<1>6. CASE \E t \in Tasks : EndProcess(t)
  BY <1>6 DEF EndProcess
<1>7. CASE UNCHANGED poolVars
  BY <1>7 DEF poolVars
<1> QED
  BY <1>1, <1>2, <1>3, <1>4, <1>5, <1>6, <1>7 DEF PoolNext, PoolDaemon, ProcessStep

\* Every step keeps PoolInv: a process is started below the limit only.
LEMMA PoolInvStep ==
  ASSUME PoolInv, [PoolNext]_poolVars
  PROVE  PoolInv'
<1> USE DEF PoolInv
<1>0. PoolTypeOK'
  BY PoolStepType
<1>a. IsFiniteSet(Active) /\ Cardinality(Active) \in Nat /\ MaxProcesses \in Nat /\ MaxProcesses > 1
  BY ActiveFinite, PoolAssumption
<1>1. ASSUME NEW t \in Tasks, StartTask(t)
      PROVE  PoolInv'
  <2>1. t \notin completed /\ Started' = Started \union {t}
    BY <1>1 DEF StartTask, Started, PoolTypeOK, CompletedHaveEnded
  <2>2. Active' = Active \union {t} /\ t \notin Active
    BY <1>1, <2>1 DEF StartTask, Started, Active
  <2>3. Cardinality(Active') = Cardinality(Active) + 1
    BY <2>2, <1>a, FS_AddElement
  <2>4. SlotsFree'
    BY <1>1, <2>3, <1>a DEF StartTask, SlotsFree
  <2>5. CompletedHaveEnded'
    BY <1>1, <2>1 DEF StartTask, CompletedHaveEnded, PoolTypeOK
  <2>6. AllAccountedFor'
    BY <1>1 DEF StartTask, AllAccountedFor
  <2> QED
    BY <1>0, <2>4, <2>5, <2>6
<1>2. CASE SlotAvailable
  <2>1. UNCHANGED <<process, completed, errored, responses>> /\ poolPhase' = "process"
    BY <1>2 DEF SlotAvailable
  <2>2. SlotsFree'
    BY <1>2, <2>1, <1>a DEF SlotAvailable, HasSlot, SlotsFree, Active, Started
  <2> QED
    BY <1>0, <2>1, <2>2 DEF CompletedHaveEnded, AllAccountedFor
<1>3. CASE Finalize
  BY <1>0, <1>3, <1>a DEF Finalize, SlotsFree, Active, Started, CompletedHaveEnded, AllAccountedFor
<1>4. ASSUME NEW t \in Tasks, PollEnded(t)
      PROVE  PoolInv'
  <2>1. Active' \subseteq Active /\ Started' = Started
    BY <1>4 DEF PollEnded, Active, Started
  <2>2. SlotsFree'
    BY <1>4, <2>1, <1>a, FewerActive DEF PollEnded, SlotsFree
  <2>3. CompletedHaveEnded'
    BY <1>4 DEF PollEnded, IsNew, IsEnded, CompletedHaveEnded, PoolTypeOK
  <2>4. AllAccountedFor'
    BY <1>4, <2>1 DEF PollEnded, AllAccountedFor
  <2> QED
    BY <1>0, <2>2, <2>3, <2>4
<1>5. CASE AllEnded
  <2>1. completed = Tasks
    BY <1>5 DEF AllEnded, AllAccountedFor, Active, PoolTypeOK
  <2> QED
    BY <1>0, <1>5, <1>a, <2>1
    DEF AllEnded, SlotsFree, Active, Started, CompletedHaveEnded, AllAccountedFor
<1>6. CASE NextIteration
  <2>1. Started' = {} /\ Active' = {}
    BY <1>6 DEF NextIteration, Started, Active
  <2>2. SlotsFree'
    BY <2>1, <1>a, FS_EmptySet DEF SlotsFree
  <2> QED
    BY <1>0, <1>6, <2>2 DEF NextIteration, CompletedHaveEnded, AllAccountedFor
<1>7. CASE PoolDies
  BY <1>0, <1>7, <1>a DEF PoolDies, SlotsFree, Active, Started, CompletedHaveEnded, AllAccountedFor
<1>8. ASSUME NEW t \in Tasks, WriteOutput(t)
      PROVE  PoolInv'
  BY <1>0, <1>8, <1>a DEF WriteOutput, SlotsFree, Active, Started, CompletedHaveEnded, AllAccountedFor
<1>9. ASSUME NEW t \in Tasks, EndProcess(t)
      PROVE  PoolInv'
  <2>1. t \notin completed
    BY <1>9 DEF EndProcess, CompletedHaveEnded
  <2>2. Started' = Started /\ Active' = Active
    BY <1>9 DEF EndProcess, Started, Active, PoolTypeOK
  <2>3. CompletedHaveEnded'
    BY <1>9, <2>1 DEF EndProcess, CompletedHaveEnded, PoolTypeOK
  <2>4. SlotsFree' /\ AllAccountedFor'
    BY <1>9, <2>2 DEF EndProcess, SlotsFree, AllAccountedFor
  <2> QED
    BY <1>0, <2>3, <2>4
<1>10. CASE UNCHANGED poolVars
  BY <1>0, <1>10 DEF poolVars, SlotsFree, Active, Started, CompletedHaveEnded, AllAccountedFor
<1> QED
  BY <1>1, <1>2, <1>3, <1>4, <1>5, <1>6, <1>7, <1>8, <1>9, <1>10
  DEF PoolNext, PoolDaemon, ProcessStep

\* The pool keeps to its invariant, whatever its tasks print and return.
THEOREM PoolInvariant == PoolSpec => []PoolInv
BY PoolInvInit, PoolInvStep, PTL DEF PoolSpec

\* No more than max_parallel_processes run at a time, for any number of tasks
\* and any limit but 1: only ended processes are taken off the active ones
\* (get_active_processes), and one is started only when there was a slot.
THEOREM PoolBoundedHolds == PoolSpec => []PoolBounded
<1>1. PoolInv => PoolBounded
  <2> SUFFICES ASSUME PoolInv PROVE PoolBounded
    OBVIOUS
  <2>1. Running \subseteq Active
    BY DEF PoolInv, CompletedHaveEnded, Running, Active, Started
  <2> QED
    BY <2>1, ActiveFinite, FewerActive, PoolAssumption DEF PoolInv, SlotsFree, PoolBounded
<1> QED
  BY <1>1, PoolInvariant, PTL

\* An iteration ends with every task run and every response handled once, and
\* raises if and only if a task failed (finalize).
THEOREM PoolResultHolds == PoolSpec => []PoolResult
<1>1. PoolInv => PoolResult
  BY DEF PoolInv, CompletedHaveEnded, AllAccountedFor, PoolResult
<1> QED
  BY <1>1, PoolInvariant, PTL

\* What a process has printed is in its pipe until it has ended.
OutputKept ==
  \A t \in Tasks :
    process[t] \in {"none", "running"} => unwritten[t] + piped[t] = output[t]

\* Every step keeps OutputKept: nobody reads a pipe before its process ends.
LEMMA OutputKeptStep ==
  ASSUME PoolInv, OutputKept, [PoolNext]_poolVars
  PROVE  OutputKept'
<1> USE PoolAssumption DEF PoolInv, PoolTypeOK, OutputKept
<1>1. CASE \E t \in Tasks : StartTask(t)
  BY <1>1 DEF StartTask
<1>2. CASE SlotAvailable \/ Finalize \/ AllEnded \/ PoolDies
  BY <1>2 DEF SlotAvailable, Finalize, AllEnded, PoolDies
<1>3. CASE NextIteration
  <2>1. \A t \in Tasks : output'[t] \in Nat /\ unwritten'[t] = output'[t] /\ piped'[t] = 0
    BY <1>3 DEF NextIteration
  <2> QED
    BY <2>1
<1>4. CASE \E t \in Tasks : PollEnded(t)
  BY <1>4 DEF PollEnded, IsNew, IsEnded
<1>5. CASE \E t \in Tasks : WriteOutput(t)
  <2>1. PICK t \in Tasks : WriteOutput(t)
    BY <1>5
  <2>2. /\ unwritten'[t] = unwritten[t] - 1 /\ piped'[t] = piped[t] + 1
        /\ unwritten[t] \in Nat /\ piped[t] \in Nat /\ output'[t] = output[t]
        /\ process[t] = "running" /\ process' = process
    BY <2>1 DEF WriteOutput
  <2>3. \A s \in Tasks \ {t} :
          unwritten'[s] = unwritten[s] /\ piped'[s] = piped[s] /\ output'[s] = output[s]
    BY <2>1 DEF WriteOutput
  <2>4. unwritten'[t] + piped'[t] = output'[t]
    <3>1. unwritten[t] + piped[t] = output[t]
      BY <2>2
    <3> QED
      BY <2>2, <3>1
  <2> QED
    BY <2>2, <2>3, <2>4
<1>6. CASE \E t \in Tasks : EndProcess(t)
  BY <1>6 DEF EndProcess
<1>7. CASE UNCHANGED poolVars
  BY <1>7 DEF poolVars
<1> QED
  BY <1>1, <1>2, <1>3, <1>4, <1>5, <1>6, <1>7 DEF PoolNext, PoolDaemon, ProcessStep

\* A process that has not been polled as ended has ended, can go on, or has
\* filled its pipe and has more to print.
LEMMA ActiveIsAwaited ==
  ASSUME PoolInv, OutputKept, NEW t \in Active
  PROVE  IsNew(t) \/ CanStep(t) \/ output[t] > PipeCapacity
<1>1. /\ t \in Tasks /\ process[t] \in {"running", "succeeded", "failed"} /\ t \notin completed
      /\ unwritten[t] \in Nat /\ piped[t] \in 0 .. PipeCapacity
  BY DEF Active, Started, PoolInv, PoolTypeOK
<1>2. CASE process[t] # "running"
  BY <1>1, <1>2 DEF IsNew, IsEnded
<1>3. CASE process[t] = "running" /\ ~CanStep(t)
  <2>1. unwritten[t] # 0 /\ ~(piped[t] < PipeCapacity)
    BY <1>3 DEF CanStep
  <2>2. unwritten[t] + piped[t] = output[t]
    BY <1>1, <1>3 DEF OutputKept
  <2> QED
    BY <1>1, <2>1, <2>2, PoolAssumption
<1> QED
  BY <1>2, <1>3

\* The daemon and its processes do not wait for each other, for any number of
\* tasks, any limit and any capacity of a pipe, unless a task prints more than
\* a pipe holds (wait_for_available_process_slot, finalize).
THEOREM PoolNotStuckHolds == PoolSpec => []PoolNotStuck
<1>1. PoolInit => OutputKept
  BY DEF PoolInit, OutputKept
<1>2. PoolSpec => []OutputKept
  BY <1>1, PoolInvariant, OutputKeptStep, PTL DEF PoolSpec
<1>3. PoolInv /\ OutputKept => PoolNotStuck
  <2> SUFFICES ASSUME PoolInv, OutputKept PROVE PoolNotStuck
    OBVIOUS
  <2>1. ~HasSlot => Active # {}
    BY FS_EmptySet, PoolAssumption DEF HasSlot
  <2>2. Active # {} => \E t \in Tasks : IsNew(t) \/ CanStep(t) \/ output[t] > PipeCapacity
    BY ActiveIsAwaited DEF Active, Started
  <2> QED
    BY <2>1, <2>2 DEF PoolNotStuck
<1> QED
  BY <1>2, <1>3, PoolInvariant, PTL
=============================================================================
