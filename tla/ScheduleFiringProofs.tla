------------------------- MODULE ScheduleFiringProofs -------------------------
(***************************************************************************)
(* For any set of schedules, any crons and any number of slots, kills and  *)
(* edits: the pool's count is exact, a due time has one fate and the next  *)
(* time is one the present cron names.  A due time has one fate because    *)
(* the next time only ever moves past what has been claimed: every run row *)
(* of the poll lies before it, and a claim takes exactly what it shows.    *)
(* A due time that was offered fresh is never called missed, since its     *)
(* snapshot stays in the pool; and kills lose at most one due time each,   *)
(* since of those claimed without a row one at most is in hand.            *)
(***************************************************************************)
EXTENDS ScheduleFiring, FiniteSetTheorems, SequenceTheorems, WellFoundedInduction, TLAPS

PoolExact == IsFiniteSet(Holding(stage)) /\ PoolCountsItsFires

\* What is listed is due.
ListedAreDue == \A s \in listed : next[s] <= now

\* A snapshot was taken when its due time had come.
JobsAreOfTheirTime ==
    \A s \in Schedules :
        job[s].door = "poll" => job[s].due <= job[s].at /\ job[s].at <= now

\* A snapshot whose due time still stands carries the present cron.
SnapshotsCarryTheCron ==
    \A s \in Schedules :
        /\ stage[s] \in {"waiting", "granted"} /\ job[s].door = "poll"
        /\ next[s] = job[s].due
        => cron[s] = job[s].cron

\* The rows of a poll lie before the present and before the next time.
RowsArePast ==
    \A r \in rows : r.trigger = "poll" => r.at <= now /\ r.at < next[r.schedule]

OneRowPerDueTime ==
    \A q, r \in rows :
        /\ q.trigger = "poll" /\ r.trigger = "poll"
        /\ q.schedule = r.schedule /\ q.at = r.at
        => q = r

\* What is claimed and not accounted for has no row, and never will be due again.
ClaimedHasNoRow ==
    \A s \in Schedules :
        stage[s] = "claimed" =>
            /\ job[s].door = "poll" /\ job[s].due < next[s]
            /\ \A r \in rows : r.schedule = s /\ r.trigger = "poll" => r.at # job[s].due

Fate == RowsArePast /\ OneRowPerDueTime /\ ClaimedHasNoRow
Snapshots == ListedAreDue /\ JobsAreOfTheirTime /\ SnapshotsCarryTheCron

IInv == TypeOK /\ PoolExact /\ Snapshots /\ NextIsOfThePresentCron /\ Fate

USE OneTimeAssumption, HorizonAssumption, CronAssumption, MaxFiresAssumption

-----------------------------------------------------------------------------
\* The crons.

\* The next time is one the cron names after t, or never.
LEMMA NextRunIsLater ==
    ASSUME NEW c \in SUBSET Times, NEW t \in Times
    PROVE  /\ NextRun(c, t) \in c \cup {Never} /\ NextRun(c, t) \in Times \cup {Never}
           /\ t < NextRun(c, t)
<1> DEFINE later == {u \in c : u > t}
<1>1. CASE later = {}
  BY <1>1 DEF NextRun, Never, Times
<1>2. CASE later # {}
  <2>1. later \in SUBSET Nat
    <3>1. Times \subseteq Nat
      BY DEF Times
    <3> QED
      BY <3>1
  <2>2. PICK u \in later : \A v \in later : <<v, u>> \notin OpToRel(<, Nat)
    BY <1>2, <2>1, NatLessThanWellFounded, WFMin
  <2>3. OpToRel(<, Nat) = {p \in Nat \X Nat : p[1] < p[2]}
    BY Zenon DEF OpToRel
  <2>4. \A v \in later : u <= v
    <3> SUFFICES ASSUME NEW v \in later PROVE ~(v < u)
      BY <2>1
    <3>1. <<v, u>> \in Nat \X Nat /\ <<v, u>>[1] = v /\ <<v, u>>[2] = u
      BY <2>1
    <3>2. v < u => <<v, u>> \in {p \in Nat \X Nat : p[1] < p[2]}
      BY <3>1
    <3> QED
      BY <2>2, <2>3, <3>2
  <2>5. NextRun(c, t) = CHOOSE w \in later : \A v \in later : w <= v
    BY <1>2 DEF NextRun
  <2>6. NextRun(c, t) \in later
    <3> HIDE DEF later
    <3> QED
      BY <2>4, <2>5
  <2> QED
    BY <2>6
<1> QED
  BY <1>1, <1>2

-----------------------------------------------------------------------------
\* The pool.

\* A fire enters the pool.
LEMMA AcquireKeepsPool ==
    ASSUME TypeOK, PoolExact, NEW s \in Schedules, stage[s] = "out", AcquireSlot(s)
    PROVE  /\ PoolExact'
           /\ stage' \in [Schedules -> Stages] /\ waiters' \in Seq(Schedules)
           /\ active' \in 0..MaxFires
           /\ stage'[s] \in {"granted", "waiting"}
           /\ \A q \in Schedules : q # s => stage'[q] = stage[q]
<1>1. CASE active < MaxFires /\ active' = active + 1
           /\ stage' = [stage EXCEPT ![s] = "granted"] /\ UNCHANGED waiters
  <2>1. Holding(stage') = Holding(stage) \cup {s} /\ s \notin Holding(stage)
    BY <1>1 DEF TypeOK, Holding
  <2>2. IsFiniteSet(Holding(stage')) /\ Cardinality(Holding(stage')) = active + 1
    BY <2>1, FS_AddElement DEF PoolExact, PoolCountsItsFires
  <2>3. stage' \in [Schedules -> Stages] /\ active' \in 0..MaxFires /\ waiters' = waiters
    BY <1>1 DEF TypeOK, Stages
  <2>4. waiters = <<>>
    BY <1>1 DEF TypeOK, PoolExact, PoolCountsItsFires
  <2>5. \A q \in Schedules : stage'[q] = "waiting" <=> stage[q] = "waiting"
    BY <1>1 DEF TypeOK
  <2>6. PoolExact'
    BY <1>1, <2>2, <2>3, <2>4, <2>5 DEF PoolExact, PoolCountsItsFires
  <2> QED
    BY <1>1, <2>3, <2>6 DEF TypeOK
<1>2. CASE active >= MaxFires /\ stage' = [stage EXCEPT ![s] = "waiting"]
           /\ waiters' = Append(waiters, s) /\ UNCHANGED active
  <2>1. Holding(stage') = Holding(stage)
    BY <1>2 DEF TypeOK, Holding
  <2>2. /\ stage' \in [Schedules -> Stages] /\ active' \in 0..MaxFires
        /\ active = MaxFires /\ waiters \in Seq(Schedules)
    BY <1>2 DEF TypeOK, Stages
  <2>3. /\ waiters' \in Seq(Schedules) /\ DOMAIN waiters' = 1..(Len(waiters) + 1)
        /\ DOMAIN waiters = 1..Len(waiters)
        /\ \A i \in DOMAIN waiters : waiters'[i] = waiters[i]
        /\ waiters'[Len(waiters) + 1] = s
    BY <1>2, <2>2
  <2>4. ~\E i \in DOMAIN waiters : waiters[i] = s
    BY DEF PoolExact, PoolCountsItsFires
  <2>5. \A i, j \in DOMAIN waiters' : waiters'[i] = waiters'[j] => i = j
    BY <2>2, <2>3, <2>4 DEF PoolExact, PoolCountsItsFires
  <2>6. \A q \in Schedules :
           stage'[q] = "waiting" <=> \E i \in DOMAIN waiters' : waiters'[i] = q
    <3> SUFFICES ASSUME NEW q \in Schedules
                 PROVE  stage'[q] = "waiting" <=> \E i \in DOMAIN waiters' : waiters'[i] = q
      OBVIOUS
    <3>1. CASE q = s
      <4>1. stage'[s] = "waiting"
        BY <1>2 DEF TypeOK
      <4>2. Len(waiters) + 1 \in DOMAIN waiters'
        BY <2>2, <2>3
      <4> QED
        BY <2>3, <3>1, <4>1, <4>2
    <3>2. CASE q # s
      <4>1. stage'[q] = stage[q]
        BY <1>2, <3>2 DEF TypeOK
      <4>2. (\E i \in DOMAIN waiters' : waiters'[i] = q)
            <=> \E i \in DOMAIN waiters : waiters[i] = q
        BY <2>2, <2>3, <3>2
      <4>3. stage[q] = "waiting" <=> \E i \in DOMAIN waiters : waiters[i] = q
        BY DEF PoolExact, PoolCountsItsFires
      <4>4. stage'[q] = "waiting" <=> stage[q] = "waiting"
        BY <4>1
      <4> QED
        BY <4>2, <4>3, <4>4, Zenon
    <3> QED
      BY <3>1, <3>2
  <2>7. PoolExact'
    BY <1>2, <2>1, <2>2, <2>5, <2>6 DEF PoolExact, PoolCountsItsFires
  <2> QED
    BY <1>2, <2>2, <2>3, <2>7 DEF TypeOK
<1> QED
  BY <1>1, <1>2 DEF AcquireSlot

\* A fire leaves the pool, and hands its slot to the first that waits.
LEMMA LeaveKeepsPool ==
    ASSUME TypeOK, PoolExact, NEW s \in Holding(stage), LeavePool(s)
    PROVE  /\ PoolExact'
           /\ stage' \in [Schedules -> Stages] /\ waiters' \in Seq(Schedules)
           /\ active' \in 0..MaxFires
           /\ stage'[s] = "out"
           /\ \A q \in Schedules : q # s =>
                 \/ stage'[q] = stage[q]
                 \/ stage[q] = "waiting" /\ stage'[q] = "granted"
<1> DEFINE h == Head(waiters)
<1>1. s \in Schedules /\ stage[s] \in {"granted", "claimed", "firing"}
  BY DEF Holding
<1>2. active = Cardinality(Holding(stage)) /\ IsFiniteSet(Holding(stage))
  BY DEF PoolExact, PoolCountsItsFires
<1>3. CASE /\ waiters # <<>> /\ waiters' = Tail(waiters) /\ UNCHANGED active
           /\ stage' = [stage EXCEPT ![s] = "out", ![h] = "granted"]
  <2>1. /\ waiters \in Seq(Schedules) /\ waiters' \in Seq(Schedules)
        /\ 1 \in DOMAIN waiters /\ h = waiters[1] /\ h \in Schedules
        /\ DOMAIN waiters = 1..Len(waiters) /\ DOMAIN waiters' = 1..(Len(waiters) - 1)
        /\ \A i \in DOMAIN waiters' : waiters'[i] = waiters[i + 1]
    <3>1. waiters \in Seq(Schedules) /\ waiters # <<>> /\ waiters' = Tail(waiters)
      BY <1>3 DEF TypeOK
    <3> QED
      BY <3>1, HeadTailProperties
  <2>2. /\ \A q \in Schedules : stage[q] = "waiting" <=> \E i \in DOMAIN waiters : waiters[i] = q
        /\ \A i, j \in DOMAIN waiters : waiters[i] = waiters[j] => i = j
        /\ active = MaxFires
    BY <1>3 DEF PoolExact, PoolCountsItsFires
  <2>3. stage[h] = "waiting" /\ h # s
    BY <1>1, <2>1, <2>2
  <2> HIDE DEF h
  <2>4. /\ stage' \in [Schedules -> Stages] /\ stage'[s] = "out" /\ stage'[h] = "granted"
        /\ \A q \in Schedules : q # s /\ q # h => stage'[q] = stage[q]
    BY <1>1, <1>3, <2>1, <2>3 DEF TypeOK, Stages
  <2>5. Holding(stage') = (Holding(stage) \cup {h}) \ {s} /\ h \notin Holding(stage)
    BY <1>1, <2>1, <2>3, <2>4 DEF Holding
  <2>6. /\ IsFiniteSet(Holding(stage) \cup {h})
        /\ Cardinality(Holding(stage) \cup {h}) = active + 1
    BY <1>2, <2>5, FS_AddElement
  <2>7. IsFiniteSet(Holding(stage')) /\ Cardinality(Holding(stage')) = active
    <3> DEFINE S == Holding(stage) \cup {h}
    <3>1. active \in Nat /\ s \in S
      BY DEF TypeOK
    <3>2. IsFiniteSet(S) /\ Cardinality(S) = active + 1 /\ Holding(stage') = S \ {s}
      BY <2>5, <2>6
    <3> HIDE DEF S
    <3>3. IsFiniteSet(S \ {s}) /\ Cardinality(S \ {s}) = Cardinality(S) - 1
      BY <3>1, <3>2, FS_RemoveElement
    <3> QED
      BY <3>1, <3>2, <3>3
  <2>8. \A i, j \in DOMAIN waiters' : waiters'[i] = waiters'[j] => i = j
    BY <2>1, <2>2
  <2>9. \A q \in Schedules :
           stage'[q] = "waiting" <=> \E i \in DOMAIN waiters' : waiters'[i] = q
    <3> SUFFICES ASSUME NEW q \in Schedules
                 PROVE  stage'[q] = "waiting" <=> \E i \in DOMAIN waiters' : waiters'[i] = q
      OBVIOUS
    <3>1. CASE q = h
      BY <2>1, <2>2, <2>4, <3>1
    <3>2. CASE q = s
      BY <1>1, <2>1, <2>2, <2>4, <3>2
    <3>3. CASE q # h /\ q # s
      <4>1. stage'[q] = stage[q]
        BY <2>4, <3>3
      <4>2. ASSUME NEW i \in DOMAIN waiters, waiters[i] = q
            PROVE  \E j \in DOMAIN waiters' : waiters'[j] = q
        <5>1. i # 1
          BY <2>1, <3>3, <4>2
        <5>2. i - 1 \in DOMAIN waiters' /\ waiters'[i - 1] = waiters[i]
          BY <2>1, <5>1
        <5> QED
          BY <4>2, <5>2
      <4>3. ASSUME NEW i \in DOMAIN waiters', waiters'[i] = q
            PROVE  \E j \in DOMAIN waiters : waiters[j] = q
        <5>1. i + 1 \in DOMAIN waiters /\ waiters[i + 1] = waiters'[i]
          BY <2>1
        <5> QED
          BY <4>3, <5>1
      <4> QED
        BY <2>2, <4>1, <4>2, <4>3
    <3> QED
      BY <3>1, <3>2, <3>3
  <2>10. PoolExact'
    BY <1>3, <2>2, <2>7, <2>8, <2>9 DEF PoolExact, PoolCountsItsFires
  <2> QED
    BY <1>3, <2>1, <2>3, <2>4, <2>10 DEF TypeOK
<1>4. CASE /\ waiters = <<>> /\ UNCHANGED waiters /\ active' = active - 1
           /\ stage' = [stage EXCEPT ![s] = "out"]
  <2>1. Holding(stage') = Holding(stage) \ {s}
    BY <1>1, <1>4 DEF TypeOK, Holding
  <2>2. IsFiniteSet(Holding(stage')) /\ Cardinality(Holding(stage')) = active'
    <3> DEFINE S == Holding(stage)
    <3>1. s \in S /\ IsFiniteSet(S) /\ Cardinality(S) = active
      BY <1>2
    <3> HIDE DEF S
    <3>2. IsFiniteSet(S \ {s}) /\ Cardinality(S \ {s}) = Cardinality(S) - 1
      BY <3>1, FS_RemoveElement
    <3> QED
      BY <1>4, <2>1, <3>1, <3>2 DEF S
  <2>3. Holding(stage') \in SUBSET Schedules /\ active' \in Nat
    BY <2>2, FS_CardinalityType DEF Holding
  <2>4. /\ stage' \in [Schedules -> Stages] /\ active' \in 0..MaxFires /\ active' <= MaxFires
        /\ \A q \in Schedules : q # s => stage'[q] = stage[q]
        /\ stage'[s] = "out"
    BY <1>1, <1>4, <2>3 DEF TypeOK, Stages
  <2>5. \A q \in Schedules :
           stage'[q] = "waiting" <=> \E i \in DOMAIN waiters' : waiters'[i] = q
    BY <1>1, <1>4, <2>4 DEF PoolExact, PoolCountsItsFires
  <2>6. PoolExact'
    BY <1>4, <2>2, <2>4, <2>5 DEF PoolExact, PoolCountsItsFires
  <2> QED
    BY <1>4, <2>4, <2>6 DEF TypeOK
<1> QED
  BY <1>3, <1>4 DEF LeavePool

\* A fire that has a slot moves on.
LEMMA MovesKeepPool ==
    ASSUME TypeOK, PoolExact, NEW s \in Holding(stage),
           NEW st \in {"granted", "claimed", "firing"},
           stage' = [stage EXCEPT ![s] = st], UNCHANGED <<waiters, active>>
    PROVE  /\ PoolExact'
           /\ stage' \in [Schedules -> Stages]
           /\ stage'[s] = st /\ \A q \in Schedules : q # s => stage'[q] = stage[q]
<1>1. s \in Schedules /\ stage[s] # "waiting"
  BY DEF Holding
<1>2. /\ stage' \in [Schedules -> Stages]
      /\ stage'[s] = st /\ \A q \in Schedules : q # s => stage'[q] = stage[q]
  BY <1>1 DEF TypeOK, Stages
<1>3. Holding(stage') = Holding(stage)
  BY <1>1, <1>2 DEF Holding
<1>4. \A q \in Schedules : stage'[q] = "waiting" <=> stage[q] = "waiting"
  BY <1>1, <1>2
<1> QED
  BY <1>2, <1>3, <1>4 DEF PoolExact, PoolCountsItsFires

\* What a fire that leaves the pool does to the snapshots and the rows.
LEMMA LeaveKeepsRest ==
    ASSUME TypeOK, PoolExact, Snapshots, NEW s \in Holding(stage), LeavePool(s),
           UNCHANGED <<now, next, cron, listed>>
    PROVE  /\ Snapshots' /\ job' \in [Schedules -> Jobs]
           /\ \A q \in Schedules : stage'[q] = "claimed" =>
                 q # s /\ stage[q] = "claimed" /\ job'[q] = job[q]
<1>1. s \in Schedules
  BY DEF Holding
<1>2. /\ job' \in [Schedules -> Jobs] /\ job'[s].door = "none"
      /\ \A q \in Schedules : q # s => job'[q] = job[q]
  <2>1. NoJob \in Jobs /\ NoJob.door = "none"
    BY DEF NoJob, Jobs, Times
  <2>2. job' = [job EXCEPT ![s] = NoJob] /\ job \in [Schedules -> Jobs]
    BY DEF LeavePool, TypeOK
  <2> QED
    BY <1>1, <2>1, <2>2
<1>3. \A q \in Schedules : q # s =>
         stage'[q] = stage[q] \/ (stage[q] = "waiting" /\ stage'[q] = "granted")
  BY LeaveKeepsPool
<1>4. stage'[s] = "out"
  BY LeaveKeepsPool
<1>5. ListedAreDue' /\ JobsAreOfTheirTime'
  BY <1>2 DEF Snapshots, ListedAreDue, JobsAreOfTheirTime
<1>6. SnapshotsCarryTheCron'
  BY <1>2, <1>3, <1>4 DEF Snapshots, SnapshotsCarryTheCron
<1>7. \A q \in Schedules : stage'[q] = "claimed" =>
         q # s /\ stage[q] = "claimed" /\ job'[q] = job[q]
  BY <1>2, <1>3, <1>4
<1> QED
  BY <1>2, <1>5, <1>6, <1>7 DEF Snapshots

\* The rows stay, and what is claimed was claimed before: each due time keeps its fate.
LEMMA FateStays ==
    ASSUME IInv, UNCHANGED <<next, rows>>, now' \in Nat, now <= now',
           \A q \in Schedules :
              stage'[q] = "claimed" => stage[q] = "claimed" /\ job'[q] = job[q]
    PROVE  Fate'
<1>1. RowsArePast'
  <2>1. now \in Nat /\ \A r \in rows : r.at \in Nat
    BY DEF IInv, TypeOK, Times, Rows
  <2> QED
    BY <2>1 DEF IInv, Fate, RowsArePast
<1>2. OneRowPerDueTime' /\ ClaimedHasNoRow'
  BY DEF IInv, Fate, OneRowPerDueTime, ClaimedHasNoRow
<1> QED
  BY <1>1, <1>2 DEF Fate

\* A row of the poll, for the due time that s has claimed.
LEMMA RowAccounts ==
    ASSUME IInv, NEW s \in Schedules, stage[s] = "claimed",
           NEW st \in {"running", "missed"},
           rows' = rows \cup {Row(s, job[s].due, "poll", st)}, UNCHANGED <<now, next>>,
           stage'[s] # "claimed",
           \A q \in Schedules :
              stage'[q] = "claimed" => stage[q] = "claimed" /\ job'[q] = job[q]
    PROVE  Fate' /\ rows' \subseteq Rows
<1> DEFINE new == Row(s, job[s].due, "poll", st)
<1>1. /\ new \in Rows /\ new.schedule = s /\ new.at = job[s].due /\ new.trigger = "poll"
  BY DEF Row, Rows, Jobs, IInv, TypeOK
<1>2. rows' = rows \cup {new} /\ rows \subseteq Rows
  BY DEF IInv, TypeOK
<1>3. /\ job[s].due <= now /\ job[s].due < next[s]
      /\ \A r \in rows : r.schedule = s /\ r.trigger = "poll" => r.at # job[s].due
  <2>1. job[s].due \in Nat /\ job[s].at \in Nat /\ now \in Nat
    BY DEF IInv, TypeOK, Jobs, Times
  <2> QED
    BY <2>1 DEF IInv, Fate, ClaimedHasNoRow, Snapshots, JobsAreOfTheirTime
<1> HIDE DEF new
<1>4. RowsArePast'
  BY <1>1, <1>2, <1>3 DEF IInv, Fate, RowsArePast
<1>5. OneRowPerDueTime'
  BY <1>1, <1>2, <1>3 DEF IInv, Fate, OneRowPerDueTime
<1>6. ClaimedHasNoRow'
  BY <1>1, <1>2 DEF IInv, Fate, ClaimedHasNoRow
<1> QED
  BY <1>1, <1>2, <1>4, <1>5, <1>6 DEF Fate

-----------------------------------------------------------------------------
\* The steps.

LEMMA InitIInv == Init => IInv
<1> SUFFICES ASSUME Init PROVE IInv
  OBVIOUS
<1>1. 0 \in Times /\ \A s \in Schedules : FirstCron[s] \in SUBSET Times
  <2>1. 0 \in Times
    BY DEF Times
  <2>2. \A s \in Schedules : FirstCron[s] \in SUBSET Times
    OBVIOUS
  <2> QED
    BY <2>1, <2>2
<1>2. \A s \in Schedules : /\ NextRun(FirstCron[s], 0) \in Times \cup {Never}
                          /\ NextRun(FirstCron[s], 0) \in FirstCron[s] \cup {Never}
  BY <1>1, NextRunIsLater
<1>3. NoJob \in Jobs /\ NoJob.door = "none"
  BY <1>1 DEF NoJob, Jobs
<1>4. TypeOK
  <2>1. next \in [Schedules -> Times \cup {Never}] /\ cron \in [Schedules -> Crons]
    BY <1>2 DEF Init
  <2>2. waiters \in Seq(Schedules) /\ active \in 0..MaxFires
    BY DEF Init
  <2>3. /\ stage \in [Schedules -> Stages] /\ job \in [Schedules -> Jobs]
        /\ rows \subseteq Rows /\ runs \in [Schedules -> Nat]
    BY <1>3 DEF Init, Stages
  <2> QED
    BY <1>1, <2>1, <2>2, <2>3 DEF Init, TypeOK
<1>5. PoolExact
  <2>1. Holding(stage) = {}
    BY DEF Init, Holding
  <2>2. IsFiniteSet(Holding(stage)) /\ Cardinality(Holding(stage)) = 0
    BY <2>1, FS_EmptySet
  <2>3. active = 0 /\ waiters = <<>> /\ DOMAIN waiters = {} /\ active <= MaxFires
    BY DEF Init
  <2>4. \A s \in Schedules : stage[s] # "waiting"
    BY DEF Init
  <2> QED
    BY <2>2, <2>3, <2>4 DEF PoolExact, PoolCountsItsFires
<1>6. Snapshots
  BY <1>3 DEF Init, Snapshots, ListedAreDue, JobsAreOfTheirTime, SnapshotsCarryTheCron
<1>7. NextIsOfThePresentCron
  BY <1>2 DEF Init, NextIsOfThePresentCron
<1>8. Fate
  BY DEF Init, Fate, RowsArePast, OneRowPerDueTime, ClaimedHasNoRow
<1> QED
  BY <1>4, <1>5, <1>6, <1>7, <1>8 DEF IInv

LEMMA PollKeeps == ASSUME IInv, Poll PROVE IInv'
<1>1. /\ UNCHANGED <<now, up, tableVars, poolVars, rowVars, budgets, history>>
      /\ polled' = TRUE /\ listed' = Due
  BY DEF Poll
<1>2. TypeOK'
  BY <1>1 DEF tableVars, poolVars, rowVars, budgets, history, Due, IInv, TypeOK
<1>3. PoolExact' /\ NextIsOfThePresentCron'
  BY <1>1 DEF tableVars, poolVars, IInv, PoolExact, PoolCountsItsFires, NextIsOfThePresentCron
<1>4. Snapshots'
  BY <1>1 DEF tableVars, poolVars, Due, IInv, Snapshots, ListedAreDue, JobsAreOfTheirTime,
              SnapshotsCarryTheCron
<1>5. Fate'
  BY <1>1 DEF tableVars, poolVars, rowVars, IInv, Fate, RowsArePast, OneRowPerDueTime,
              ClaimedHasNoRow
<1> QED
  BY <1>2, <1>3, <1>4, <1>5 DEF IInv

\* A minute passes, or the process starts.
LEMMA ClockKeeps ==
    ASSUME IInv, now' \in Times, now <= now', up' \in BOOLEAN, polled' \in BOOLEAN,
           UNCHANGED <<tableVars, listed, poolVars, rowVars, budgets, owed, onTime>>
    PROVE  IInv'
<1>1. TypeOK'
  BY DEF tableVars, poolVars, rowVars, budgets, IInv, TypeOK
<1>2. PoolExact' /\ NextIsOfThePresentCron'
  BY DEF tableVars, poolVars, IInv, PoolExact, PoolCountsItsFires, NextIsOfThePresentCron
<1>3. now \in Nat /\ now' \in Nat
  BY DEF IInv, TypeOK, Times
<1>4. Snapshots'
  <2>1. ListedAreDue'
    <3>1. \A s \in Schedules : next[s] \in Nat
      BY DEF IInv, TypeOK, Times, Never
    <3>2. listed \subseteq Schedules
      BY DEF IInv, TypeOK
    <3> QED
      BY <1>3, <3>1, <3>2 DEF tableVars, IInv, Snapshots, ListedAreDue
  <2>2. JobsAreOfTheirTime'
    <3>1. \A s \in Schedules : job[s].at \in Nat
      BY DEF IInv, TypeOK, Jobs, Times
    <3> QED
      BY <1>3, <3>1 DEF poolVars, IInv, Snapshots, JobsAreOfTheirTime
  <2>3. SnapshotsCarryTheCron'
    BY DEF tableVars, poolVars, IInv, Snapshots, SnapshotsCarryTheCron
  <2> QED
    BY <2>1, <2>2, <2>3 DEF Snapshots
<1>5. Fate'
  BY <1>3, FateStays DEF tableVars, poolVars, rowVars
<1> QED
  BY <1>1, <1>2, <1>4, <1>5 DEF IInv

LEMMA TimePasses == ASSUME IInv, Tick \/ TickUnpolled \/ Boot PROVE IInv'
<1>1. now \in Times /\ up \in BOOLEAN /\ polled \in BOOLEAN
  BY DEF IInv, TypeOK
<1>2. Passed => now' \in Times /\ now <= now'
  BY <1>1 DEF Passed, Times
<1>3. now <= now
  BY <1>1 DEF Times
<1> HIDE DEF IInv
<1>4. CASE Tick
  BY <1>1, <1>2, <1>4, ClockKeeps DEF Tick, history
<1>5. CASE TickUnpolled
  BY <1>1, <1>2, <1>5, ClockKeeps DEF TickUnpolled
<1>6. CASE Boot
  BY <1>1, <1>3, <1>6, ClockKeeps DEF Boot
<1> QED
  BY <1>4, <1>5, <1>6

LEMMA AdmitKeeps == ASSUME IInv, NEW s \in Schedules, Admit(s) PROVE IInv'
<1>1. /\ s \in listed /\ listed' = listed \ {s}
      /\ UNCHANGED <<clockVars, tableVars, rowVars, budgets, owed>>
  BY DEF Admit
<1>2. CASE UNCHANGED <<poolVars, onTime>>
  <2>1. TypeOK'
    BY <1>1, <1>2 DEF clockVars, tableVars, poolVars, rowVars, budgets, IInv, TypeOK
  <2>2. PoolExact' /\ NextIsOfThePresentCron'
    BY <1>1, <1>2 DEF tableVars, poolVars, IInv, PoolExact, PoolCountsItsFires,
                      NextIsOfThePresentCron
  <2>3. Snapshots'
    BY <1>1, <1>2 DEF clockVars, tableVars, poolVars, IInv, Snapshots, ListedAreDue,
                      JobsAreOfTheirTime, SnapshotsCarryTheCron
  <2>4. Fate'
    BY <1>1, <1>2 DEF clockVars, tableVars, poolVars, rowVars, IInv, Fate, RowsArePast,
                      OneRowPerDueTime, ClaimedHasNoRow
  <2> QED
    BY <2>1, <2>2, <2>3, <2>4 DEF IInv
<1>3. CASE /\ stage[s] = "out" /\ job' = [job EXCEPT ![s] = Offer(s)] /\ AcquireSlot(s)
           /\ onTime' = IF Overdue(next[s], now) THEN onTime ELSE onTime \cup {<<s, next[s]>>}
  <2>1. /\ next[s] \in Times /\ next[s] <= now /\ now \in Times
        /\ cron[s] \in Crons /\ catchUp[s] \in BOOLEAN
    <3>1. next[s] <= now /\ now \in Times /\ next[s] \in Times \cup {Never}
      BY <1>1 DEF IInv, TypeOK, Snapshots, ListedAreDue
    <3> QED
      BY <3>1 DEF IInv, TypeOK, Times, Never
  <2>2. /\ Offer(s) \in Jobs /\ Offer(s).due = next[s] /\ Offer(s).at = now
        /\ Offer(s).cron = cron[s]
    BY <2>1 DEF Offer, Jobs
  <2>3. /\ job' \in [Schedules -> Jobs] /\ job'[s] = Offer(s)
        /\ \A q \in Schedules : q # s => job'[q] = job[q]
    BY <1>3, <2>2 DEF IInv, TypeOK
  <2>4. /\ PoolExact'
        /\ stage' \in [Schedules -> Stages] /\ waiters' \in Seq(Schedules)
        /\ active' \in 0..MaxFires /\ stage'[s] \in {"granted", "waiting"}
        /\ \A q \in Schedules : q # s => stage'[q] = stage[q]
    BY <1>3, AcquireKeepsPool DEF IInv
  <2>5. onTime' \subseteq Schedules \X Times
    BY <1>3, <2>1 DEF IInv, TypeOK
  <2>6. TypeOK'
    BY <1>1, <2>3, <2>4, <2>5 DEF clockVars, tableVars, rowVars, budgets, IInv, TypeOK
  <2>7. Snapshots'
    <3>1. UNCHANGED <<now, next, cron>>
      BY <1>1 DEF clockVars, tableVars
    <3>2. ListedAreDue'
      BY <1>1, <3>1 DEF IInv, Snapshots, ListedAreDue
    <3>3. JobsAreOfTheirTime'
      <4>1. now <= now
        BY <2>1 DEF Times
      <4> QED
        BY <2>1, <2>2, <2>3, <3>1, <4>1 DEF IInv, Snapshots, JobsAreOfTheirTime
    <3>4. SnapshotsCarryTheCron'
      BY <2>2, <2>3, <2>4, <3>1 DEF IInv, Snapshots, SnapshotsCarryTheCron
    <3> QED
      BY <3>2, <3>3, <3>4 DEF Snapshots
  <2>8. Fate'
    <3>1. UNCHANGED <<next, rows, now>> /\ now <= now' /\ now' \in Nat
      BY <1>1, <2>1 DEF clockVars, tableVars, rowVars, Times
    <3>2. \A q \in Schedules :
             stage'[q] = "claimed" => stage[q] = "claimed" /\ job'[q] = job[q]
      BY <2>3, <2>4
    <3> QED
      BY <3>1, <3>2, FateStays
  <2>9. NextIsOfThePresentCron'
    BY <1>1 DEF tableVars, IInv, NextIsOfThePresentCron
  <2> QED
    BY <2>4, <2>6, <2>7, <2>8, <2>9 DEF IInv
<1> QED
  BY <1>2, <1>3 DEF Admit

\* A fire that holds a slot gives it up, and nothing else that matters moves.
LEMMA LeaveKeeps ==
    ASSUME IInv, NEW s \in Holding(stage), LeavePool(s),
           UNCHANGED <<clockVars, tableVars, listed, budgets>>,
           rows' \subseteq Rows, runs' \in [Schedules -> Nat],
           owed' \subseteq Schedules \X Times, onTime' \subseteq Schedules \X Times, Fate'
    PROVE  IInv'
<1>1. /\ PoolExact'
      /\ stage' \in [Schedules -> Stages] /\ waiters' \in Seq(Schedules)
      /\ active' \in 0..MaxFires
  BY LeaveKeepsPool DEF IInv
<1>2. Snapshots' /\ job' \in [Schedules -> Jobs]
  BY LeaveKeepsRest DEF clockVars, tableVars, IInv
<1>3. TypeOK'
  BY <1>1, <1>2 DEF clockVars, tableVars, budgets, IInv, TypeOK
<1>4. NextIsOfThePresentCron'
  BY DEF tableVars, IInv, NextIsOfThePresentCron
<1> QED
  BY <1>1, <1>2, <1>3, <1>4 DEF IInv

\* A claim that holds: the due time is taken off the schedule.
LEMMA ClaimHoldsKeeps ==
    ASSUME IInv, NEW s \in Schedules, stage[s] = "granted", job[s].door = "poll", Quiet,
           StillDue(s), next' = [next EXCEPT ![s] = NextAfterClaim(s)],
           owed' = owed \cup {<<s, job[s].due>>},
           stage' = [stage EXCEPT ![s] = "claimed"], UNCHANGED <<waiters, active, job>>,
           UNCHANGED <<clockVars, enabled, catchUp, cron, gone, listed, rowVars, budgets, onTime>>
    PROVE  IInv'
<1>1. /\ job[s] \in Jobs /\ next[s] = job[s].due /\ job[s].due \in Times
      /\ job[s].at \in Times /\ job[s].due <= job[s].at
      /\ cron[s] \in Crons /\ job[s].cron = cron[s] /\ cron[s] \in SUBSET Times
  <2>1. job[s] \in Jobs /\ next[s] = job[s].due /\ cron[s] \in Crons
    BY DEF IInv, TypeOK, StillDue
  <2>2. job[s].cron = cron[s] /\ job[s].due <= job[s].at
    BY <2>1 DEF IInv, Snapshots, SnapshotsCarryTheCron, JobsAreOfTheirTime
  <2> QED
    BY <2>1, <2>2 DEF Jobs
<1>2. /\ NextAfterClaim(s) \in cron[s] \cup {Never}
      /\ NextAfterClaim(s) \in Times \cup {Never}
      /\ job[s].due < NextAfterClaim(s)
  <2>1. job[s].due < Never
    BY <1>1 DEF Times, Never
  <2>2. CASE s \in OneTime
    BY <2>1, <2>2 DEF NextAfterClaim
  <2>3. CASE s \notin OneTime
    <3>1. NextAfterClaim(s) = NextRun(cron[s], job[s].at)
      BY <1>1, <2>3 DEF NextAfterClaim
    <3>2. /\ NextRun(cron[s], job[s].at) \in cron[s] \cup {Never}
          /\ NextRun(cron[s], job[s].at) \in Times \cup {Never}
          /\ job[s].at < NextRun(cron[s], job[s].at)
      BY <1>1, NextRunIsLater
    <3>3. job[s].due < NextRun(cron[s], job[s].at)
      <4>1. job[s].due \in Nat /\ job[s].at \in Nat
        BY <1>1 DEF Times
      <4>2. NextRun(cron[s], job[s].at) \in Nat
        BY <3>2 DEF Times, Never
      <4> QED
        BY <1>1, <3>2, <4>1, <4>2
    <3> QED
      BY <3>1, <3>2, <3>3
  <2> QED
    BY <2>2, <2>3
<1>3. /\ next' \in [Schedules -> Times \cup {Never}] /\ next'[s] = NextAfterClaim(s)
      /\ \A q \in Schedules : q # s => next'[q] = next[q]
  BY <1>2 DEF IInv, TypeOK
<1>4. s \in Holding(stage)
  BY DEF Holding
<1>5. /\ PoolExact' /\ stage' \in [Schedules -> Stages] /\ stage'[s] = "claimed"
      /\ \A q \in Schedules : q # s => stage'[q] = stage[q]
  BY <1>4, MovesKeepPool DEF IInv
<1>6. TypeOK'
  <2>1. owed' \subseteq Schedules \X Times
    BY <1>1 DEF IInv, TypeOK
  <2> QED
    BY <1>3, <1>5, <2>1 DEF clockVars, rowVars, budgets, IInv, TypeOK
<1>7. NextIsOfThePresentCron'
  BY <1>2, <1>3 DEF IInv, NextIsOfThePresentCron
<1>8. Snapshots'
  <2>1. ListedAreDue'
    BY DEF Quiet, ListedAreDue
  <2>2. JobsAreOfTheirTime'
    BY DEF clockVars, IInv, Snapshots, JobsAreOfTheirTime
  <2>3. SnapshotsCarryTheCron'
    BY <1>3, <1>5 DEF IInv, Snapshots, SnapshotsCarryTheCron
  <2> QED
    BY <2>1, <2>2, <2>3 DEF Snapshots
<1>9. Fate'
  <2>1. \A r \in rows : /\ r.schedule \in Schedules /\ r.at \in Nat
    BY DEF IInv, TypeOK, Rows, Times
  <2>2. /\ next[s] \in Nat /\ next'[s] \in Nat /\ next[s] < next'[s]
    BY <1>1, <1>2, <1>3 DEF Times, Never
  <2>3. RowsArePast'
    <3> SUFFICES ASSUME NEW r \in rows, r.trigger = "poll"
                 PROVE  r.at <= now /\ r.at < next'[r.schedule]
      BY DEF RowsArePast, clockVars, rowVars
    <3>1. r.at <= now /\ r.at < next[r.schedule]
      BY DEF IInv, Fate, RowsArePast
    <3>2. CASE r.schedule = s
      BY <2>1, <2>2, <3>1, <3>2
    <3>3. CASE r.schedule # s
      BY <1>3, <2>1, <3>1, <3>3
    <3> QED
      BY <3>2, <3>3
  <2>4. OneRowPerDueTime'
    BY DEF rowVars, IInv, Fate, OneRowPerDueTime
  <2>5. ClaimedHasNoRow'
    <3> SUFFICES ASSUME NEW q \in Schedules, stage'[q] = "claimed"
                 PROVE  /\ job[q].door = "poll" /\ job[q].due < next'[q]
                        /\ \A r \in rows :
                              r.schedule = q /\ r.trigger = "poll" => r.at # job[q].due
      BY DEF ClaimedHasNoRow, rowVars
    <3>1. q = s
      BY <1>5 DEF Quiet
    <3>2. \A r \in rows : r.schedule = s /\ r.trigger = "poll" => r.at < next[s]
      BY DEF IInv, Fate, RowsArePast
    <3> QED
      BY <1>1, <1>2, <1>3, <2>1, <2>2, <3>1, <3>2
  <2> QED
    BY <2>3, <2>4, <2>5 DEF Fate
<1> QED
  BY <1>5, <1>6, <1>7, <1>8, <1>9 DEF IInv

LEMMA ClaimKeeps == ASSUME IInv, NEW s \in Schedules, Claim(s) PROVE IInv'
<1>1. CASE /\ StillDue(s) /\ next' = [next EXCEPT ![s] = NextAfterClaim(s)]
           /\ owed' = owed \cup {<<s, job[s].due>>}
           /\ stage' = [stage EXCEPT ![s] = "claimed"] /\ UNCHANGED <<waiters, active, job>>
  <2> HIDE DEF IInv
  <2> QED
    BY <1>1, ClaimHoldsKeeps DEF Claim
<1>2. CASE LeavePool(s) /\ UNCHANGED <<next, owed>>
  <2>1. s \in Holding(stage)
    BY DEF Claim, Holding
  <2>2. UNCHANGED <<clockVars, enabled, catchUp, cron, gone, listed, rowVars, budgets, onTime>>
    BY DEF Claim
  <2>3. now \in Nat /\ now <= now
    BY DEF IInv, TypeOK, Times
  <2>4. \A q \in Schedules :
           stage'[q] = "claimed" => stage[q] = "claimed" /\ job'[q] = job[q]
    BY <1>2, <2>1, <2>2, LeaveKeepsRest DEF clockVars, IInv
  <2>5. Fate'
    BY <1>2, <2>2, <2>3, <2>4, FateStays DEF clockVars, rowVars
  <2>6. /\ rows' \subseteq Rows /\ runs' \in [Schedules -> Nat]
        /\ owed' \subseteq Schedules \X Times /\ onTime' \subseteq Schedules \X Times
    BY <1>2, <2>2 DEF rowVars, IInv, TypeOK
  <2> HIDE DEF IInv
  <2> QED
    BY <1>2, <2>1, <2>2, <2>5, <2>6, LeaveKeeps DEF tableVars
<1> QED
  BY <1>1, <1>2 DEF Claim

LEMMA RecordMissedKeeps == ASSUME IInv, NEW s \in Schedules, RecordMissed(s) PROVE IInv'
<1>1. /\ stage[s] = "claimed" /\ LeavePool(s)
      /\ rows' = rows \cup {Row(s, job[s].due, "poll", "missed")}
      /\ runs' = [runs EXCEPT ![s] = @ + 1]
      /\ owed' = owed \ {<<s, job[s].due>>}
      /\ UNCHANGED <<clockVars, tableVars, listed, budgets, onTime>>
  BY DEF RecordMissed
<1>2. s \in Holding(stage)
  BY <1>1 DEF Holding
<1>3. \A q \in Schedules :
         stage'[q] = "claimed" => q # s /\ stage[q] = "claimed" /\ job'[q] = job[q]
  BY <1>1, <1>2, LeaveKeepsRest DEF clockVars, tableVars, IInv
<1>4. Fate' /\ rows' \subseteq Rows
  BY <1>1, <1>3, RowAccounts DEF clockVars, tableVars
<1>5. /\ runs' \in [Schedules -> Nat] /\ owed' \subseteq Schedules \X Times
      /\ onTime' \subseteq Schedules \X Times
  BY <1>1 DEF IInv, TypeOK
<1> HIDE DEF IInv
<1> QED
  BY <1>1, <1>2, <1>4, <1>5, LeaveKeeps

\* A fire whose row is written starts its turn.
LEMMA StartKeeps ==
    ASSUME IInv, NEW s \in Holding(stage), stage' = [stage EXCEPT ![s] = "firing"],
           job' = [job EXCEPT ![s].run = runs[s] + 1], UNCHANGED <<waiters, active>>,
           UNCHANGED <<clockVars, tableVars, listed, budgets>>,
           rows' \subseteq Rows, runs' \in [Schedules -> Nat],
           owed' \subseteq Schedules \X Times, onTime' \subseteq Schedules \X Times, Fate'
    PROVE  IInv'
<1>1. s \in Schedules
  BY DEF Holding
<1>2. /\ PoolExact' /\ stage' \in [Schedules -> Stages] /\ stage'[s] = "firing"
      /\ \A q \in Schedules : q # s => stage'[q] = stage[q]
  BY MovesKeepPool DEF IInv
<1>3. /\ job' \in [Schedules -> Jobs] /\ \A q \in Schedules : q # s => job'[q] = job[q]
      /\ job'[s].door = job[s].door /\ job'[s].due = job[s].due /\ job'[s].at = job[s].at
  <2>1. job[s] \in Jobs /\ runs[s] + 1 \in Nat
    BY <1>1 DEF IInv, TypeOK
  <2>2. job' = [job EXCEPT ![s] = [job[s] EXCEPT !.run = runs[s] + 1]]
    BY <1>1 DEF IInv, TypeOK
  <2>3. [job[s] EXCEPT !.run = runs[s] + 1] \in Jobs
    BY <2>1 DEF Jobs
  <2> QED
    BY <1>1, <2>1, <2>2, <2>3 DEF IInv, TypeOK, Jobs
<1>4. TypeOK'
  BY <1>2, <1>3 DEF clockVars, tableVars, budgets, IInv, TypeOK
<1>5. NextIsOfThePresentCron'
  BY DEF tableVars, IInv, NextIsOfThePresentCron
<1>6. Snapshots'
  <2>1. ListedAreDue'
    BY DEF clockVars, tableVars, IInv, Snapshots, ListedAreDue
  <2>2. JobsAreOfTheirTime'
    BY <1>3 DEF clockVars, IInv, Snapshots, JobsAreOfTheirTime
  <2>3. SnapshotsCarryTheCron'
    BY <1>2, <1>3 DEF tableVars, IInv, Snapshots, SnapshotsCarryTheCron
  <2> QED
    BY <2>1, <2>2, <2>3 DEF Snapshots
<1> QED
  BY <1>2, <1>4, <1>5, <1>6 DEF IInv

LEMMA FireDueKeeps == ASSUME IInv, NEW s \in Schedules, FireDue(s) PROVE IInv'
<1>1. /\ stage[s] = "claimed" /\ owed' = owed \ {<<s, job[s].due>>}
      /\ onTime' = onTime \ {<<s, job[s].due>>}
      /\ UNCHANGED <<clockVars, tableVars, listed, budgets>>
  BY DEF FireDue
<1>2. s \in Holding(stage)
  BY <1>1 DEF Holding
<1>3. owed' \subseteq Schedules \X Times /\ onTime' \subseteq Schedules \X Times
  BY <1>1 DEF IInv, TypeOK
<1>4. CASE /\ rows' = rows \cup {Row(s, job[s].due, "poll", "running")}
           /\ runs' = [runs EXCEPT ![s] = @ + 1]
           /\ stage' = [stage EXCEPT ![s] = "firing"]
           /\ job' = [job EXCEPT ![s].run = runs[s] + 1]
           /\ UNCHANGED <<waiters, active>>
  <2>1. runs' \in [Schedules -> Nat]
    BY <1>4 DEF IInv, TypeOK
  <2>2. stage'[s] = "firing" /\ \A q \in Schedules : q # s => stage'[q] = stage[q]
    BY <1>4 DEF IInv, TypeOK
  <2>3. \A q \in Schedules : q # s => job'[q] = job[q]
    BY <1>4 DEF IInv, TypeOK
  <2>4. Fate' /\ rows' \subseteq Rows
    BY <1>1, <1>4, <2>2, <2>3, RowAccounts DEF clockVars, tableVars
  <2> HIDE DEF IInv
  <2> QED
    BY <1>1, <1>2, <1>3, <1>4, <2>1, <2>4, StartKeeps
<1>5. CASE LeavePool(s) /\ UNCHANGED rowVars
  <2>1. now \in Nat /\ now <= now
    BY DEF IInv, TypeOK, Times
  <2>2. \A q \in Schedules :
           stage'[q] = "claimed" => stage[q] = "claimed" /\ job'[q] = job[q]
    BY <1>1, <1>2, <1>5, LeaveKeepsRest DEF clockVars, tableVars, IInv
  <2>3. Fate'
    BY <1>1, <1>5, <2>1, <2>2, FateStays DEF clockVars, tableVars, rowVars
  <2>4. rows' \subseteq Rows /\ runs' \in [Schedules -> Nat]
    BY <1>5 DEF rowVars, IInv, TypeOK
  <2> HIDE DEF IInv
  <2> QED
    BY <1>1, <1>2, <1>3, <1>5, <2>3, <2>4, LeaveKeeps
<1> QED
  BY <1>4, <1>5 DEF FireDue, FireSchedule

\* A manual row changes no due time's fate.
LEMMA ManualRowKeepsFate ==
    ASSUME IInv, NEW s \in Schedules, NEW at \in Times,
           rows' = rows \cup {Row(s, at, "manual", "running")}, UNCHANGED <<now, next>>,
           \A q \in Schedules :
              stage'[q] = "claimed" => stage[q] = "claimed" /\ job'[q] = job[q]
    PROVE  Fate' /\ rows' \subseteq Rows
<1> DEFINE new == Row(s, at, "manual", "running")
<1>1. new \in Rows /\ new.trigger = "manual"
  BY DEF Row, Rows, IInv, TypeOK
<1>2. rows' = rows \cup {new} /\ rows \subseteq Rows
  BY DEF IInv, TypeOK
<1> HIDE DEF new
<1> QED
  BY <1>1, <1>2 DEF IInv, Fate, RowsArePast, OneRowPerDueTime, ClaimedHasNoRow

LEMMA StartManualKeeps == ASSUME IInv, NEW s \in Schedules, StartManual(s) PROVE IInv'
<1>1. /\ stage[s] = "granted"
      /\ UNCHANGED <<clockVars, tableVars, listed, budgets, history>>
  BY DEF StartManual
<1>2. s \in Holding(stage)
  BY <1>1 DEF Holding
<1>3. owed' \subseteq Schedules \X Times /\ onTime' \subseteq Schedules \X Times
  BY <1>1 DEF history, IInv, TypeOK
<1>4. CASE /\ rows' = rows \cup {Row(s, job[s].at, "manual", "running")}
           /\ runs' = [runs EXCEPT ![s] = @ + 1]
           /\ stage' = [stage EXCEPT ![s] = "firing"]
           /\ job' = [job EXCEPT ![s].run = runs[s] + 1]
           /\ UNCHANGED <<waiters, active>>
  <2>1. runs' \in [Schedules -> Nat]
    BY <1>4 DEF IInv, TypeOK
  <2>2. \A q \in Schedules :
           stage'[q] = "claimed" => stage[q] = "claimed" /\ job'[q] = job[q]
    BY <1>4 DEF IInv, TypeOK
  <2>3. job[s].at \in Times
    BY DEF IInv, TypeOK, Jobs
  <2>4. Fate' /\ rows' \subseteq Rows
    BY <1>1, <1>4, <2>2, <2>3, ManualRowKeepsFate DEF clockVars, tableVars
  <2> HIDE DEF IInv
  <2> QED
    BY <1>1, <1>2, <1>3, <1>4, <2>1, <2>4, StartKeeps DEF history
<1>5. CASE LeavePool(s) /\ UNCHANGED rowVars
  <2>1. now \in Nat /\ now <= now
    BY DEF IInv, TypeOK, Times
  <2>2. \A q \in Schedules :
           stage'[q] = "claimed" => stage[q] = "claimed" /\ job'[q] = job[q]
    BY <1>1, <1>2, <1>5, LeaveKeepsRest DEF clockVars, tableVars, IInv
  <2>3. Fate'
    BY <1>1, <1>5, <2>1, <2>2, FateStays DEF clockVars, tableVars, rowVars
  <2>4. rows' \subseteq Rows /\ runs' \in [Schedules -> Nat]
    BY <1>5 DEF rowVars, IInv, TypeOK
  <2> HIDE DEF IInv
  <2> QED
    BY <1>1, <1>2, <1>3, <1>5, <2>3, <2>4, LeaveKeeps DEF history
<1> QED
  BY <1>4, <1>5 DEF StartManual, FireSchedule

LEMMA EndFireKeeps == ASSUME IInv, NEW s \in Schedules, EndFire(s) PROVE IInv'
<1>1. /\ stage[s] = "firing" /\ rows' = Ended(s) /\ LeavePool(s) /\ Quiet
      /\ UNCHANGED <<clockVars, tableVars, listed, runs, budgets, history>>
  BY DEF EndFire
<1>2. s \in Holding(stage)
  BY <1>1 DEF Holding
<1>3. rows' \subseteq Rows
  <2> SUFFICES ASSUME NEW r \in Ended(s) PROVE r \in Rows
    BY <1>1
  <2>1. PICK q \in rows :
           r = IF q.schedule = s /\ q.id = job[s].run THEN [q EXCEPT !.status = "ended"] ELSE q
    BY DEF Ended
  <2>2. q \in Rows
    BY DEF IInv, TypeOK
  <2>3. [q EXCEPT !.status = "ended"] \in Rows
    BY <2>2 DEF Rows
  <2> QED
    BY <2>1, <2>2, <2>3
<1>4. \A r \in rows' : \E q \in rows :
         /\ r.schedule = q.schedule /\ r.at = q.at /\ r.trigger = q.trigger
         /\ r = IF q.schedule = s /\ q.id = job[s].run THEN [q EXCEPT !.status = "ended"] ELSE q
  <2>1. rows \subseteq Rows
    BY DEF IInv, TypeOK
  <2> QED
    BY <1>1, <2>1 DEF Ended, Rows
<1>5. \A q \in Schedules : stage'[q] # "claimed"
  BY <1>1, <1>2, LeaveKeepsRest DEF clockVars, tableVars, IInv, Quiet
<1>6. Fate'
  <2>1. RowsArePast'
    BY <1>1, <1>4 DEF clockVars, tableVars, IInv, Fate, RowsArePast
  <2>2. OneRowPerDueTime'
    BY <1>4 DEF IInv, Fate, OneRowPerDueTime
  <2>3. ClaimedHasNoRow'
    BY <1>5 DEF ClaimedHasNoRow
  <2> QED
    BY <2>1, <2>2, <2>3 DEF Fate
<1>7. /\ runs' \in [Schedules -> Nat]
      /\ owed' \subseteq Schedules \X Times /\ onTime' \subseteq Schedules \X Times
  BY <1>1 DEF history, IInv, TypeOK
<1> HIDE DEF IInv
<1> QED
  BY <1>1, <1>2, <1>3, <1>6, <1>7, LeaveKeeps DEF history

LEMMA RunNowKeeps == ASSUME IInv, NEW s \in Schedules, RunNow(s) PROVE IInv'
<1>1. /\ stage[s] = "out" /\ AcquireSlot(s) /\ job' = [job EXCEPT ![s] = ByHand]
      /\ requests' = requests + 1
      /\ UNCHANGED <<clockVars, tableVars, listed, rowVars, crashes, history>>
  BY DEF RunNow
<1>2. ByHand \in Jobs /\ ByHand.door = "manual"
  BY DEF ByHand, Jobs, IInv, TypeOK, Times
<1>3. /\ job' \in [Schedules -> Jobs] /\ job'[s] = ByHand
      /\ \A q \in Schedules : q # s => job'[q] = job[q]
  BY <1>1, <1>2 DEF IInv, TypeOK
<1>4. /\ PoolExact'
      /\ stage' \in [Schedules -> Stages] /\ waiters' \in Seq(Schedules)
      /\ active' \in 0..MaxFires /\ stage'[s] \in {"granted", "waiting"}
      /\ \A q \in Schedules : q # s => stage'[q] = stage[q]
  BY <1>1, AcquireKeepsPool DEF IInv
<1>5. TypeOK'
  BY <1>1, <1>3, <1>4 DEF clockVars, tableVars, rowVars, history, IInv, TypeOK
<1>6. NextIsOfThePresentCron'
  BY <1>1 DEF tableVars, IInv, NextIsOfThePresentCron
<1>7. Snapshots'
  <2>1. ListedAreDue'
    BY <1>1 DEF clockVars, tableVars, IInv, Snapshots, ListedAreDue
  <2>2. JobsAreOfTheirTime'
    BY <1>1, <1>2, <1>3 DEF clockVars, IInv, Snapshots, JobsAreOfTheirTime
  <2>3. SnapshotsCarryTheCron'
    BY <1>1, <1>2, <1>3, <1>4 DEF tableVars, IInv, Snapshots, SnapshotsCarryTheCron
  <2> QED
    BY <2>1, <2>2, <2>3 DEF Snapshots
<1>8. Fate'
  <2>1. \A q \in Schedules :
           stage'[q] = "claimed" => stage[q] = "claimed" /\ job'[q] = job[q]
    BY <1>3, <1>4
  <2>2. UNCHANGED <<next, rows, now>> /\ now \in Nat /\ now <= now
    BY <1>1 DEF clockVars, tableVars, rowVars, IInv, TypeOK, Times
  <2> QED
    BY <2>1, <2>2, FateStays
<1> QED
  BY <1>4, <1>5, <1>6, <1>7, <1>8 DEF IInv

\* An edit that leaves the next time and the cron alone.
LEMMA FlagsKeep ==
    ASSUME IInv, Edit, enabled' \in [Schedules -> BOOLEAN],
           catchUp' \in [Schedules -> BOOLEAN], UNCHANGED <<next, cron, gone, rows>>
    PROVE  IInv'
<1>1. UNCHANGED <<clockVars, listed, poolVars, runs, crashes, history>> /\ requests' = requests + 1
  BY DEF Edit
<1>2. TypeOK'
  BY <1>1 DEF clockVars, poolVars, history, IInv, TypeOK
<1>3. PoolExact' /\ NextIsOfThePresentCron'
  BY <1>1 DEF poolVars, IInv, PoolExact, PoolCountsItsFires, NextIsOfThePresentCron
<1>4. Snapshots'
  BY <1>1 DEF clockVars, poolVars, IInv, Snapshots, ListedAreDue, JobsAreOfTheirTime,
              SnapshotsCarryTheCron
<1>5. Fate'
  BY <1>1 DEF clockVars, poolVars, IInv, Fate, RowsArePast, OneRowPerDueTime, ClaimedHasNoRow
<1> QED
  BY <1>2, <1>3, <1>4, <1>5 DEF IInv

\* An edit that moves the next time of s past the present, and keeps some rows.
LEMMA MovedKeeps ==
    ASSUME IInv, NEW s \in Schedules, Edit,
           NEW c \in Crons, NEW t \in Times \cup {Never}, t \in c \cup {Never}, now < t,
           next' = [next EXCEPT ![s] = t], cron' = [cron EXCEPT ![s] = c],
           enabled' \in [Schedules -> BOOLEAN], gone' \subseteq Schedules,
           rows' \subseteq rows, UNCHANGED catchUp
    PROVE  IInv'
<1>1. /\ UNCHANGED <<clockVars, listed, poolVars, runs, crashes, history>> /\ Quiet
      /\ requests' = requests + 1
  BY DEF Edit
<1>2. /\ next' \in [Schedules -> Times \cup {Never}] /\ cron' \in [Schedules -> Crons]
      /\ next'[s] = t /\ cron'[s] = c
      /\ \A q \in Schedules : q # s => next'[q] = next[q] /\ cron'[q] = cron[q]
  BY DEF IInv, TypeOK
<1>3. TypeOK'
  BY <1>1, <1>2 DEF clockVars, poolVars, history, IInv, TypeOK
<1>4. PoolExact'
  BY <1>1 DEF poolVars, IInv, PoolExact, PoolCountsItsFires
<1>5. NextIsOfThePresentCron'
  BY <1>2 DEF IInv, NextIsOfThePresentCron
<1>6. now \in Nat /\ t \in Nat /\ \A q \in Schedules : job[q].due \in Nat /\ job[q].at \in Nat
  BY DEF IInv, TypeOK, Jobs, Times, Never
<1>7. Snapshots'
  <2>1. ListedAreDue'
    BY <1>1 DEF Quiet, ListedAreDue
  <2>2. JobsAreOfTheirTime'
    BY <1>1 DEF clockVars, poolVars, IInv, Snapshots, JobsAreOfTheirTime
  <2>3. job[s].door = "poll" => job[s].due # t
    BY <1>6 DEF IInv, Snapshots, JobsAreOfTheirTime
  <2>4. SnapshotsCarryTheCron'
    <3> SUFFICES ASSUME NEW q \in Schedules, stage[q] \in {"waiting", "granted"},
                        job[q].door = "poll", next'[q] = job[q].due
                 PROVE  cron'[q] = job[q].cron
      BY <1>1 DEF poolVars, SnapshotsCarryTheCron
    <3>1. q # s
      BY <1>2, <2>3
    <3> QED
      BY <1>2, <3>1 DEF IInv, Snapshots, SnapshotsCarryTheCron
  <2> QED
    BY <2>1, <2>2, <2>4 DEF Snapshots
<1>8. Fate'
  <2>1. \A r \in rows : r.schedule \in Schedules /\ r.at \in Nat
    BY DEF IInv, TypeOK, Rows, Times
  <2>2. RowsArePast'
    <3> SUFFICES ASSUME NEW r \in rows, r.trigger = "poll"
                 PROVE  r.at <= now /\ r.at < next'[r.schedule]
      BY <1>1 DEF RowsArePast, clockVars
    <3>1. r.at <= now /\ r.at < next[r.schedule]
      BY DEF IInv, Fate, RowsArePast
    <3>2. CASE r.schedule = s
      BY <1>2, <1>6, <2>1, <3>1, <3>2
    <3>3. CASE r.schedule # s
      BY <1>2, <2>1, <3>1, <3>3
    <3> QED
      BY <3>2, <3>3
  <2>3. OneRowPerDueTime'
    BY DEF IInv, Fate, OneRowPerDueTime
  <2>4. ClaimedHasNoRow'
    BY <1>1 DEF poolVars, Quiet, ClaimedHasNoRow
  <2> QED
    BY <2>2, <2>3, <2>4 DEF Fate
<1> QED
  BY <1>3, <1>4, <1>5, <1>7, <1>8 DEF IInv

LEMMA EditsKeep ==
    ASSUME IInv, NEW s \in Schedules,
           \/ SetScheduleEnabled(s) \/ SetCatchUp(s) \/ DeleteSchedule(s)
           \/ \E c \in Crons : SetCron(s, c)
    PROVE  IInv'
<1>1. CASE SetScheduleEnabled(s)
  <2>1. enabled' \in [Schedules -> BOOLEAN] /\ catchUp' \in [Schedules -> BOOLEAN]
    BY <1>1, Zenon DEF SetScheduleEnabled, IInv, TypeOK
  <2> HIDE DEF IInv
  <2> QED
    BY <1>1, <2>1, FlagsKeep DEF SetScheduleEnabled
<1>2. CASE SetCatchUp(s)
  <2>1. enabled' \in [Schedules -> BOOLEAN] /\ catchUp' \in [Schedules -> BOOLEAN]
    BY <1>2, Zenon DEF SetCatchUp, IInv, TypeOK
  <2> HIDE DEF IInv
  <2> QED
    BY <1>2, <2>1, FlagsKeep DEF SetCatchUp
<1>3. now \in Times /\ now < Never /\ Never \in Times \cup {Never}
  BY DEF IInv, TypeOK, Times, Never
<1>4. CASE DeleteSchedule(s)
  <2>1. /\ Edit /\ next' = [next EXCEPT ![s] = Never] /\ UNCHANGED <<catchUp, cron>>
        /\ rows' \subseteq rows
        /\ enabled' = [enabled EXCEPT ![s] = FALSE] /\ gone' = gone \cup {s}
    BY <1>4 DEF DeleteSchedule
  <2>2. cron[s] \in Crons /\ cron' = [cron EXCEPT ![s] = cron[s]]
    BY <2>1 DEF IInv, TypeOK
  <2>3. enabled' \in [Schedules -> BOOLEAN] /\ gone' \subseteq Schedules
    BY <2>1 DEF IInv, TypeOK
  <2> HIDE DEF IInv
  <2> QED
    BY <1>3, <2>1, <2>2, <2>3, MovedKeeps
<1>5. ASSUME NEW c \in Crons, SetCron(s, c) PROVE IInv'
  <2>1. /\ Edit /\ next' = [next EXCEPT ![s] = NextRun(c, now)]
        /\ cron' = [cron EXCEPT ![s] = c] /\ UNCHANGED <<enabled, catchUp, gone, rows>>
    BY <1>5 DEF SetCron
  <2>2. /\ NextRun(c, now) \in c \cup {Never} /\ NextRun(c, now) \in Times \cup {Never}
        /\ now < NextRun(c, now)
    BY <1>3, NextRunIsLater
  <2>3. enabled' \in [Schedules -> BOOLEAN] /\ gone' \subseteq Schedules /\ rows' \subseteq rows
    BY <2>1 DEF IInv, TypeOK
  <2> HIDE DEF IInv
  <2> QED
    BY <2>1, <2>2, <2>3, MovedKeeps
<1> QED
  BY <1>1, <1>2, <1>4, <1>5

LEMMA CrashKeeps == ASSUME IInv, Crash PROVE IInv'
<1>1. /\ listed' = {} /\ stage' = [s \in Schedules |-> "out"]
      /\ waiters' = <<>> /\ active' = 0 /\ job' = [s \in Schedules |-> NoJob]
      /\ onTime' = {} /\ up' = FALSE /\ crashes' = crashes + 1
      /\ UNCHANGED <<now, polled, tableVars, rowVars, requests, owed>>
  BY DEF Crash
<1>2. NoJob \in Jobs /\ NoJob.door = "none"
  BY DEF NoJob, Jobs, Times
<1>3. TypeOK'
  <2>1. /\ stage' \in [Schedules -> Stages] /\ job' \in [Schedules -> Jobs]
        /\ waiters' \in Seq(Schedules) /\ active' \in 0..MaxFires
    BY <1>1, <1>2 DEF Stages
  <2>2. crashes' \in Nat /\ listed' \subseteq Schedules /\ onTime' \subseteq Schedules \X Times
    BY <1>1 DEF IInv, TypeOK
  <2>3. up' \in BOOLEAN /\ polled' \in BOOLEAN
    BY <1>1 DEF IInv, TypeOK
  <2> QED
    BY <1>1, <2>1, <2>2, <2>3 DEF tableVars, rowVars, IInv, TypeOK
<1>4. PoolExact'
  <2>1. Holding(stage') = {}
    BY <1>1 DEF Holding
  <2>2. IsFiniteSet(Holding(stage')) /\ Cardinality(Holding(stage')) = 0
    BY <2>1, FS_EmptySet
  <2>3. active' = 0 /\ waiters' = <<>> /\ DOMAIN waiters' = {} /\ active' <= MaxFires
    BY <1>1
  <2>4. \A s \in Schedules : stage'[s] # "waiting"
    BY <1>1
  <2> QED
    BY <2>2, <2>3, <2>4 DEF PoolExact, PoolCountsItsFires
<1>5. Snapshots'
  BY <1>1, <1>2 DEF Snapshots, ListedAreDue, JobsAreOfTheirTime, SnapshotsCarryTheCron
<1>6. NextIsOfThePresentCron'
  BY <1>1 DEF tableVars, IInv, NextIsOfThePresentCron
<1>7. Fate'
  BY <1>1 DEF tableVars, rowVars, IInv, Fate, RowsArePast, OneRowPerDueTime, ClaimedHasNoRow
<1> QED
  BY <1>3, <1>4, <1>5, <1>6, <1>7 DEF IInv

LEMMA StutterKeeps == ASSUME IInv, UNCHANGED vars PROVE IInv'
<1>1. TypeOK'
  BY DEF vars, clockVars, tableVars, poolVars, rowVars, budgets, history, IInv, TypeOK
<1>2. PoolExact' /\ NextIsOfThePresentCron'
  BY DEF vars, tableVars, poolVars, IInv, PoolExact, PoolCountsItsFires,
         NextIsOfThePresentCron
<1>3. Snapshots'
  BY DEF vars, clockVars, tableVars, poolVars, IInv, Snapshots, ListedAreDue,
         JobsAreOfTheirTime, SnapshotsCarryTheCron
<1>4. Fate'
  BY DEF vars, clockVars, tableVars, poolVars, rowVars, IInv, Fate, RowsArePast,
         OneRowPerDueTime, ClaimedHasNoRow
<1> QED
  BY <1>1, <1>2, <1>3, <1>4 DEF IInv

LEMMA StepKeeps == IInv /\ [Next]_vars => IInv'
<1> SUFFICES ASSUME IInv, [Next]_vars PROVE IInv'
  OBVIOUS
<1>1. CASE Poll \/ Tick \/ TickUnpolled \/ Crash \/ Boot
  BY <1>1, PollKeeps, TimePasses, CrashKeeps
<1>2. CASE \E s \in Schedules : Admit(s)
  BY <1>2, AdmitKeeps
<1>3. CASE \E s \in Schedules : Worker(s)
  BY <1>3, ClaimKeeps, RecordMissedKeeps, FireDueKeeps, StartManualKeeps, EndFireKeeps DEF Worker
<1>4. CASE \E s \in Schedules : User(s)
  BY <1>4, RunNowKeeps, EditsKeep DEF User
<1>5. CASE UNCHANGED vars
  BY <1>5, StutterKeeps
<1> QED
  BY <1>1, <1>2, <1>3, <1>4, <1>5 DEF Next

LEMMA IInvHolds == Spec => []IInv
<1> QED
  BY InitIInv, StepKeeps, PTL DEF Spec

-----------------------------------------------------------------------------

\* Every variable keeps its shape: what is listed is due and so within the
\* horizon, and the pool's count never exceeds its bound.
THEOREM TypeCorrect == Spec => []TypeOK
<1>1. IInv => TypeOK
  BY DEF IInv
<1> QED
  BY <1>1, IInvHolds, PTL

\* The pool's bookkeeping is exact (acquireSlot, releaseSlot).
THEOREM PoolIsExact == Spec => []PoolCountsItsFires
<1>1. IInv => PoolCountsItsFires
  BY DEF IInv, PoolExact
<1> QED
  BY <1>1, IInvHolds, PTL

\* A claim never overwrites the next time of a later edit.
THEOREM NextFollowsTheCron == Spec => []NextIsOfThePresentCron
<1>1. IInv => NextIsOfThePresentCron
  BY DEF IInv
<1> QED
  BY <1>1, IInvHolds, PTL

\* A due time is fired once or recorded missed once, never both.
THEOREM DueTimesHaveOneFate == Spec => []SlotHasOneFate
<1>1. ASSUME IInv PROVE SlotHasOneFate
  <2> SUFFICES ASSUME NEW s \in Schedules, NEW t \in Times
               PROVE  Cardinality(Fates(s, t)) <= 1
    BY DEF SlotHasOneFate
  <2>1. \A q, r \in Fates(s, t) : q = r
    <3>1. \A r \in Fates(s, t) :
             r \in rows /\ r.schedule = s /\ r.at = t /\ r.trigger = "poll"
      BY <1>1 DEF Fates, IInv, TypeOK, Rows
    <3> QED
      BY <1>1, <3>1 DEF IInv, Fate, OneRowPerDueTime
  <2>2. CASE Fates(s, t) = {}
    BY <2>2, FS_EmptySet
  <2>3. CASE Fates(s, t) # {}
    <3>1. PICK r \in Fates(s, t) : TRUE
      BY <2>3
    <3>2. Fates(s, t) = {r}
      BY <2>1, <3>1
    <3> QED
      BY <3>2, FS_Singleton
  <2> QED
    BY <2>2, <2>3
<1> QED
  BY <1>1, IInvHolds, PTL

-----------------------------------------------------------------------------
\* What was offered fresh is not called missed: until it is claimed its
\* snapshot, taken by the tick that offered it, stays in the pool.

MissedIsPolled == \A r \in rows : r.status = "missed" => r.trigger = "poll"

OfferedStaysFresh ==
    \A p \in onTime :
        /\ p[2] <= now
        /\ next[p[1]] <= p[2] =>
              /\ stage[p[1]] \in {"waiting", "granted"} /\ job[p[1]].door = "poll"
              /\ job[p[1]].due = p[2] /\ next[p[1]] = p[2]
              /\ ~Overdue(p[2], job[p[1]].at)
        /\ stage[p[1]] = "claimed" /\ job[p[1]].due = p[2] => ~Overdue(p[2], job[p[1]].at)

FreshIInv == MissedIsPolled /\ OfferedStaysFresh /\ WaitingIsNotMissing

\* A fire that may still claim the time its snapshot shows.
MayClaim(s) ==
    stage[s] \in {"waiting", "granted"} /\ job[s].door = "poll" /\ next[s] = job[s].due

\* A schedule the step does not touch, but for a slot it may be handed.
Untouched(s) ==
    /\ next'[s] = next[s] /\ job'[s] = job[s]
    /\ stage'[s] = stage[s] \/ (stage[s] = "waiting" /\ stage'[s] = "granted")

\* Every step but an offer, a claim and a kill: what is called missed was not
\* offered fresh, and a schedule that is touched could not claim, or its next
\* time is moved past the present.
LEMMA FreshStays ==
    ASSUME IInv, FreshIInv, now' \in Nat, now <= now', onTime' \subseteq onTime,
           \A r \in rows' :
              r.status = "missed" =>
                 r \in rows \/ (r.trigger = "poll" /\ <<r.schedule, r.at>> \notin onTime),
           next' \in [Schedules -> Times \cup {Never}],
           \A s \in Schedules :
              \/ Untouched(s)
              \/ stage'[s] # "claimed" /\ ~MayClaim(s) /\ next[s] <= next'[s]
              \/ stage'[s] # "claimed" /\ now < next'[s]
    PROVE  FreshIInv'
<1>1. /\ now \in Nat /\ \A s \in Schedules : next[s] \in Nat /\ next'[s] \in Nat
      /\ onTime \subseteq Schedules \X Nat
  BY DEF IInv, TypeOK, Times, Never
<1>2. MissedIsPolled'
  BY DEF FreshIInv, MissedIsPolled
<1>3. WaitingIsNotMissing'
  BY DEF FreshIInv, WaitingIsNotMissing
<1>4. OfferedStaysFresh'
  <2> SUFFICES ASSUME NEW p \in onTime, p \in onTime'
               PROVE  /\ p[2] <= now'
                      /\ next'[p[1]] <= p[2] =>
                            /\ stage'[p[1]] \in {"waiting", "granted"}
                            /\ job'[p[1]].door = "poll"
                            /\ job'[p[1]].due = p[2] /\ next'[p[1]] = p[2]
                            /\ ~Overdue(p[2], job'[p[1]].at)
                      /\ stage'[p[1]] = "claimed" /\ job'[p[1]].due = p[2]
                            => ~Overdue(p[2], job'[p[1]].at)
    BY DEF OfferedStaysFresh, Overdue
  <2> DEFINE s == p[1]
             t == p[2]
  <2>1. s \in Schedules /\ t \in Nat
    BY <1>1
  <2>2. /\ t <= now
        /\ next[s] <= t =>
              /\ stage[s] \in {"waiting", "granted"} /\ job[s].door = "poll"
              /\ job[s].due = t /\ next[s] = t /\ ~Overdue(t, job[s].at)
        /\ stage[s] = "claimed" /\ job[s].due = t => ~Overdue(t, job[s].at)
    BY DEF FreshIInv, OfferedStaysFresh
  <2>3. /\ next[s] \in Nat /\ next'[s] \in Nat
        /\ \/ Untouched(s)
           \/ stage'[s] # "claimed" /\ ~MayClaim(s) /\ next[s] <= next'[s]
           \/ stage'[s] # "claimed" /\ now < next'[s]
    BY <1>1, <2>1
  <2> HIDE DEF s, t
  <2>4. t <= now'
    BY <1>1, <2>1, <2>2
  <2>5. stage'[s] = "claimed" /\ job'[s].due = t => ~Overdue(t, job'[s].at)
    BY <2>2, <2>3 DEF Untouched
  <2>6. ASSUME next'[s] <= t PROVE Untouched(s)
    <3>1. CASE now < next'[s]
      BY <1>1, <2>1, <2>2, <2>3, <2>6, <3>1
    <3>2. CASE ~MayClaim(s) /\ next[s] <= next'[s]
      <4>1. next[s] <= t
        BY <2>1, <2>3, <2>6, <3>2
      <4> QED
        BY <2>2, <3>2, <4>1 DEF MayClaim
    <3> QED
      BY <2>3, <3>1, <3>2
  <2>7. ASSUME next'[s] <= t
        PROVE  /\ stage'[s] \in {"waiting", "granted"} /\ job'[s].door = "poll"
               /\ job'[s].due = t /\ next'[s] = t /\ ~Overdue(t, job'[s].at)
    <3>1. next'[s] = next[s] /\ job'[s] = job[s]
      BY <2>6, <2>7 DEF Untouched
    <3>2. /\ stage[s] \in {"waiting", "granted"} /\ job[s].door = "poll"
          /\ job[s].due = t /\ next[s] = t /\ ~Overdue(t, job[s].at)
      BY <2>2, <2>7, <3>1
    <3>3. stage'[s] \in {"waiting", "granted"}
      BY <2>6, <2>7, <3>2 DEF Untouched
    <3> QED
      BY <3>1, <3>2, <3>3
  <2> QED
    BY <2>4, <2>5, <2>7 DEF s, t
<1> QED
  BY <1>2, <1>3, <1>4 DEF FreshIInv

LEMMA InitFresh == Init => FreshIInv
<1> QED
  BY DEF Init, FreshIInv, MissedIsPolled, OfferedStaysFresh, WaitingIsNotMissing

LEMMA ClockFresh == ASSUME IInv, FreshIInv, Poll \/ Tick \/ TickUnpolled \/ Boot PROVE FreshIInv'
<1>1. UNCHANGED <<tableVars, poolVars, rowVars, onTime>>
  BY DEF Poll, Tick, TickUnpolled, Boot, history
<1>2. now \in Nat /\ now' \in Nat /\ now <= now'
  <2>1. now \in Times
    BY DEF IInv, TypeOK
  <2> QED
    BY <2>1 DEF Poll, Tick, TickUnpolled, Boot, Passed, Times
<1>3. \A s \in Schedules : Untouched(s)
  BY <1>1 DEF tableVars, poolVars, Untouched
<1>4. next' \in [Schedules -> Times \cup {Never}] /\ rows' = rows /\ onTime' = onTime
  BY <1>1 DEF tableVars, rowVars, IInv, TypeOK
<1> HIDE DEF IInv, FreshIInv
<1> QED
  BY <1>2, <1>3, <1>4, FreshStays

LEMMA StutterFresh == ASSUME IInv, FreshIInv, UNCHANGED vars PROVE FreshIInv'
<1> QED
  BY DEF vars, clockVars, tableVars, poolVars, rowVars, history, FreshIInv, MissedIsPolled,
         OfferedStaysFresh, WaitingIsNotMissing, Overdue

LEMMA CrashFresh == ASSUME IInv, FreshIInv, Crash PROVE FreshIInv'
<1> QED
  BY DEF Crash, rowVars, FreshIInv, MissedIsPolled, OfferedStaysFresh, WaitingIsNotMissing

\* The present and the next times, where a step leaves them.
LEMMA TimesStand ==
    ASSUME IInv, UNCHANGED <<now, next>>
    PROVE  /\ now' \in Nat /\ now <= now' /\ next' \in [Schedules -> Times \cup {Never}]
           /\ \A s \in Schedules : next[s] <= next'[s]
<1>1. now \in Nat /\ next \in [Schedules -> Times \cup {Never}]
  BY DEF IInv, TypeOK, Times
<1>2. \A s \in Schedules : next[s] \in Nat
  BY <1>1 DEF Times, Never
<1> QED
  BY <1>1, <1>2

\* A fire that may not claim leaves the pool.
LEMMA LeaveFresh ==
    ASSUME IInv, FreshIInv, NEW s \in Holding(stage), LeavePool(s), ~MayClaim(s),
           UNCHANGED <<now, next>>, onTime' \subseteq onTime,
           \A r \in rows' :
              r.status = "missed" =>
                 r \in rows \/ (r.trigger = "poll" /\ <<r.schedule, r.at>> \notin onTime)
    PROVE  FreshIInv'
<1>1. \A q \in Schedules : q # s => job'[q] = job[q]
  BY DEF LeavePool, IInv, TypeOK
<1>2. /\ stage'[s] = "out"
      /\ \A q \in Schedules : q # s =>
            stage'[q] = stage[q] \/ (stage[q] = "waiting" /\ stage'[q] = "granted")
  BY LeaveKeepsPool DEF IInv
<1>3. \A q \in Schedules : q # s => Untouched(q)
  BY <1>1, <1>2 DEF Untouched
<1>4. /\ now' \in Nat /\ now <= now' /\ next' \in [Schedules -> Times \cup {Never}]
      /\ \A q \in Schedules : next[q] <= next'[q]
  BY TimesStand
<1> HIDE DEF IInv, FreshIInv
<1> QED
  BY <1>2, <1>3, <1>4, FreshStays

\* A fire that may not claim moves on, without a row called missed.
LEMMA StartFresh ==
    ASSUME IInv, FreshIInv, NEW s \in Schedules, ~MayClaim(s),
           NEW j, job' = [job EXCEPT ![s] = j], stage'[s] # "claimed",
           \A q \in Schedules : q # s => stage'[q] = stage[q],
           UNCHANGED <<now, next>>, onTime' \subseteq onTime,
           \A r \in rows' : r.status = "missed" => r \in rows
    PROVE  FreshIInv'
<1>1. \A q \in Schedules : q # s => job'[q] = job[q]
  BY DEF IInv, TypeOK
<1>2. \A q \in Schedules : q # s => Untouched(q)
  BY <1>1 DEF Untouched
<1>3. /\ now' \in Nat /\ now <= now' /\ next' \in [Schedules -> Times \cup {Never}]
      /\ \A q \in Schedules : next[q] <= next'[q]
  BY TimesStand
<1> HIDE DEF IInv, FreshIInv
<1> QED
  BY <1>2, <1>3, FreshStays

LEMMA ClaimFresh == ASSUME IInv, FreshIInv, NEW s \in Schedules, Claim(s) PROVE FreshIInv'
<1>1. /\ stage[s] = "granted" /\ job[s].door = "poll" /\ Quiet
      /\ UNCHANGED <<now, rows, onTime>>
  BY DEF Claim, clockVars, rowVars
<1>2. CASE ~StillDue(s) /\ LeavePool(s) /\ UNCHANGED <<next, owed>>
  <2>1. s \in Holding(stage) /\ ~MayClaim(s)
    BY <1>1, <1>2 DEF Holding, MayClaim, StillDue
  <2> HIDE DEF IInv, FreshIInv
  <2> QED
    BY <1>1, <1>2, <2>1, LeaveFresh
<1>3. CASE /\ StillDue(s) /\ next' = [next EXCEPT ![s] = NextAfterClaim(s)]
           /\ stage' = [stage EXCEPT ![s] = "claimed"] /\ UNCHANGED <<waiters, active, job>>
  <2>1. IInv'
    BY ClaimKeeps
  <2>2. /\ stage'[s] = "claimed" /\ \A q \in Schedules : q # s => stage'[q] = stage[q]
        /\ \A q \in Schedules : q # s => next'[q] = next[q]
    BY <1>3 DEF IInv, TypeOK
  <2>3. next[s] = job[s].due /\ next'[s] > job[s].due /\ next[s] \in Nat /\ next'[s] \in Nat
    BY <1>3, <2>1, <2>2 DEF StillDue, IInv, TypeOK, Fate, ClaimedHasNoRow, Times, Never
  <2>4. OfferedStaysFresh'
    <3> SUFFICES ASSUME NEW p \in onTime
                 PROVE  /\ p[2] <= now
                        /\ next'[p[1]] <= p[2] =>
                              /\ stage'[p[1]] \in {"waiting", "granted"}
                              /\ job[p[1]].door = "poll"
                              /\ job[p[1]].due = p[2] /\ next'[p[1]] = p[2]
                              /\ ~Overdue(p[2], job[p[1]].at)
                        /\ stage'[p[1]] = "claimed" /\ job[p[1]].due = p[2]
                              => ~Overdue(p[2], job[p[1]].at)
      BY <1>1, <1>3 DEF OfferedStaysFresh, Overdue
    <3>1. p[1] \in Schedules /\ p[2] \in Nat
      BY DEF IInv, TypeOK, Times
    <3>2. /\ p[2] <= now
          /\ next[p[1]] <= p[2] =>
                /\ stage[p[1]] \in {"waiting", "granted"} /\ job[p[1]].door = "poll"
                /\ job[p[1]].due = p[2] /\ next[p[1]] = p[2]
                /\ ~Overdue(p[2], job[p[1]].at)
          /\ stage[p[1]] = "claimed" /\ job[p[1]].due = p[2] => ~Overdue(p[2], job[p[1]].at)
      BY DEF FreshIInv, OfferedStaysFresh
    <3>3. CASE p[1] # s
      BY <2>2, <3>1, <3>2, <3>3
    <3>4. CASE p[1] = s
      <4>1. next[s] <= p[2] => job[s].due = p[2] /\ ~Overdue(p[2], job[s].at)
        BY <3>2, <3>4
      <4>2. next'[s] <= p[2] => FALSE
        BY <2>3, <3>1, <4>1
      <4>3. job[s].due = p[2] => ~Overdue(p[2], job[s].at)
        BY <2>3, <4>1
      <4> QED
        BY <3>2, <3>4, <4>2, <4>3
    <3> QED
      BY <3>3, <3>4
  <2>5. MissedIsPolled' /\ WaitingIsNotMissing'
    BY <1>1 DEF FreshIInv, MissedIsPolled, WaitingIsNotMissing
  <2> QED
    BY <2>4, <2>5 DEF FreshIInv
<1> QED
  BY <1>2, <1>3 DEF Claim

LEMMA RecordMissedFresh ==
    ASSUME IInv, FreshIInv, NEW s \in Schedules, RecordMissed(s) PROVE FreshIInv'
<1>1. /\ stage[s] = "claimed" /\ Missed(s) /\ LeavePool(s)
      /\ rows' = rows \cup {Row(s, job[s].due, "poll", "missed")}
      /\ UNCHANGED <<now, next, onTime>>
  BY DEF RecordMissed, clockVars, tableVars
<1>2. s \in Holding(stage) /\ ~MayClaim(s)
  BY <1>1 DEF Holding, MayClaim
<1>3. <<s, job[s].due>> \notin onTime
  BY <1>1 DEF FreshIInv, OfferedStaysFresh, Missed
<1>4. \A r \in rows' :
         r \in rows \/ (r.trigger = "poll" /\ <<r.schedule, r.at>> \notin onTime)
  BY <1>1, <1>3 DEF Row
<1> HIDE DEF IInv, FreshIInv
<1> QED
  BY <1>1, <1>2, <1>4, LeaveFresh

\* A run row is not a missed one.
LEMMA RunRowIsNotMissed ==
    ASSUME NEW s, NEW at, NEW trigger,
           rows' = rows \/ rows' = rows \cup {Row(s, at, trigger, "running")}
    PROVE  \A r \in rows' : r.status = "missed" => r \in rows
<1> QED
  BY DEF Row

\* The executor, on a fire that may not claim.
LEMMA FireScheduleFresh ==
    ASSUME IInv, FreshIInv, NEW s \in Holding(stage), ~MayClaim(s), NEW at, NEW trigger,
           FireSchedule(s, at, trigger), UNCHANGED <<now, next>>, onTime' \subseteq onTime
    PROVE  FreshIInv'
<1>1. s \in Schedules
  BY DEF Holding
<1>2. \A r \in rows' : r.status = "missed" => r \in rows
  BY RunRowIsNotMissed DEF FireSchedule, rowVars
<1>3. CASE stage' = [stage EXCEPT ![s] = "firing"] /\ job' = [job EXCEPT ![s].run = runs[s] + 1]
  <2>1. stage'[s] # "claimed" /\ \A q \in Schedules : q # s => stage'[q] = stage[q]
    BY <1>1, <1>3 DEF IInv, TypeOK
  <2>2. job' = [job EXCEPT ![s] = [job[s] EXCEPT !.run = runs[s] + 1]]
    BY <1>3
  <2> HIDE DEF IInv, FreshIInv
  <2> QED
    BY <1>1, <1>2, <2>1, <2>2, StartFresh
<1>4. CASE LeavePool(s)
  <2> HIDE DEF IInv, FreshIInv
  <2> QED
    BY <1>2, <1>4, LeaveFresh
<1> QED
  BY <1>3, <1>4 DEF FireSchedule

LEMMA FireDueFresh ==
    ASSUME IInv, FreshIInv, NEW s \in Schedules, FireDue(s) PROVE FreshIInv'
<1>1. /\ stage[s] = "claimed" /\ FireSchedule(s, job[s].due, "poll")
      /\ UNCHANGED <<now, next>> /\ onTime' \subseteq onTime
  BY DEF FireDue, clockVars, tableVars
<1>2. s \in Holding(stage) /\ ~MayClaim(s)
  BY <1>1 DEF Holding, MayClaim
<1> QED
  BY <1>1, <1>2, FireScheduleFresh

LEMMA StartManualFresh ==
    ASSUME IInv, FreshIInv, NEW s \in Schedules, StartManual(s) PROVE FreshIInv'
<1>1. /\ stage[s] = "granted" /\ job[s].door = "manual" /\ FireSchedule(s, job[s].at, "manual")
      /\ UNCHANGED <<now, next>> /\ onTime' \subseteq onTime
  BY DEF StartManual, clockVars, tableVars, history
<1>2. s \in Holding(stage) /\ ~MayClaim(s)
  BY <1>1 DEF Holding, MayClaim
<1> QED
  BY <1>1, <1>2, FireScheduleFresh

LEMMA EndFireFresh ==
    ASSUME IInv, FreshIInv, NEW s \in Schedules, EndFire(s) PROVE FreshIInv'
<1>1. /\ stage[s] = "firing" /\ rows' = Ended(s) /\ LeavePool(s)
      /\ UNCHANGED <<now, next, onTime>>
  BY DEF EndFire, clockVars, tableVars, history
<1>2. s \in Holding(stage) /\ ~MayClaim(s)
  BY <1>1 DEF Holding, MayClaim
<1>3. \A r \in rows' : r.status = "missed" => r \in rows
  <2>1. \A q \in rows : [q EXCEPT !.status = "ended"].status = "ended"
    BY DEF IInv, TypeOK, Rows
  <2> QED
    BY <1>1, <2>1 DEF Ended
<1> HIDE DEF IInv, FreshIInv
<1> QED
  BY <1>1, <1>2, <1>3, LeaveFresh

LEMMA RunNowFresh ==
    ASSUME IInv, FreshIInv, NEW s \in Schedules, RunNow(s) PROVE FreshIInv'
<1>1. /\ stage[s] = "out" /\ job' = [job EXCEPT ![s] = ByHand] /\ AcquireSlot(s)
      /\ UNCHANGED <<now, next, onTime, rows>>
  BY DEF RunNow, clockVars, tableVars, rowVars, history
<1>2. ~MayClaim(s)
  BY <1>1 DEF MayClaim
<1>3. /\ stage'[s] \in {"granted", "waiting"}
      /\ \A q \in Schedules : q # s => stage'[q] = stage[q]
  BY <1>1, AcquireKeepsPool DEF IInv
<1> HIDE DEF IInv, FreshIInv
<1> QED
  BY <1>1, <1>2, <1>3, StartFresh

\* An offer: a due time that was offered before and still stands is in the pool.
LEMMA AdmitFresh == ASSUME IInv, FreshIInv, NEW s \in Schedules, Admit(s) PROVE FreshIInv'
<1>1. s \in listed /\ UNCHANGED <<now, next, rows>>
  BY DEF Admit, clockVars, tableVars, rowVars
<1>2. CASE UNCHANGED <<poolVars, onTime>>
  BY <1>1, <1>2 DEF poolVars, FreshIInv, MissedIsPolled, OfferedStaysFresh,
                    WaitingIsNotMissing, Overdue
<1>3. CASE /\ stage[s] = "out" /\ job' = [job EXCEPT ![s] = Offer(s)] /\ AcquireSlot(s)
           /\ onTime' = IF Overdue(next[s], now) THEN onTime ELSE onTime \cup {<<s, next[s]>>}
  <2>1. /\ stage'[s] \in {"granted", "waiting"}
        /\ \A q \in Schedules : q # s => stage'[q] = stage[q]
    BY <1>3, AcquireKeepsPool DEF IInv
  <2>2. job'[s] = Offer(s) /\ \A q \in Schedules : q # s => job'[q] = job[q]
    BY <1>3 DEF IInv, TypeOK
  <2>3. next[s] <= now /\ now \in Nat /\ next[s] \in Nat
    BY <1>1 DEF IInv, TypeOK, Snapshots, ListedAreDue, Times, Never
  <2>4. \A p \in onTime : p[1] \in Schedules /\ p[2] \in Nat
    BY DEF IInv, TypeOK, Times
  <2>5. OfferedStaysFresh'
    <3> SUFFICES ASSUME NEW p \in onTime'
                 PROVE  /\ p[2] <= now
                        /\ next[p[1]] <= p[2] =>
                              /\ stage'[p[1]] \in {"waiting", "granted"}
                              /\ job'[p[1]].door = "poll"
                              /\ job'[p[1]].due = p[2] /\ next[p[1]] = p[2]
                              /\ ~Overdue(p[2], job'[p[1]].at)
                        /\ stage'[p[1]] = "claimed" /\ job'[p[1]].due = p[2]
                              => ~Overdue(p[2], job'[p[1]].at)
      BY <1>1 DEF OfferedStaysFresh, Overdue
    <3>1. CASE p \in onTime
      <4>1. /\ p[2] <= now
            /\ next[p[1]] <= p[2] =>
                  /\ stage[p[1]] \in {"waiting", "granted"} /\ job[p[1]].door = "poll"
                  /\ job[p[1]].due = p[2] /\ next[p[1]] = p[2]
                  /\ ~Overdue(p[2], job[p[1]].at)
            /\ stage[p[1]] = "claimed" /\ job[p[1]].due = p[2] => ~Overdue(p[2], job[p[1]].at)
        BY <3>1 DEF FreshIInv, OfferedStaysFresh
      <4>2. CASE p[1] = s
        BY <1>3, <2>1, <4>1, <4>2
      <4>3. CASE p[1] # s
        BY <2>1, <2>2, <2>4, <3>1, <4>1, <4>3
      <4> QED
        BY <4>2, <4>3
    <3>2. CASE p \notin onTime
      <4>1. ~Overdue(next[s], now) /\ p = <<s, next[s]>>
        BY <1>3, <3>2
      <4>2. job'[s].door = "poll" /\ job'[s].due = next[s] /\ job'[s].at = now
        BY <2>2 DEF Offer
      <4>3. p[1] = s /\ p[2] = next[s]
        BY <4>1
      <4> HIDE DEF IInv, FreshIInv
      <4> QED
        BY <2>1, <2>3, <4>1, <4>2, <4>3
    <3> QED
      BY <3>1, <3>2
  <2>6. MissedIsPolled'
    BY <1>1 DEF FreshIInv, MissedIsPolled
  <2>7. WaitingIsNotMissing'
    <3> SUFFICES ASSUME NEW r \in rows, r.status = "missed", <<r.schedule, r.at>> \in onTime'
                 PROVE  FALSE
      BY <1>1 DEF WaitingIsNotMissing
    <3>1. <<r.schedule, r.at>> \notin onTime
      BY DEF FreshIInv, WaitingIsNotMissing
    <3>2. r.schedule = s /\ r.at = next[s]
      BY <1>3, <3>1
    <3>3. r.trigger = "poll" /\ r.at < next[r.schedule]
      BY DEF FreshIInv, MissedIsPolled, IInv, Fate, RowsArePast
    <3> QED
      BY <2>3, <3>2, <3>3
  <2> QED
    BY <2>5, <2>6, <2>7 DEF FreshIInv
<1> QED
  BY <1>2, <1>3 DEF Admit

\* An edit moves the next time past the present, or leaves it.
LEMMA EditFresh ==
    ASSUME IInv, FreshIInv, NEW s \in Schedules,
           \/ SetScheduleEnabled(s) \/ SetCatchUp(s) \/ DeleteSchedule(s)
           \/ \E c \in Crons : SetCron(s, c)
    PROVE  FreshIInv'
<1>1. UNCHANGED <<now, poolVars, onTime>> /\ rows' \subseteq rows /\ Quiet
  BY DEF SetScheduleEnabled, SetCatchUp, DeleteSchedule, SetCron, Edit, clockVars, history
<1>2. now \in Times /\ now < Never
  BY DEF IInv, TypeOK, Times, Never
<1>3. \/ next' = next
      \/ \E t \in Times \cup {Never} : now < t /\ next' = [next EXCEPT ![s] = t]
  <2>1. CASE DeleteSchedule(s)
    BY <1>2, <2>1 DEF DeleteSchedule
  <2>2. ASSUME NEW c \in Crons, SetCron(s, c)
        PROVE  \E t \in Times \cup {Never} : now < t /\ next' = [next EXCEPT ![s] = t]
    <3>1. NextRun(c, now) \in Times \cup {Never} /\ now < NextRun(c, now)
      BY <1>2, NextRunIsLater
    <3> QED
      BY <2>2, <3>1 DEF SetCron
  <2> QED
    BY <2>1, <2>2 DEF SetScheduleEnabled, SetCatchUp
<1>4. next' \in [Schedules -> Times \cup {Never}]
  BY <1>3 DEF IInv, TypeOK
<1>5. \A q \in Schedules : Untouched(q) \/ (stage'[q] # "claimed" /\ now < next'[q])
  <2>1. \A q \in Schedules : next'[q] = next[q] \/ now < next'[q]
    BY <1>3 DEF IInv, TypeOK
  <2> QED
    BY <1>1, <2>1 DEF poolVars, Quiet, Untouched
<1>6. now' \in Nat /\ now <= now' /\ onTime' \subseteq onTime
  BY <1>1, <1>2 DEF Times
<1>7. \A r \in rows' : r \in rows
  BY <1>1
<1> HIDE DEF IInv, FreshIInv
<1> QED
  BY <1>4, <1>5, <1>6, <1>7, FreshStays

LEMMA StepFresh == IInv /\ FreshIInv /\ [Next]_vars => FreshIInv'
<1> SUFFICES ASSUME IInv, FreshIInv, [Next]_vars PROVE FreshIInv'
  OBVIOUS
<1> HIDE DEF IInv, FreshIInv
<1>1. CASE Poll \/ Tick \/ TickUnpolled \/ Crash \/ Boot
  BY <1>1, ClockFresh, CrashFresh
<1>2. CASE \E s \in Schedules : Admit(s)
  BY <1>2, AdmitFresh
<1>3. CASE \E s \in Schedules : Worker(s)
  BY <1>3, ClaimFresh, RecordMissedFresh, FireDueFresh, StartManualFresh, EndFireFresh DEF Worker
<1>4. CASE \E s \in Schedules : User(s)
  BY <1>4, RunNowFresh, EditFresh DEF User
<1>5. CASE UNCHANGED vars
  BY <1>5, StutterFresh
<1> QED
  BY <1>1, <1>2, <1>3, <1>4, <1>5 DEF Next

\* A due time that a poll offered while it was fresh is not called missed,
\* however long it then waits for the pool.
THEOREM WaitingTimesAreNotMissed == Spec => []WaitingIsNotMissing
<1>1. FreshIInv => WaitingIsNotMissing
  BY DEF FreshIInv
<1> QED
  BY <1>1, IInvHolds, InitFresh, StepFresh, PTL DEF Spec

-----------------------------------------------------------------------------
\* Kills and claims.  Of the due times that are owed, all but the one in hand
\* were cut off by a kill.

\* The due time that has been claimed, between that commit and the next.
InHand == {<<s, job[s].due>> : s \in {q \in Schedules : stage[q] = "claimed"}}

Accounts ==
    /\ IsFiniteSet(owed)
    /\ \A p, q \in InHand : p = q
    /\ Cardinality(owed \ InHand) <= crashes

\* A step that claims nothing and settles nothing.
LEMMA AccountsStand ==
    ASSUME Accounts, InHand' = InHand, UNCHANGED <<owed, crashes>>
    PROVE  Accounts'
<1> QED
  BY DEF Accounts

\* A claim, where nothing was in hand.
LEMMA AccountsOpen ==
    ASSUME Accounts, crashes \in Nat, NEW p, InHand = {}, InHand' = {p},
           owed' = owed \cup {p}, UNCHANGED crashes
    PROVE  Accounts'
<1>1. IsFiniteSet(owed) /\ Cardinality(owed) <= crashes
  BY DEF Accounts
<1>2. IsFiniteSet(owed')
  BY <1>1, FS_AddElement
<1>3. owed' \ InHand' \in SUBSET owed
  OBVIOUS
<1>4. /\ IsFiniteSet(owed' \ InHand') /\ Cardinality(owed' \ InHand') <= Cardinality(owed)
      /\ Cardinality(owed' \ InHand') \in Nat /\ Cardinality(owed) \in Nat
  BY <1>1, <1>3, FS_Subset, FS_CardinalityType
<1> QED
  BY <1>1, <1>2, <1>4 DEF Accounts

\* The row of the due time in hand is written, or its fire turned away.
LEMMA AccountsSettle ==
    ASSUME Accounts, NEW p \in InHand, InHand' = {}, owed' = owed \ {p}, UNCHANGED crashes
    PROVE  Accounts'
<1>1. InHand = {p}
  BY DEF Accounts
<1>2. owed' \ InHand' = owed \ InHand
  BY <1>1
<1>3. IsFiniteSet(owed')
  BY FS_Subset DEF Accounts
<1> QED
  BY <1>2, <1>3 DEF Accounts

\* A kill cuts off what is in hand.
LEMMA AccountsCut ==
    ASSUME Accounts, crashes \in Nat, InHand' = {}, owed' = owed, crashes' = crashes + 1
    PROVE  Accounts'
<1> DEFINE rest == owed \ InHand
<1>1. IsFiniteSet(owed) /\ Cardinality(rest) <= crashes
  BY DEF Accounts
<1>2. IsFiniteSet(rest) /\ Cardinality(rest) \in Nat
  BY <1>1, FS_Subset, FS_CardinalityType
<1>3. Cardinality(owed) <= crashes + 1
  <2>1. CASE InHand = {}
    <3>1. rest = owed
      BY <2>1
    <3> HIDE DEF rest
    <3>2. Cardinality(owed) <= crashes /\ Cardinality(owed) \in Nat
      BY <1>1, <1>2, <3>1
    <3> QED
      BY <3>2
  <2>2. CASE InHand # {}
    <3>1. PICK p \in InHand : InHand = {p}
      BY <2>2 DEF Accounts
    <3>2. owed \in SUBSET (rest \cup {p})
      BY <3>1
    <3> HIDE DEF rest
    <3>3. IsFiniteSet(rest \cup {p}) /\ Cardinality(rest \cup {p}) <= Cardinality(rest) + 1
      BY <1>2, FS_AddElement
    <3>4. Cardinality(owed) <= Cardinality(rest \cup {p})
      BY <3>2, <3>3, FS_Subset
    <3>5. Cardinality(rest \cup {p}) \in Nat /\ Cardinality(owed) \in Nat
      BY <1>1, <3>3, FS_CardinalityType
    <3> QED
      BY <1>1, <1>2, <3>3, <3>4, <3>5
  <2> QED
    BY <2>1, <2>2
<1>4. owed' \ InHand' = owed
  OBVIOUS
<1> QED
  BY <1>1, <1>3, <1>4 DEF Accounts

LEMMA InitAccounts == Init => Accounts
<1> SUFFICES ASSUME Init PROVE Accounts
  OBVIOUS
<1>1. InHand = {} /\ owed = {} /\ crashes = 0
  BY DEF Init, InHand
<1> QED
  BY <1>1, FS_EmptySet DEF Accounts

\* Nothing is in hand while no synchronous code is half way through.
LEMMA QuietHoldsNothing == Quiet => InHand = {}
<1> QED
  BY DEF Quiet, InHand

\* A fire that leaves the pool takes what it had in hand along.
LEMMA LeaveLetsGo ==
    ASSUME IInv, NEW s \in Holding(stage), LeavePool(s), UNCHANGED <<now, next, cron, listed>>,
           Quiet \/ (stage[s] = "claimed" /\ InHand = {<<s, job[s].due>>})
    PROVE  InHand' = {}
<1>1. \A q \in Schedules : stage'[q] = "claimed" =>
         q # s /\ stage[q] = "claimed" /\ job'[q] = job[q]
  BY LeaveKeepsRest DEF IInv
<1>2. CASE Quiet
  BY <1>1, <1>2 DEF Quiet, InHand
<1>3. CASE InHand = {<<s, job[s].due>>}
  <2>1. \A q \in Schedules : stage[q] = "claimed" => <<q, job[q].due>> = <<s, job[s].due>>
    BY <1>3 DEF InHand
  <2>2. \A q \in Schedules : stage[q] = "claimed" => q = s
    BY <2>1
  <2> QED
    BY <1>1, <2>2 DEF InHand
<1> QED
  BY <1>2, <1>3

\* What a claimed fire has in hand is all that is in hand.
LEMMA OneInHand ==
    ASSUME Accounts, NEW s \in Schedules, stage[s] = "claimed"
    PROVE  <<s, job[s].due>> \in InHand /\ InHand = {<<s, job[s].due>>}
<1>1. <<s, job[s].due>> \in InHand
  BY DEF InHand
<1> QED
  BY <1>1 DEF Accounts

\* The stages stand but for a schedule that is not, and does not become, claimed.
LEMMA HandStands ==
    ASSUME \A q \in Schedules :
              \/ stage'[q] # "claimed" /\ stage[q] # "claimed"
              \/ stage'[q] = stage[q] /\ job'[q] = job[q]
    PROVE  InHand' = InHand
<1>1. \A q \in Schedules :
         (stage'[q] = "claimed" <=> stage[q] = "claimed")
         /\ (stage[q] = "claimed" => job'[q] = job[q])
  OBVIOUS
<1> QED
  BY <1>1 DEF InHand

LEMMA FireScheduleSettles ==
    ASSUME IInv, NEW s \in Holding(stage), NEW at, NEW trigger, FireSchedule(s, at, trigger),
           UNCHANGED <<now, next, cron, listed>>,
           Quiet \/ (stage[s] = "claimed" /\ InHand = {<<s, job[s].due>>})
    PROVE  InHand' = {}
<1>1. CASE LeavePool(s)
  BY <1>1, LeaveLetsGo
<1>2. CASE stage' = [stage EXCEPT ![s] = "firing"]
  <2>1. /\ s \in Schedules /\ stage'[s] = "firing"
        /\ \A q \in Schedules : q # s => stage'[q] = stage[q]
    BY <1>2 DEF Holding, IInv, TypeOK
  <2>2. \A q \in Schedules : stage[q] = "claimed" => q = s
    <3>1. CASE Quiet
      BY <3>1 DEF Quiet
    <3>2. CASE InHand = {<<s, job[s].due>>}
      <4>1. \A q \in Schedules : stage[q] = "claimed" => <<q, job[q].due>> = <<s, job[s].due>>
        BY <3>2 DEF InHand
      <4> QED
        BY <4>1
    <3> QED
      BY <3>1, <3>2
  <2> QED
    BY <2>1, <2>2 DEF InHand
<1> QED
  BY <1>1, <1>2 DEF FireSchedule

LEMMA ClaimAccounts == ASSUME IInv, Accounts, NEW s \in Schedules, Claim(s) PROVE Accounts'
<1>1. /\ stage[s] = "granted" /\ Quiet /\ InHand = {} /\ crashes \in Nat
      /\ UNCHANGED <<now, cron, listed, crashes>>
  BY QuietHoldsNothing DEF Claim, clockVars, budgets, IInv, TypeOK
<1>2. CASE LeavePool(s) /\ UNCHANGED <<next, owed>>
  <2>1. InHand' = {}
    BY <1>1, <1>2, LeaveLetsGo DEF Holding
  <2> QED
    BY <1>1, <1>2, <2>1, AccountsStand
<1>3. CASE /\ owed' = owed \cup {<<s, job[s].due>>}
           /\ stage' = [stage EXCEPT ![s] = "claimed"] /\ UNCHANGED job
  <2>1. \A q \in Schedules : stage'[q] = "claimed" <=> q = s
    BY <1>1, <1>3 DEF Quiet, IInv, TypeOK
  <2>2. InHand' = {<<s, job[s].due>>}
    BY <1>3, <2>1 DEF InHand
  <2> QED
    BY <1>1, <1>3, <2>2, AccountsOpen
<1> QED
  BY <1>2, <1>3 DEF Claim

LEMMA WorkerAccounts ==
    ASSUME IInv, Accounts, NEW s \in Schedules,
           RecordMissed(s) \/ FireDue(s) \/ StartManual(s) \/ EndFire(s)
    PROVE  Accounts'
<1>1. s \in Holding(stage) /\ UNCHANGED <<now, next, cron, listed, crashes>>
  BY DEF RecordMissed, FireDue, StartManual, EndFire, Holding, clockVars, tableVars, budgets
<1>2. CASE RecordMissed(s) \/ FireDue(s)
  <2>1. stage[s] = "claimed" /\ owed' = owed \ {<<s, job[s].due>>}
    BY <1>2 DEF RecordMissed, FireDue
  <2>2. <<s, job[s].due>> \in InHand /\ InHand = {<<s, job[s].due>>}
    BY <2>1, OneInHand
  <2>3. InHand' = {}
    BY <1>1, <1>2, <2>1, <2>2, LeaveLetsGo, FireScheduleSettles DEF RecordMissed, FireDue
  <2> QED
    BY <1>1, <2>1, <2>2, <2>3, AccountsSettle
<1>3. CASE StartManual(s) \/ EndFire(s)
  <2>1. Quiet /\ InHand = {} /\ UNCHANGED owed
    BY <1>3, QuietHoldsNothing DEF StartManual, EndFire, history
  <2>2. InHand' = {}
    BY <1>1, <1>3, <2>1, LeaveLetsGo, FireScheduleSettles DEF StartManual, EndFire
  <2> QED
    BY <1>1, <2>1, <2>2, AccountsStand
<1> QED
  BY <1>2, <1>3

LEMMA StepAccounts == IInv /\ Accounts /\ [Next]_vars => Accounts'
<1> SUFFICES ASSUME IInv, Accounts, [Next]_vars PROVE Accounts'
  OBVIOUS
<1> HIDE DEF IInv, Accounts
<1>1. crashes \in Nat
  BY DEF IInv, TypeOK
<1>2. CASE Crash
  <2>1. InHand' = {} /\ owed' = owed /\ crashes' = crashes + 1
    BY <1>2 DEF Crash, InHand
  <2> QED
    BY <1>1, <2>1, AccountsCut
<1>3. CASE Poll \/ Tick \/ TickUnpolled \/ Boot \/ UNCHANGED vars
  <2>1. UNCHANGED <<poolVars, owed, crashes>>
    BY <1>3 DEF Poll, Tick, TickUnpolled, Boot, vars, budgets, history
  <2>2. InHand' = InHand
    BY <2>1 DEF poolVars, InHand
  <2> QED
    BY <2>1, <2>2, AccountsStand
<1>4. ASSUME NEW s \in Schedules, Admit(s) \/ RunNow(s) PROVE Accounts'
  <2>1. UNCHANGED <<owed, crashes>>
    BY <1>4 DEF Admit, RunNow, budgets, history
  <2>2. CASE UNCHANGED poolVars
    BY <2>1, <2>2, AccountsStand DEF poolVars, InHand
  <2>3. CASE /\ stage[s] = "out" /\ AcquireSlot(s)
             /\ job' = [job EXCEPT ![s] = Offer(s)] \/ job' = [job EXCEPT ![s] = ByHand]
    <3>1. /\ stage'[s] \in {"granted", "waiting"}
          /\ \A q \in Schedules : q # s => stage'[q] = stage[q]
      BY <2>3, AcquireKeepsPool DEF IInv
    <3>2. \A q \in Schedules : q # s => job'[q] = job[q]
      BY <2>3 DEF IInv, TypeOK
    <3>3. InHand' = InHand
      BY <2>3, <3>1, <3>2, HandStands
    <3> QED
      BY <2>1, <3>3, AccountsStand
  <2> QED
    BY <1>4, <2>2, <2>3 DEF Admit, RunNow
<1>5. ASSUME NEW s \in Schedules,
             \/ SetScheduleEnabled(s) \/ SetCatchUp(s) \/ DeleteSchedule(s)
             \/ \E c \in Crons : SetCron(s, c)
      PROVE  Accounts'
  <2>1. UNCHANGED <<poolVars, owed, crashes>>
    BY <1>5 DEF SetScheduleEnabled, SetCatchUp, DeleteSchedule, SetCron, Edit, history
  <2>2. InHand' = InHand
    BY <2>1 DEF poolVars, InHand
  <2> QED
    BY <2>1, <2>2, AccountsStand
<1> QED
  BY <1>2, <1>3, <1>4, <1>5, ClaimAccounts, WorkerAccounts DEF Next, Worker, User

\* A kill loses at most the one due time whose claim it cut off from its run
\* row; what waits for the pool, or is being offered, stays due.
THEOREM CrashLosesOneDueTime == Spec => []CrashLosesAtMostOneSlot
<1>1. ASSUME IInv, Accounts PROVE CrashLosesAtMostOneSlot
  <2>1. Vanished \in SUBSET (owed \ InHand)
    BY DEF Vanished, InHand
  <2>2. IsFiniteSet(owed \ InHand) /\ Cardinality(owed \ InHand) <= crashes
    BY <1>1, FS_Subset DEF Accounts
  <2>3. Cardinality(Vanished) <= Cardinality(owed \ InHand) /\ IsFiniteSet(Vanished)
    BY <2>1, <2>2, FS_Subset
  <2>4. /\ Cardinality(Vanished) \in Nat /\ Cardinality(owed \ InHand) \in Nat
        /\ crashes \in Nat
    BY <1>1, <2>2, <2>3, FS_CardinalityType DEF IInv, TypeOK
  <2> QED
    BY <2>2, <2>3, <2>4 DEF CrashLosesAtMostOneSlot
<1> QED
  BY <1>1, IInvHolds, InitAccounts, StepAccounts, PTL DEF Spec

=============================================================================
