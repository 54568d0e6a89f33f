---------------------- MODULE SessionTargetLocksProofs ----------------------
(***************************************************************************)
(* Theorems about SessionTargetLocks, for any calls, any mix of bounded    *)
(* and unbounded ones, and aborts at any moment.                           *)
(***************************************************************************)
EXTENDS SessionTargetLocks, TLAPS

\* The array of waiters and the statuses agree, and a free key has no waiters.
QueueIsParked ==
    /\ \A c \in Calls : c \in queue <=> status[c] = "parked"
    /\ queue # {} => held

\* Only a call that was handed the lock runs a release function.
ReleasedWereGranted ==
    \A c \in released : status[c] \in {"resuming", "running", "ended"}

\* Every call that arrived has its number, no greater than the last one given.
Numbered ==
    \A c \in Calls : arrival[c] <= arrivals

\* The inductive invariant behind HeldByOne and FirstComeFirstServed.
IInv ==
    /\ TypeOK /\ QueueIsParked /\ ReleasedWereGranted /\ Numbered
    /\ HeldByOne /\ FirstComeFirstServed

\* Only a late aborter can have a spent release before its turn ends; any other
\* call that gave up is being refused or has been.
SpentInTime ==
    /\ \A c \in released : status[c] = "ended" \/ c \in LateAborters
    /\ \A c \in gaveUp : status[c] \in {"refusing", "refused"} \/ c \in LateAborters

-----------------------------------------------------------------------------

LEMMA InitIInv == Init => IInv /\ SpentInTime
<1> SUFFICES ASSUME Init PROVE IInv /\ SpentInTime
  OBVIOUS
<1> USE DEF Init
<1>1. TypeOK
  BY DEF TypeOK, Statuses
<1>2. QueueIsParked /\ ReleasedWereGranted /\ SpentInTime
  BY DEF QueueIsParked, ReleasedWereGranted, SpentInTime
<1>3. Numbered /\ FirstComeFirstServed
  BY DEF Numbered, FirstComeFirstServed
<1>4. HeldByOne
  BY DEF HeldByOne, Granted
<1> QED BY <1>1, <1>2, <1>3, <1>4 DEF IInv

\* A release keeps the lock accounted for, whoever runs it: it is spent, or it
\* was the one outstanding and passes the lock to the head of the line.
LEMMA ReleaseKeepsIInv ==
  ASSUME IInv, NEW c \in Calls, NEW s \in {"resuming", "ended"},
         \/ status[c] = "running" /\ s = "ended"
         \/ status[c] = "handed" /\ s = "resuming",
         ReleaseFrom(c, [status EXCEPT ![c] = s]),
         UNCHANGED <<arrival, arrivals, gaveUp>>
  PROVE  IInv'
<1>1. CASE Spent(c)
  <2>1. /\ status' = [status EXCEPT ![c] = s]
        /\ UNCHANGED <<held, queue, released>>
    BY <1>1 DEF ReleaseFrom
  <2>2. status[c] = "running" /\ s = "ended"
    BY <1>1 DEF Spent, IInv, ReleasedWereGranted
  <2>3. TypeOK'
    BY <2>1, <2>2 DEF IInv, TypeOK, Statuses
  <2>4. QueueIsParked' /\ ReleasedWereGranted' /\ Numbered'
    BY <2>1, <2>2 DEF IInv, TypeOK, QueueIsParked, ReleasedWereGranted, Numbered
  <2>5. HeldByOne'
    BY <1>1, <2>1, <2>2 DEF Spent, IInv, TypeOK, HeldByOne, Granted
  <2>6. FirstComeFirstServed'
    BY <2>1, <2>2 DEF IInv, TypeOK, FirstComeFirstServed, Granted
  <2> QED BY <2>3, <2>4, <2>5, <2>6 DEF IInv
<1>2. CASE ~Spent(c) /\ queue = {}
  <2>1. /\ status' = [status EXCEPT ![c] = s]
        /\ released' = released \cup {c}
        /\ held' = FALSE /\ UNCHANGED queue
    BY <1>2 DEF ReleaseFrom, KeyAfterRelease
  <2>2. TypeOK'
    BY <2>1 DEF IInv, TypeOK, Statuses
  <2>3. QueueIsParked' /\ ReleasedWereGranted' /\ Numbered'
    BY <1>2, <2>1 DEF IInv, TypeOK, QueueIsParked, ReleasedWereGranted, Numbered
  <2>4. HeldByOne'
    BY <1>2, <2>1 DEF Spent, IInv, TypeOK, HeldByOne, Granted
  <2>5. FirstComeFirstServed'
    BY <1>2, <2>1 DEF IInv, TypeOK, QueueIsParked, FirstComeFirstServed, Granted
  <2> QED BY <2>2, <2>3, <2>4, <2>5 DEF IInv
<1>3. CASE ~Spent(c) /\ queue # {}
  <2>1. PICK n \in queue :
          /\ NextInLine(n)
          /\ queue' = queue \ {n}
          /\ status' = [[status EXCEPT ![c] = s] EXCEPT
                          ![n] = IF n \in Bounded THEN "handed" ELSE "resuming"]
    BY <1>3 DEF ReleaseFrom
  <2>2. released' = released \cup {c} /\ held' = TRUE
    BY <1>3 DEF ReleaseFrom, KeyAfterRelease
  <2>3. n \in Calls /\ n # c /\ status[n] = "parked" /\ n \notin released
    BY DEF IInv, TypeOK, QueueIsParked, ReleasedWereGranted
  <2>4. /\ status'[c] = s
        /\ status'[n] \in {"handed", "resuming"}
        /\ \A d \in Calls \ {c, n} : status'[d] = status[d]
        /\ status' \in [Calls -> Statuses]
    BY <2>1, <2>3 DEF IInv, TypeOK, Statuses
  <2>5. TypeOK'
    BY <2>1, <2>2, <2>4 DEF IInv, TypeOK
  <2>6. QueueIsParked' /\ ReleasedWereGranted' /\ Numbered'
    BY <2>1, <2>2, <2>3, <2>4
       DEF IInv, TypeOK, QueueIsParked, ReleasedWereGranted, Numbered
  <2>7. HeldByOne'
    BY <1>3, <2>2, <2>3, <2>4 DEF Spent, IInv, TypeOK, HeldByOne, Granted
  <2>8. FirstComeFirstServed'
    <3> SUFFICES ASSUME NEW a \in Calls, NEW d \in Calls,
                        arrival[a] # 0, arrival[a] < arrival[d],
                        status'[d] \in Granted \cup {"ended"}, status'[a] = "parked"
                 PROVE  FALSE
      BY DEF FirstComeFirstServed
    <3>1. a \notin {c, n} /\ status[a] = "parked" /\ a \in queue
      BY <2>3, <2>4 DEF IInv, QueueIsParked
    <3>2. CASE d = n
      BY <2>1, <3>1, <3>2 DEF NextInLine, IInv, TypeOK
    <3>3. CASE d # n
      BY <2>3, <2>4, <3>1, <3>3 DEF IInv, FirstComeFirstServed, Granted
    <3> QED BY <3>2, <3>3
  <2> QED BY <2>5, <2>6, <2>7, <2>8 DEF IInv
<1> QED BY <1>1, <1>2, <1>3

LEMMA StepKeepsIInv == IInv /\ [Next]_vars => IInv'
<1> SUFFICES ASSUME IInv, [Next]_vars PROVE IInv'
  OBVIOUS
<1> USE BoundedAssumption, LateAssumption DEF IInv
<1>1. ASSUME NEW c \in Calls, AcquireFree(c) PROVE IInv'
  <2> USE <1>1 DEF AcquireFree, Arrive
  <2>1. TypeOK'
    BY DEF TypeOK, Statuses
  <2>2. QueueIsParked' /\ ReleasedWereGranted' /\ Numbered'
    BY DEF TypeOK, QueueIsParked, ReleasedWereGranted, Numbered
  <2>3. HeldByOne'
    BY DEF TypeOK, HeldByOne, Granted, ReleasedWereGranted
  <2>4. FirstComeFirstServed'
    BY DEF TypeOK, FirstComeFirstServed, Granted, QueueIsParked, Numbered
  <2> QED BY <2>1, <2>2, <2>3, <2>4
<1>2. ASSUME NEW c \in Calls, AcquireHeld(c) PROVE IInv'
  <2> USE <1>2 DEF AcquireHeld, Arrive, HasWait
  <2>1. TypeOK'
    BY DEF TypeOK, Statuses
  <2>2. QueueIsParked' /\ ReleasedWereGranted' /\ Numbered'
    BY DEF TypeOK, QueueIsParked, ReleasedWereGranted, Numbered
  <2>3. HeldByOne'
    BY DEF TypeOK, HeldByOne, Granted
  <2>4. FirstComeFirstServed'
    BY DEF TypeOK, FirstComeFirstServed, Granted, Numbered
  <2> QED BY <2>1, <2>2, <2>3, <2>4
<1>3. ASSUME NEW c \in Calls, EndTurn(c) PROVE IInv'
  BY <1>3, ReleaseKeepsIInv DEF EndTurn
<1>4. ASSUME NEW c \in Calls, GiveUp(c) PROVE IInv'
  <2> USE <1>4 DEF GiveUp, HasWait
  <2>1. TypeOK'
    BY DEF TypeOK, Statuses
  <2>2. QueueIsParked' /\ ReleasedWereGranted' /\ Numbered'
    BY DEF TypeOK, QueueIsParked, ReleasedWereGranted, Numbered
  <2>3. HeldByOne' /\ FirstComeFirstServed'
    BY DEF TypeOK, HeldByOne, Granted, FirstComeFirstServed
  <2> QED BY <2>1, <2>2, <2>3
<1>5. ASSUME NEW c \in Calls, GiveUpLate(c) PROVE IInv'
  BY <1>5 DEF GiveUpLate, TypeOK, QueueIsParked, ReleasedWereGranted, Numbered,
              HeldByOne, FirstComeFirstServed
<1>6. ASSUME NEW c \in Calls, React(c) PROVE IInv'
  <2>1. CASE HandsBack(c)
    BY <1>6, <2>1, ReleaseKeepsIInv DEF React
  <2>2. CASE ~HandsBack(c)
    <3>1. /\ status[c] = "handed"
          /\ status' = [status EXCEPT ![c] = "resuming"]
          /\ UNCHANGED <<held, queue, released, arrival, arrivals, gaveUp>>
      BY <1>6, <2>2 DEF React
    <3>2. TypeOK' /\ QueueIsParked' /\ ReleasedWereGranted' /\ Numbered'
      BY <3>1 DEF TypeOK, Statuses, QueueIsParked, ReleasedWereGranted, Numbered
    <3>3. HeldByOne' /\ FirstComeFirstServed'
      BY <3>1 DEF TypeOK, HeldByOne, Granted, FirstComeFirstServed
    <3> QED BY <3>2, <3>3
  <2> QED BY <2>1, <2>2
<1>7. ASSUME NEW c \in Calls, Resume(c) PROVE IInv'
  <2> USE <1>7 DEF Resume
  <2>1. TypeOK' /\ QueueIsParked' /\ ReleasedWereGranted' /\ Numbered'
    BY DEF TypeOK, Statuses, QueueIsParked, ReleasedWereGranted, Numbered
  <2>2. HeldByOne' /\ FirstComeFirstServed'
    BY DEF TypeOK, HeldByOne, Granted, FirstComeFirstServed
  <2> QED BY <2>1, <2>2
<1>8. CASE UNCHANGED vars
  BY <1>8 DEF vars, TypeOK, QueueIsParked, ReleasedWereGranted, Numbered,
              HeldByOne, FirstComeFirstServed
<1> QED BY <1>1, <1>2, <1>3, <1>4, <1>5, <1>6, <1>7, <1>8 DEF Next

LEMMA IInvHolds == Spec => []IInv
<1>1. Init => IInv
  BY InitIInv
<1> QED BY <1>1, StepKeepsIInv, PTL DEF Spec

-----------------------------------------------------------------------------

\* Every variable keeps its shape.
THEOREM LocksTypeCorrect == Spec => []TypeOK
<1>1. IInv => TypeOK
  BY DEF IInv
<1> QED BY <1>1, IInvHolds, PTL

\* The key is in the map exactly while one call owes its release: whatever is
\* aborted and whenever, buildRelease neither strands a key nor frees it under
\* a holder.
THEOREM KeyNeverStrands == Spec => []HeldByOne
<1>1. IInv => HeldByOne
  BY DEF IInv
<1> QED BY <1>1, IInvHolds, PTL

\* The array is served from its head, so a waiter is overtaken by nobody.
THEOREM NobodyOvertakes == Spec => []FirstComeFirstServed
<1>1. IInv => FirstComeFirstServed
  BY DEF IInv
<1> QED BY <1>1, IInvHolds, PTL

\* What a release does to the statuses: the caller moves on, and at most one
\* parked call is handed the lock.
LEMMA ReleaseMoves ==
  ASSUME IInv, SpentInTime, NEW c \in Calls, NEW s \in {"resuming", "ended"},
         s = "resuming" => c \in LateAborters,
         status[c] \notin {"idle", "parked", "refusing", "refused"},
         ReleaseFrom(c, [status EXCEPT ![c] = s]), UNCHANGED gaveUp
  PROVE  /\ SpentInTime'
         /\ status'[c] = s
         /\ \A d \in Calls \ {c} :
               \/ status'[d] = status[d]
               \/ status[d] = "parked" /\ status'[d] \in {"handed", "resuming"}
<1> USE BoundedAssumption, LateAssumption DEF IInv, TypeOK, SpentInTime
<1>1. CASE Spent(c) \/ queue = {}
  <2>1. /\ status' = [status EXCEPT ![c] = s]
        /\ released' \subseteq released \cup {c}
    BY <1>1 DEF ReleaseFrom
  <2> QED BY <2>1
<1>2. CASE ~Spent(c) /\ queue # {}
  <2>1. PICK n \in queue :
          status' = [[status EXCEPT ![c] = s] EXCEPT
                        ![n] = IF n \in Bounded THEN "handed" ELSE "resuming"]
    BY <1>2 DEF ReleaseFrom
  <2>2. released' = released \cup {c}
    BY <1>2 DEF ReleaseFrom
  <2>3. n \in Calls /\ n # c /\ status[n] = "parked"
    BY DEF QueueIsParked
  <2>4. /\ status'[c] = s
        /\ status'[n] \in {"handed", "resuming"}
        /\ \A d \in Calls \ {c, n} : status'[d] = status[d]
    BY <2>1, <2>3
  <2> QED BY <2>2, <2>3, <2>4
<1> QED BY <1>1, <1>2

LEMMA StepSpentInTime ==
  IInv /\ SpentInTime /\ [Next]_vars => SpentInTime'
<1> SUFFICES ASSUME IInv, SpentInTime, [Next]_vars
             PROVE  SpentInTime'
  OBVIOUS
<1> USE BoundedAssumption, LateAssumption DEF IInv, TypeOK, SpentInTime
<1>1. ASSUME NEW c \in Calls, AcquireFree(c) \/ AcquireHeld(c) PROVE SpentInTime'
  BY <1>1 DEF AcquireFree, AcquireHeld, Arrive, ReleasedWereGranted
<1>2. ASSUME NEW c \in Calls, EndTurn(c) PROVE SpentInTime'
  BY <1>2, ReleaseMoves DEF EndTurn
<1>3. ASSUME NEW c \in Calls, GiveUp(c) \/ GiveUpLate(c) PROVE SpentInTime'
  BY <1>3 DEF GiveUp, GiveUpLate, HasWait
<1>4. ASSUME NEW c \in Calls, React(c) PROVE SpentInTime'
  <2>1. CASE HandsBack(c)
    BY <1>4, <2>1, ReleaseMoves DEF React, HandsBack
  <2>2. CASE ~HandsBack(c)
    BY <1>4, <2>2 DEF React, HandsBack
  <2> QED BY <2>1, <2>2
<1>5. ASSUME NEW c \in Calls, Resume(c) PROVE SpentInTime'
  BY <1>5 DEF Resume, ReleasedWereGranted
<1>6. CASE UNCHANGED vars
  BY <1>6 DEF vars
<1> QED BY <1>1, <1>2, <1>3, <1>4, <1>5, <1>6 DEF Next

LEMMA SpentInTimeHolds == Spec => [](IInv /\ SpentInTime)
<1>1. Init => IInv /\ SpentInTime
  BY InitIInv
<1>2. IInv /\ SpentInTime /\ [Next]_vars => (IInv /\ SpentInTime)'
  BY StepKeepsIInv, StepSpentInTime
<1> QED BY <1>1, <1>2, PTL DEF Spec

\* Two turns overlap only if one of them is a late aborter's.
OthersRunAlone ==
    \A c, d \in Calls \ LateAborters :
        status[c] = "running" /\ status[d] = "running" => c = d

\* Whoever aborts, and however late, the callers that do not abort late exclude
\* one another: the spent release of a late aborter frees no key of theirs.
THEOREM LateAbortersHarmNoOthers == Spec => []OthersRunAlone
<1>1. IInv /\ SpentInTime => OthersRunAlone
  BY DEF IInv, SpentInTime, HeldByOne, Granted, OthersRunAlone
<1> QED BY <1>1, SpentInTimeHolds, PTL

\* If nobody aborts between a hand-over and its reactions, a resumed caller of
\* `acquire' has the lock to itself.
THEOREM CallersRunAlone ==
  ASSUME LateAborters = {}
  PROVE  Spec => []OneTurnAtATime
<1>1. OthersRunAlone => OneTurnAtATime
  BY DEF OthersRunAlone, OneTurnAtATime
<1> QED BY <1>1, LateAbortersHarmNoOthers, PTL

\* Every step of the lock is a step of TurnMutex or invisible to it, where late
\* aborters are left out.
LEMMA StepKeepsPromise ==
  ASSUME IInv, SpentInTime, [Next]_vars
  PROVE  [Promise!Next]_(Promise!vars)
<1> USE BoundedAssumption DEF IInv, TypeOK, SpentInTime, InTime, Promise!vars
<1>1. ASSUME NEW c \in Calls, AcquireFree(c) \/ AcquireHeld(c)
      PROVE  [Promise!Next]_(Promise!vars)
  <2>1. status[c] = "idle"
    BY <1>1 DEF AcquireFree, AcquireHeld, Arrive
  <2>2. PICK s \in {"resuming", "parked", "refusing"} : status' = [status EXCEPT ![c] = s]
    BY <1>1 DEF AcquireFree, AcquireHeld
  <2>3. CASE c \in LateAborters
    BY <2>1, <2>2, <2>3
  <2>4. CASE c \notin LateAborters
    <3>1. Promise!Ask(c)
      BY <2>1, <2>2, <2>4 DEF Promise!Ask
    <3> QED BY <2>4, <3>1 DEF Promise!Next
  <2> QED BY <2>3, <2>4
<1>2. ASSUME NEW c \in Calls, EndTurn(c) PROVE [Promise!Next]_(Promise!vars)
  <2>1. /\ status[c] = "running"
        /\ status'[c] = "ended"
        /\ \A d \in Calls \ {c} :
              \/ status'[d] = status[d]
              \/ status[d] = "parked" /\ status'[d] \in {"handed", "resuming"}
    BY <1>2, ReleaseMoves DEF EndTurn
  <2>2. CASE c \in LateAborters
    BY <2>1, <2>2
  <2>3. CASE c \notin LateAborters
    <3>1. Promise!Finish(c)
      BY <2>1, <2>3 DEF Promise!Finish
    <3> QED BY <2>3, <3>1 DEF Promise!Next
  <2> QED BY <2>2, <2>3
<1>3. ASSUME NEW c \in Calls, GiveUp(c) \/ GiveUpLate(c) PROVE UNCHANGED Promise!vars
  BY <1>3 DEF GiveUp, GiveUpLate
<1>4. ASSUME NEW c \in Calls, React(c) PROVE UNCHANGED Promise!vars
  <2>1. CASE HandsBack(c)
    <3>1. status[c] = "handed" /\ c \in LateAborters
      BY <1>4, <2>1 DEF React, HandsBack
    <3>2. /\ status'[c] = "resuming"
          /\ \A d \in Calls \ {c} :
                \/ status'[d] = status[d]
                \/ status[d] = "parked" /\ status'[d] \in {"handed", "resuming"}
      BY <1>4, <2>1, <3>1, ReleaseMoves DEF React
    <3> QED BY <3>1, <3>2
  <2>2. CASE ~HandsBack(c)
    BY <1>4, <2>2 DEF React
  <2> QED BY <2>1, <2>2
<1>5. ASSUME NEW c \in Calls, Resume(c) PROVE [Promise!Next]_(Promise!vars)
  <2>1. CASE c \in LateAborters
    BY <1>5, <2>1 DEF Resume
  <2>2. CASE c \notin LateAborters /\ status[c] = "resuming"
    <3>1. status' = [status EXCEPT ![c] = "running"]
      BY <1>5, <2>2 DEF Resume
    <3>2. c \notin released
      BY <2>2
    <3>3. \A d \in Calls \ LateAborters : status[d] = "running" => d \notin released
      OBVIOUS
    <3>4. \A d \in Calls \ LateAborters : status[d] # "running"
      BY <2>2, <3>2, <3>3 DEF HeldByOne, Granted
    <3>5. Promise!Admit(c)
      BY <2>2, <3>1, <3>4 DEF Promise!Admit
    <3> QED BY <2>2, <3>5 DEF Promise!Next
  <2>3. CASE c \notin LateAborters /\ status[c] = "refusing"
    <3>1. status' = [status EXCEPT ![c] = "refused"]
      BY <1>5, <2>3 DEF Resume
    <3>2. Promise!Refuse(c)
      BY <2>3, <3>1 DEF Promise!Refuse
    <3> QED BY <2>3, <3>2 DEF Promise!Next
  <2> QED BY <1>5, <2>1, <2>2, <2>3 DEF Resume
<1>6. CASE UNCHANGED vars
  BY <1>6 DEF vars
<1> QED BY <1>1, <1>2, <1>3, <1>4, <1>5, <1>6 DEF Next

\* The lock implements TurnMutex for every caller that does not abort between its
\* hand-over and the reactions, whatever other callers do: admitted alone among
\* these or refused, never both.
THEOREM LocksKeepPromise == Spec => KeepsPromise
<1>1. Init => Promise!Init
  BY DEF Init, InTime, Promise!Init
<1>2. IInv /\ SpentInTime /\ [Next]_vars => [Promise!Next]_(Promise!vars)
  BY StepKeepsPromise
<1> QED BY <1>1, <1>2, SpentInTimeHolds, PTL DEF Spec, KeepsPromise, Promise!Spec

=============================================================================
