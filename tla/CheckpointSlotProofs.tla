------------------------ MODULE CheckpointSlotProofs ------------------------
(***************************************************************************)
(* For any cap, any number of attempts, requests, turns, checkpoints and   *)
(* crashes: a follow-up that waits for its claim owns the step it was      *)
(* handed, a step that a turn found pending when it was composed is not    *)
(* lost unsaid, and the guard against a run-away conversation holds until  *)
(* a job's turn is retried. Two facts carry the rest: the queue never runs out of rows,    *)
(* and the step in the slot is handed to at most one of them. Last, from   *)
(* LeaseSweep: which claims a sweep spares.                                *)
(***************************************************************************)
EXTENDS CheckpointSlot, LeaseSweep, FiniteSetTheorems, TLAPS

\* The steps that a row was enqueued for.
Handed == {s \in 1..events.steps : \E j \in JobIds : jobs[j].step = s}

\* So many rows exist: one for each request and one for each step handed over.
RowCount == events.requests + Cardinality(Handed)

\* Rows are numbered in the order in which they were enqueued.
RowsAreNumbered ==
    \A j \in JobIds :
        /\ jobs[j].status = "absent" <=> j > RowCount
        /\ jobs[j].status = "absent" => jobs[j] = NoJob
        /\ jobs[j].step <= events.steps

\* What is in the slot is open. It has a row only when the slot says so, and
\* that row has not begun.
SlotIsOpen ==
    /\ slot.step # 0 => fate[slot.step] = "open" /\ slot.step <= events.steps
    /\ Pending => slot.step \notin Handed
    /\ slot.job # 0 => /\ jobs[slot.job].step = slot.step
                       /\ jobs[slot.job].status # "absent"
                       /\ ~jobs[slot.job].taken

\* A job's turn has its row, which only a note gets back while the turn runs.
JobTurnsHaveRows ==
    /\ turn.kind \in {"job", "following"} => turn.job \in JobIds
    /\ turn.kind = "job" =>
          jobs[turn.job].status \in {"claimed", "settled"} \/ jobs[turn.job].kind = "note"

\* A follow-up is no note; one that took its step begins again only for another
\* attempt.
FollowUpsBeginOnce ==
    \A j \in JobIds :
        /\ jobs[j].step # 0 => jobs[j].kind = "task"
        /\ jobs[j].taken => jobs[j].step # 0
        /\ jobs[j].taken /\ jobs[j].attempts = 0 =>
              /\ jobs[j].status # "pending"
              /\ turn.kind = "job" /\ turn.job = j => turn.begun

NoRetries == \A j \in JobIds : jobs[j].attempts = 0

\* Until a turn is retried, the depth counts what has been granted.
DepthCountsGrants == NoRetries => granted <= depth

IInv ==
    /\ TypeOK /\ RowsAreNumbered /\ SlotIsOpen /\ JobTurnsHaveRows
    /\ FollowUpsBeginOnce /\ DepthCountsGrants /\ QueuedFollowUpOwnsItsStep

USE CheckpointBoundsAssumption

-----------------------------------------------------------------------------
\* The queue's rows

LEMMA StepsAreCounted ==
    ASSUME NEW n \in Nat
    PROVE  IsFiniteSet(1..n) /\ Cardinality(1..n) = n
<1>1. IsFiniteSet(1..n) /\ Cardinality(1..n) = IF 1 > n THEN 0 ELSE n - 1 + 1
  BY FS_Interval
<1> QED
  BY <1>1

\* The handed steps are among those that exist.
LEMMA HandedIsFinite ==
    ASSUME TypeOK
    PROVE  /\ IsFiniteSet(Handed) /\ Cardinality(Handed) \in Nat
           /\ Cardinality(Handed) <= events.steps
<1>1. events.steps \in Nat
  BY DEF TypeOK
<1>2. IsFiniteSet(1..events.steps) /\ Cardinality(1..events.steps) = events.steps
  BY <1>1, StepsAreCounted
<1>3. Handed \subseteq 1..events.steps
  BY DEF Handed
<1>4. IsFiniteSet(Handed) /\ Cardinality(Handed) <= events.steps
  BY <1>2, <1>3, FS_Subset
<1> QED
  BY <1>4, FS_CardinalityType

\* The next row is the one after the last, as long as the bounds leave one.
LEMMA NextRow ==
    ASSUME IInv, RowCount < MaxRequests + MaxSteps
    PROVE  /\ NextJob = RowCount + 1 /\ NextJob \in JobIds
           /\ jobs[NextJob] = NoJob
<1> USE DEF IInv
<1>1. RowCount \in Nat
  BY HandedIsFinite DEF RowCount, TypeOK
<1>2. RowCount + 1 \in JobIds /\ JobIds \subseteq Nat
  BY <1>1 DEF JobIds
<1> DEFINE Lowest(j) == /\ jobs[j].status = "absent"
                        /\ \A i \in JobIds : i < j => jobs[i].status # "absent"
<1>3. Lowest(RowCount + 1)
  <2>1. \A j \in JobIds : jobs[j].status = "absent" <=> j > RowCount
    BY DEF RowsAreNumbered
  <2>2. jobs[RowCount + 1].status = "absent"
    BY <1>1, <1>2, <2>1
  <2>3. ASSUME NEW i \in JobIds, i < RowCount + 1 PROVE jobs[i].status # "absent"
    <3>1. i \in Nat /\ ~(i > RowCount)
      BY <1>1, <1>2, <2>3
    <3> QED
      BY <2>1, <3>1
  <2> QED
    BY <2>2, <2>3
<1>4. \A j \in JobIds : Lowest(j) => j = RowCount + 1
  BY <1>1, <1>2, <1>3 DEF RowsAreNumbered
<1>5. NextJob = CHOOSE j \in JobIds : Lowest(j)
  BY DEF NextJob
<1> HIDE DEF Lowest
<1>6. NextJob \in JobIds /\ Lowest(NextJob)
  BY <1>2, <1>3, <1>5
<1>7. NextJob = RowCount + 1
  BY <1>4, <1>6
<1>8. jobs[NextJob].status = "absent"
  BY <1>6 DEF Lowest
<1> QED
  BY <1>6, <1>7, <1>8 DEF RowsAreNumbered

\* A follow-up of the step that the row stands for has not begun.
Waiting(j) == /\ jobs[j].status \in {"pending", "claimed"}
              /\ jobs[j].step # 0 /\ ~jobs[j].taken

\* No row comes or goes; no row starts to wait.
SameRows ==
    /\ events'.steps = events.steps /\ events'.requests = events.requests
    /\ \A j \in JobIds :
          /\ jobs'[j].step = jobs[j].step /\ jobs'[j].kind = jobs[j].kind
          /\ jobs'[j].status = "absent" <=> jobs[j].status = "absent"
          /\ jobs'[j].status = "absent" => jobs'[j] = jobs[j]
          /\ Waiting(j)' => Waiting(j)

\* The slot stays as it is, or what is in it is given up or taken, and no row
\* waits for it.
SlotKeptOrCleared ==
    \/ KeepSlot /\ \A j \in JobIds : jobs'[j].taken = jobs[j].taken
    \/ /\ slot.step # 0
       /\ \E end \in {"continued", "dropped"} : Consume(end)
       /\ \A j \in JobIds : slot.job = j => ~Waiting(j)'

LEMMA SameRowsKeepNumbers ==
    ASSUME IInv, SameRows
    PROVE  RowsAreNumbered' /\ Handed' = Handed
<1> USE DEF IInv
<1>1. Handed' = Handed
  BY DEF SameRows, Handed
<1>2. RowCount' = RowCount
  BY <1>1 DEF RowCount, SameRows
<1> QED
  BY <1>1, <1>2 DEF RowsAreNumbered, SameRows

\* Clearing the slot, or leaving it alone, keeps every step with one taker.
LEMMA SlotStep ==
    ASSUME IInv, SameRows, SlotKeptOrCleared
    PROVE  /\ SlotIsOpen' /\ QueuedFollowUpOwnsItsStep'
           /\ slot' \in [step : {0} \cup Steps, job : {0} \cup JobIds]
           /\ (slot.job # 0 => slot.step # 0)'
           /\ fate' \in [Steps -> Fates]
<1> USE DEF IInv
<1>1. Handed' = Handed
  BY SameRowsKeepNumbers
<1>2. CASE KeepSlot /\ \A j \in JobIds : jobs'[j].taken = jobs[j].taken
  <2>1. slot' = slot /\ fate' = fate
    BY <1>2 DEF KeepSlot
  <2>2. SlotIsOpen'
    BY <1>1, <1>2, <2>1 DEF SlotIsOpen, Pending, SameRows, TypeOK
  <2>3. QueuedFollowUpOwnsItsStep'
    BY <2>1 DEF QueuedFollowUpOwnsItsStep, SameRows, Waiting
  <2> QED
    BY <2>1, <2>2, <2>3 DEF TypeOK
<1>3. CASE /\ slot.step # 0
           /\ \E end \in {"continued", "dropped"} : Consume(end)
           /\ \A j \in JobIds : slot.job = j => ~Waiting(j)'
  <2>1. PICK end \in {"continued", "dropped"} :
            slot' = Empty /\ fate' = [fate EXCEPT ![slot.step] = end]
    BY <1>3 DEF Consume
  <2>2. slot'.step = 0 /\ slot'.job = 0
    BY <2>1 DEF Empty
  <2>3. SlotIsOpen'
    BY <2>2 DEF SlotIsOpen, Pending
  <2>4. QueuedFollowUpOwnsItsStep'
    <3> SUFFICES ASSUME NEW j \in JobIds, Waiting(j)' PROVE fate'[jobs'[j].step] = "carried"
      BY DEF QueuedFollowUpOwnsItsStep, Waiting
    <3>1. Waiting(j) /\ slot.job # j /\ jobs'[j].step = jobs[j].step
      BY <1>3 DEF SameRows
    <3>2. fate[jobs[j].step] = "carried" /\ jobs[j].step \in Steps
      BY <3>1 DEF QueuedFollowUpOwnsItsStep, Waiting, TypeOK
    <3>3. jobs[j].step # slot.step
      BY <1>3, <3>2 DEF SlotIsOpen
    <3> QED
      BY <2>1, <3>1, <3>2, <3>3 DEF TypeOK
  <2> QED
    BY <2>1, <2>2, <2>3, <2>4 DEF TypeOK, Fates, Empty
<1> QED
  BY <1>2, <1>3 DEF SlotKeptOrCleared

-----------------------------------------------------------------------------
\* The shapes of what a step of the slot's owner leaves to the others.
ComposedTyped == /\ since \in 0..MaxSteps
                 /\ queued \subseteq [turn : 1..MaxTurns, since : 0..MaxSteps]
                 /\ survivor \in {0} \cup Steps

RestTyped ==
    /\ depth \in 0..Cap
    /\ jobs \in [JobIds -> [status : JobStatuses, kind : JobKinds, attempts : 0..(MaxAttempts - 1),
                            step : {0} \cup Steps, taken : BOOLEAN]]
    /\ turn \in [kind : TurnKinds, job : {0} \cup JobIds, begun : BOOLEAN, stopped : BOOLEAN]
    /\ ComposedTyped
    /\ granted \in Nat
    /\ halted \subseteq Steps
    /\ events \in [steps : 0..MaxSteps, requests : 0..MaxRequests, turns : 0..MaxTurns,
                   crashes : 0..MaxCrashes]

TurnShapes == [kind : TurnKinds, job : {0} \cup JobIds, begun : BOOLEAN, stopped : BOOLEAN]
RowShapes == [status : JobStatuses, kind : JobKinds, attempts : 0..(MaxAttempts - 1),
              step : {0} \cup Steps, taken : BOOLEAN]

LEMMA TurnStartsTypes ==
    ASSUME TypeOK, NEW kind \in TurnKinds, NEW j \in {0} \cup JobIds, NEW s \in 0..MaxSteps,
           TurnStarts(kind, j, s), queued' \subseteq queued
    PROVE  turn' \in TurnShapes /\ ComposedTyped'
<1>1. turn' = [kind |-> kind, job |-> j, begun |-> (kind # "job"), stopped |-> FALSE]
  BY DEF TurnStarts, NoTurn
<1>2. (kind # "job") \in BOOLEAN /\ FALSE \in BOOLEAN
  OBVIOUS
<1>3. turn' \in TurnShapes
  BY <1>1, <1>2, Zenon DEF TurnShapes
<1>4. since' = s /\ survivor' \in {0, slot.step}
  BY DEF TurnStarts
<1>5. slot.step \in {0} \cup Steps /\ queued \subseteq [turn : 1..MaxTurns, since : 0..MaxSteps]
  BY DEF TypeOK
<1> QED
  BY <1>3, <1>4, <1>5 DEF ComposedTyped

\* The conversation's lock is free again; a crash also takes the turns in its queue.
LEMMA TurnIsOverTypes ==
    ASSUME TypeOK, TurnIsOver \/ (LockReleased /\ queued' = {})
    PROVE  turn' \in TurnShapes /\ ComposedTyped'
<1>1. NoTurn \in TurnShapes
  BY DEF NoTurn, TurnKinds, TurnShapes
<1>2. since' = 0 /\ survivor' = 0 /\ queued' \subseteq queued
  BY DEF TurnIsOver, LockReleased
<1> QED
  BY <1>1, <1>2 DEF TurnIsOver, LockReleased, ComposedTyped, TypeOK

LEMMA ComposedIsTyped == ASSUME TypeOK, UNCHANGED composed PROVE ComposedTyped'
  BY DEF TypeOK, ComposedTyped, composed

LEMMA TurnCounted ==
    ASSUME TypeOK, events.turns < MaxTurns, events' = [events EXCEPT !.turns = @ + 1]
    PROVE  /\ events' \in [steps : 0..MaxSteps, requests : 0..MaxRequests, turns : 0..MaxTurns,
                           crashes : 0..MaxCrashes]
           /\ events'.steps = events.steps /\ events'.requests = events.requests
<1>1. events \in [steps : 0..MaxSteps, requests : 0..MaxRequests, turns : 0..MaxTurns,
                  crashes : 0..MaxCrashes]
  BY DEF TypeOK
<1>2. events.turns + 1 \in 0..MaxTurns
  BY <1>1
<1> QED
  BY <1>1, <1>2

\* A step that enqueues nothing and leaves no step.
LEMMA StepOverSameRows ==
    ASSUME IInv, SameRows, SlotKeptOrCleared, RestTyped',
           JobTurnsHaveRows', FollowUpsBeginOnce', DepthCountsGrants'
    PROVE  IInv'
<1>1. TypeOK'
  BY SlotStep DEF RestTyped, ComposedTyped, TypeOK
<1> QED
  BY <1>1, SlotStep, SameRowsKeepNumbers DEF IInv

LEMMA UnchangedRows ==
    ASSUME UNCHANGED jobs, events'.steps = events.steps, events'.requests = events.requests
    PROVE  SameRows /\ \A j \in JobIds : jobs'[j].taken = jobs[j].taken
  BY DEF SameRows, Waiting

\* A pending step may be given up: no row waits for it.
LEMMA PendingIsUnclaimed ==
    ASSUME IInv, UNCHANGED jobs,
           KeepSlot \/ (Pending /\ \E end \in {"continued", "dropped"} : Consume(end))
    PROVE  SlotKeptOrCleared
  BY DEF SlotKeptOrCleared, Pending, JobIds

LEMMA UserTurnComposesKeeps == ASSUME IInv, UserTurnComposes PROVE IInv'
<1> USE DEF IInv
<1> DEFINE ev == [steps : 0..MaxSteps, requests : 0..MaxRequests, turns : 0..MaxTurns,
                  crashes : 0..MaxCrashes]
<1>1. /\ events' \in ev /\ events'.steps = events.steps /\ events'.requests = events.requests
  BY TurnCounted DEF UserTurnComposes
<1>2. SameRows /\ SlotKeptOrCleared
  BY <1>1, UnchangedRows, PendingIsUnclaimed DEF UserTurnComposes
<1>3. RestTyped'
  <2>1. events \in ev
    BY DEF TypeOK
  <2>2. events.turns + 1 \in 1..MaxTurns /\ events.steps \in 0..MaxSteps
    BY <2>1 DEF UserTurnComposes
  <2>3. ComposedTyped'
    BY <2>2 DEF UserTurnComposes, TypeOK, ComposedTyped
  <2>4. UNCHANGED <<depth, jobs, turn, granted, halted>>
    BY DEF UserTurnComposes
  <2> QED
    BY <1>1, <2>3, <2>4 DEF TypeOK, RestTyped
<1>4. JobTurnsHaveRows' /\ FollowUpsBeginOnce' /\ DepthCountsGrants'
  BY DEF UserTurnComposes, JobTurnsHaveRows, FollowUpsBeginOnce, DepthCountsGrants, NoRetries
<1> QED
  BY <1>2, <1>3, <1>4, StepOverSameRows

LEMMA UserTurnBeginsKeeps == ASSUME IInv, UserTurnBegins PROVE IInv'
<1> USE DEF IInv
<1>1. PICK t \in queued : TurnStarts("user", 0, t.since) /\ queued' = queued \ {t}
  BY DEF UserTurnBegins
<1>2. SameRows /\ SlotKeptOrCleared
  BY UnchangedRows, PendingIsUnclaimed DEF UserTurnBegins
<1>3. RestTyped'
  <2>1. t.since \in 0..MaxSteps /\ queued' \subseteq queued
    BY <1>1 DEF TypeOK
  <2>2. turn' \in TurnShapes /\ ComposedTyped'
    BY <1>1, <2>1, TurnStartsTypes DEF TurnKinds
  <2> QED
    BY <2>2 DEF UserTurnBegins, TypeOK, RestTyped, TurnShapes
<1>4. JobTurnsHaveRows' /\ FollowUpsBeginOnce'
  BY <1>1 DEF UserTurnBegins, TurnStarts, NoTurn, JobTurnsHaveRows, FollowUpsBeginOnce
<1>5. DepthCountsGrants'
  BY DEF UserTurnBegins, DepthCountsGrants
<1> QED
  BY <1>2, <1>3, <1>4, <1>5, StepOverSameRows

LEMMA UserTurnContinuesKeeps == ASSUME IInv, UserTurnContinues PROVE IInv'
<1> USE DEF IInv
<1>1. SameRows /\ SlotKeptOrCleared
  BY UnchangedRows, PendingIsUnclaimed DEF UserTurnContinues
<1>2. RestTyped'
  BY ComposedIsTyped DEF UserTurnContinues, WithinCap, TypeOK, RestTyped
<1>3. JobTurnsHaveRows' /\ FollowUpsBeginOnce'
  BY DEF UserTurnContinues, JobTurnsHaveRows, FollowUpsBeginOnce
<1>4. DepthCountsGrants'
  BY DEF UserTurnContinues, DepthCountsGrants, NoRetries, TypeOK
<1> QED
  BY <1>1, <1>2, <1>3, <1>4, StepOverSameRows

\* What a user's turn and a delivery have in common when they end.
LEMMA TurnEndsKeep ==
    ASSUME IInv, TurnIsOver, UNCHANGED <<depth, jobs, granted, halted, events>>,
           NEW cond \in BOOLEAN, cond => Pending, DropIf(cond)
    PROVE  IInv'
<1> USE DEF IInv
<1>1. SameRows /\ SlotKeptOrCleared
  BY UnchangedRows, PendingIsUnclaimed DEF DropIf
<1>2. RestTyped'
  BY TurnIsOverTypes DEF TypeOK, RestTyped, TurnShapes
<1>3. JobTurnsHaveRows' /\ FollowUpsBeginOnce'
  BY DEF TurnIsOver, LockReleased, NoTurn, JobTurnsHaveRows, FollowUpsBeginOnce
<1>4. DepthCountsGrants'
  BY DEF DepthCountsGrants, NoRetries
<1> QED
  BY <1>1, <1>2, <1>3, <1>4, StepOverSameRows

LEMMA UserTurnEndsKeeps == ASSUME IInv, UserTurnEnds PROVE IInv'
  BY TurnEndsKeep DEF UserTurnEnds, Pending

LEMMA DeliveryEndsKeeps == ASSUME IInv, DeliveryEnds PROVE IInv'
  BY TurnEndsKeep DEF DeliveryEnds, Pending, FromEarlierTurn

LEMMA DeliveryBeginsKeeps == ASSUME IInv, DeliveryBegins PROVE IInv'
<1> USE DEF IInv
<1>1. SameRows /\ SlotKeptOrCleared
  <2>1. UNCHANGED jobs /\ events'.steps = events.steps /\ events'.requests = events.requests
    BY DEF DeliveryBegins, TypeOK
  <2> QED
    BY <2>1, UnchangedRows, PendingIsUnclaimed DEF DeliveryBegins
<1>2. RestTyped'
  <2>1. turn' \in TurnShapes /\ ComposedTyped'
    BY TurnStartsTypes DEF DeliveryBegins, TurnKinds, TypeOK
  <2> QED
    BY <2>1, TurnCounted DEF DeliveryBegins, TypeOK, RestTyped, TurnShapes
<1>3. JobTurnsHaveRows' /\ FollowUpsBeginOnce'
  BY DEF DeliveryBegins, TurnStarts, NoTurn, JobTurnsHaveRows, FollowUpsBeginOnce
<1>4. DepthCountsGrants'
  BY DEF DeliveryBegins, DepthCountsGrants, NoRetries
<1> QED
  BY <1>1, <1>2, <1>3, <1>4, StepOverSameRows

-----------------------------------------------------------------------------
\* Jobs

LEMMA ClaimKeeps == ASSUME IInv, NEW j \in JobIds, Claim(j) PROVE IInv'
<1> USE DEF IInv
<1>1. SameRows /\ SlotKeptOrCleared
  BY DEF Claim, TypeOK, SameRows, Waiting, SlotKeptOrCleared, JobStatuses
<1>2. RestTyped'
  <2>1. turn' \in TurnShapes /\ ComposedTyped'
    BY TurnStartsTypes DEF Claim, TurnKinds, TypeOK
  <2>2. jobs' \in [JobIds -> RowShapes]
    BY DEF Claim, TypeOK, RowShapes, JobStatuses
  <2> QED
    BY <2>1, <2>2 DEF Claim, TypeOK, RestTyped, TurnShapes, RowShapes
<1>3. JobTurnsHaveRows' /\ FollowUpsBeginOnce'
  BY DEF Claim, TurnStarts, NoTurn, JobTurnsHaveRows, FollowUpsBeginOnce, TypeOK
<1>4. DepthCountsGrants'
  BY DEF Claim, DepthCountsGrants, NoRetries, TypeOK
<1> QED
  BY <1>1, <1>2, <1>3, <1>4, StepOverSameRows

LEMMA BeginJobKeeps == ASSUME IInv, BeginJob PROVE IInv'
<1> USE DEF IInv
<1>0. turn.kind = "job" /\ ~turn.begun /\ turn.job \in JobIds /\ turn.job # 0
  BY DEF BeginJob, JobTurnsHaveRows, JobIds
<1>1. CASE /\ slot.job = turn.job
           /\ Consume("continued")
           /\ jobs' = [jobs EXCEPT ![turn.job].taken = TRUE]
           /\ UNCHANGED <<depth, granted>>
  <2>1. jobs[turn.job].status # "absent" /\ slot.step # 0
    BY <1>0, <1>1 DEF SlotIsOpen, TypeOK
  <2>2. /\ jobs'[turn.job] = [jobs[turn.job] EXCEPT !.taken = TRUE]
        /\ \A j \in JobIds \ {turn.job} : jobs'[j] = jobs[j]
    BY <1>0, <1>1 DEF TypeOK
  <2>3. SameRows
    BY <1>0, <2>1, <2>2 DEF TypeOK, SameRows, Waiting, BeginJob
  <2>4. SlotKeptOrCleared
    <3>1. jobs'[turn.job].taken
      BY <1>0, <2>2 DEF TypeOK
    <3>2. \A j \in JobIds : slot.job = j => ~Waiting(j)'
      BY <1>1, <3>1 DEF Waiting
    <3> QED
      BY <1>1, <2>1, <3>2 DEF SlotKeptOrCleared
  <2>5. RestTyped'
    <3>1. jobs' \in [JobIds -> RowShapes]
      <4>1. jobs \in [JobIds -> RowShapes]
        BY DEF TypeOK, RowShapes
      <4>2. [jobs[turn.job] EXCEPT !.taken = TRUE] \in RowShapes
        BY <1>0, <4>1 DEF RowShapes
      <4> QED
        BY <1>0, <1>1, <4>1, <4>2
    <3>2. turn' \in TurnShapes
      BY DEF BeginJob, TypeOK, TurnShapes
    <3> QED
      BY <1>1, <3>1, <3>2, ComposedIsTyped DEF BeginJob, TypeOK, RestTyped, TurnShapes, RowShapes
  <2>6. JobTurnsHaveRows' /\ FollowUpsBeginOnce'
    BY <1>0, <1>1 DEF BeginJob, JobTurnsHaveRows, FollowUpsBeginOnce, TypeOK, SlotIsOpen
  <2>7. DepthCountsGrants'
    BY <1>0, <1>1 DEF DepthCountsGrants, NoRetries, TypeOK
  <2> QED
    BY <2>3, <2>4, <2>5, <2>6, <2>7, StepOverSameRows
<1>2. CASE /\ slot.job # turn.job
           /\ depth' = 0
           /\ granted' = IF jobs[turn.job].taken THEN granted ELSE 0
           /\ DropIf(Pending)
           /\ UNCHANGED jobs
  <2>1. SameRows /\ SlotKeptOrCleared
    BY <1>2, UnchangedRows, PendingIsUnclaimed DEF BeginJob, DropIf
  <2>2. RestTyped'
    <3>1. turn' \in TurnShapes
      BY DEF BeginJob, TypeOK, TurnShapes
    <3>2. granted' \in Nat /\ depth' \in 0..Cap
      BY <1>2 DEF TypeOK
    <3> QED
      BY <1>2, <3>1, <3>2, ComposedIsTyped DEF BeginJob, TypeOK, RestTyped, TurnShapes
  <2>3. JobTurnsHaveRows' /\ FollowUpsBeginOnce'
    BY <1>0, <1>2 DEF BeginJob, JobTurnsHaveRows, FollowUpsBeginOnce, TypeOK
  <2>4. DepthCountsGrants'
    BY <1>0, <1>2 DEF DepthCountsGrants, NoRetries, TypeOK, FollowUpsBeginOnce
  <2> QED
    BY <2>1, <2>2, <2>3, <2>4, StepOverSameRows
<1> QED
  BY <1>1, <1>2 DEF BeginJob

\* Settling a row leaves the rest of it, and the other rows, alone.
LEMMA SettlingKeepsRows ==
    ASSUME IInv, NEW j \in JobIds, jobs[j].status # "absent", jobs' = Settled(j), UNCHANGED events
    PROVE  /\ SameRows /\ ~Waiting(j)'
           /\ jobs' \in [JobIds -> RowShapes]
           /\ \A i \in JobIds : /\ jobs'[i].taken = jobs[i].taken
                                /\ jobs'[i].attempts = jobs[i].attempts
                                /\ jobs'[i].status \in {jobs[i].status, "settled"}
<1> USE DEF IInv
<1>1. jobs \in [JobIds -> RowShapes]
  BY DEF TypeOK, RowShapes
<1>2. /\ jobs'[j] = [jobs[j] EXCEPT !.status = "settled"]
      /\ \A i \in JobIds \ {j} : jobs'[i] = jobs[i]
  BY <1>1 DEF Settled
<1>3. [jobs[j] EXCEPT !.status = "settled"] \in RowShapes
  BY <1>1 DEF RowShapes, JobStatuses
<1>4. jobs' \in [JobIds -> RowShapes]
  BY <1>1, <1>3 DEF Settled
<1>5. ~Waiting(j)'
  BY <1>1, <1>2 DEF Waiting, RowShapes
<1>6. SameRows
  BY <1>1, <1>2, <1>5 DEF SameRows, Waiting, RowShapes
<1> QED
  BY <1>1, <1>2, <1>4, <1>5, <1>6 DEF RowShapes

\* A job's turn is over, and its row settled or as it was; the slot is kept.
LEMMA JobEndsKeep ==
    ASSUME IInv, turn.kind = "job", TurnIsOver, KeepSlot,
           jobs' = (IF Owns THEN Settled(turn.job) ELSE jobs),
           UNCHANGED <<depth, granted, events>>, halted' \subseteq Steps
    PROVE  IInv'
<1> USE DEF IInv
<1>1. turn.job \in JobIds
  BY DEF JobTurnsHaveRows
<1>2. /\ SameRows /\ jobs' \in [JobIds -> RowShapes]
      /\ \A i \in JobIds : /\ jobs'[i].taken = jobs[i].taken
                           /\ jobs'[i].attempts = jobs[i].attempts
                           /\ jobs'[i].status \in {jobs[i].status, "settled"}
  <2>1. CASE Owns
    BY <1>1, <2>1, SettlingKeepsRows DEF Owns
  <2>2. CASE ~Owns
    BY <2>2, UnchangedRows DEF TypeOK, RowShapes
  <2> QED
    BY <2>1, <2>2
<1>3. SlotKeptOrCleared
  BY <1>2 DEF SlotKeptOrCleared
<1>4. RestTyped'
  BY <1>2, TurnIsOverTypes DEF TypeOK, RestTyped, RowShapes, TurnShapes
<1>5. JobTurnsHaveRows' /\ FollowUpsBeginOnce'
  BY <1>2 DEF TurnIsOver, LockReleased, NoTurn, JobTurnsHaveRows, FollowUpsBeginOnce, SameRows
<1>6. DepthCountsGrants'
  BY <1>2 DEF DepthCountsGrants, NoRetries
<1> QED
  BY <1>2, <1>3, <1>4, <1>5, <1>6, StepOverSameRows

LEMMA JobFailsKeeps == ASSUME IInv, JobFails PROVE IInv'
  BY JobEndsKeep DEF JobFails, IInv, TypeOK

LEMMA StoppedJobEndsKeeps == ASSUME IInv, StoppedJobEnds PROVE IInv'
  BY JobEndsKeep DEF StoppedJobEnds, IInv, TypeOK

LEMMA JobCompletesKeeps == ASSUME IInv, JobCompletes PROVE IInv'
<1> USE DEF IInv
<1>1. turn.kind = "job" /\ turn.job \in JobIds
  BY DEF JobCompletes, JobTurnsHaveRows
<1>2. CASE Owns
  <2>1. jobs' = Settled(turn.job) /\ turn' = [turn EXCEPT !.kind = "following"] /\ UNCHANGED composed
    BY <1>2 DEF JobCompletes
  <2>2. /\ SameRows /\ jobs' \in [JobIds -> RowShapes]
        /\ \A i \in JobIds : /\ jobs'[i].taken = jobs[i].taken
                             /\ jobs'[i].attempts = jobs[i].attempts
                             /\ jobs'[i].status \in {jobs[i].status, "settled"}
    BY <1>1, <1>2, <2>1, SettlingKeepsRows DEF JobCompletes, Owns
  <2>3. SlotKeptOrCleared
    BY <2>2 DEF SlotKeptOrCleared, JobCompletes
  <2>4. turn' \in TurnShapes /\ turn'.kind = "following" /\ turn'.job = turn.job
    BY <2>1 DEF TypeOK, TurnShapes, TurnKinds
  <2>5. RestTyped'
    BY <2>1, <2>2, <2>4, ComposedIsTyped DEF JobCompletes, TypeOK, RestTyped, RowShapes, TurnShapes
  <2>6. JobTurnsHaveRows' /\ FollowUpsBeginOnce'
    BY <1>1, <2>2, <2>4 DEF JobTurnsHaveRows, FollowUpsBeginOnce, SameRows
  <2>7. DepthCountsGrants'
    BY <2>2 DEF JobCompletes, DepthCountsGrants, NoRetries
  <2> QED
    BY <2>2, <2>3, <2>5, <2>6, <2>7, StepOverSameRows
<1>3. CASE ~Owns
  BY <1>1, <1>3, JobEndsKeep DEF JobCompletes, TypeOK
<1> QED
  BY <1>2, <1>3

LEMMA JobRetriesKeeps == ASSUME IInv, JobRetries PROVE IInv'
<1> USE DEF IInv
<1>1. /\ turn.kind = "job" /\ turn.job \in JobIds /\ jobs[turn.job].status = "claimed"
      /\ jobs[turn.job].attempts + 1 < MaxAttempts
      /\ jobs' = [jobs EXCEPT ![turn.job].status = "pending", ![turn.job].attempts = @ + 1]
  BY DEF JobRetries, Owns, JobTurnsHaveRows
<1>2. jobs \in [JobIds -> RowShapes]
  BY DEF TypeOK, RowShapes
<1>3. /\ jobs'[turn.job] = [jobs[turn.job] EXCEPT !.status = "pending", !.attempts = @ + 1]
      /\ \A i \in JobIds \ {turn.job} : jobs'[i] = jobs[i]
  BY <1>1, <1>2
<1>4. jobs[turn.job].attempts + 1 \in 0..(MaxAttempts - 1)
  BY <1>1, <1>2 DEF RowShapes
<1>5. [jobs[turn.job] EXCEPT !.status = "pending", !.attempts = @ + 1] \in RowShapes
  BY <1>1, <1>2, <1>4 DEF RowShapes, JobStatuses
<1>6. jobs' \in [JobIds -> RowShapes]
  BY <1>1, <1>2, <1>3, <1>5
<1>7. SameRows /\ \A i \in JobIds : jobs'[i].taken = jobs[i].taken
  BY <1>1, <1>2, <1>3 DEF JobRetries, SameRows, Waiting, RowShapes
<1>8. SlotKeptOrCleared
  BY <1>7 DEF JobRetries, SlotKeptOrCleared
<1>9. jobs'[turn.job].attempts # 0
  BY <1>1, <1>2, <1>3 DEF RowShapes
<1>10. RestTyped'
  BY <1>6, TurnIsOverTypes DEF JobRetries, TypeOK, RestTyped, RowShapes, TurnShapes
<1>11. JobTurnsHaveRows' /\ FollowUpsBeginOnce'
  <2>1. turn'.kind = "none"
    BY DEF JobRetries, TurnIsOver, LockReleased, NoTurn
  <2>2. JobTurnsHaveRows'
    BY <2>1 DEF JobTurnsHaveRows
  <2>3. FollowUpsBeginOnce'
    <3> SUFFICES ASSUME NEW i \in JobIds
                 PROVE  /\ jobs'[i].step # 0 => jobs'[i].kind = "task"
                        /\ jobs'[i].taken => jobs'[i].step # 0
                        /\ jobs'[i].taken /\ jobs'[i].attempts = 0 => jobs'[i].status # "pending"
      BY <2>1 DEF FollowUpsBeginOnce
    <3>1. CASE i = turn.job
      BY <1>7, <1>9, <3>1 DEF FollowUpsBeginOnce, SameRows
    <3>2. CASE i # turn.job
      BY <1>3, <3>2 DEF FollowUpsBeginOnce
    <3> QED
      BY <3>1, <3>2
  <2> QED
    BY <2>2, <2>3
<1>12. DepthCountsGrants'
  BY <1>1, <1>9 DEF DepthCountsGrants, NoRetries
<1> QED
  BY <1>7, <1>8, <1>10, <1>11, <1>12, StepOverSameRows

LEMMA StopKeeps == ASSUME IInv, NEW j \in JobIds, Stop(j) PROVE IInv'
<1> USE DEF IInv
<1>1. CASE jobs[j].status = "pending"
  <2>1. jobs' = Settled(j) /\ DropIf(slot.job = j) /\ UNCHANGED turn
    BY <1>1 DEF Stop
  <2>2. /\ SameRows /\ jobs' \in [JobIds -> RowShapes] /\ ~Waiting(j)'
        /\ \A i \in JobIds : /\ jobs'[i].taken = jobs[i].taken
                             /\ jobs'[i].attempts = jobs[i].attempts
                             /\ jobs'[i].status \in {jobs[i].status, "settled"}
    BY <1>1, <2>1, SettlingKeepsRows DEF Stop
  <2>3. j # 0
    BY DEF JobIds
  <2>4. SlotKeptOrCleared
    BY <2>1, <2>2, <2>3 DEF SlotKeptOrCleared, DropIf, TypeOK
  <2>5. RestTyped'
    BY <2>1, <2>2, ComposedIsTyped DEF Stop, TypeOK, RestTyped, RowShapes
  <2>6. JobTurnsHaveRows' /\ FollowUpsBeginOnce'
    BY <2>1, <2>2 DEF JobTurnsHaveRows, FollowUpsBeginOnce, SameRows
  <2>7. DepthCountsGrants'
    BY <2>2 DEF Stop, DepthCountsGrants, NoRetries
  <2> QED
    BY <2>2, <2>4, <2>5, <2>6, <2>7, StepOverSameRows
<1>2. CASE jobs[j].status = "claimed"
  <2>1. turn' = [turn EXCEPT !.stopped = TRUE] /\ KeepSlot /\ UNCHANGED jobs
    BY <1>2 DEF Stop
  <2>2. SameRows /\ SlotKeptOrCleared
    BY <2>1, UnchangedRows, PendingIsUnclaimed DEF Stop
  <2>3. /\ turn' \in TurnShapes /\ turn'.kind = turn.kind /\ turn'.job = turn.job
        /\ turn'.begun = turn.begun
    BY <2>1 DEF TypeOK, TurnShapes
  <2>4. RestTyped'
    BY <2>1, <2>3, ComposedIsTyped DEF Stop, TypeOK, RestTyped, TurnShapes
  <2>5. JobTurnsHaveRows' /\ FollowUpsBeginOnce'
    BY <2>1, <2>3 DEF JobTurnsHaveRows, FollowUpsBeginOnce
  <2>6. DepthCountsGrants'
    BY <2>1 DEF Stop, DepthCountsGrants, NoRetries
  <2> QED
    BY <2>2, <2>4, <2>5, <2>6, StepOverSameRows
<1> QED
  BY <1>1, <1>2 DEF Stop

\* A sweep and a restart: orphans fail or, if they are notes, are queued again,
\* and a slot whose row can no longer claim it is given up.
LEMMA ReconcileKeeps ==
    ASSUME IInv, NEW js \in SUBSET Claimed, Reconcile(Orphaned(js)),
           events'.steps = events.steps, events'.requests = events.requests,
           events' \in [steps : 0..MaxSteps, requests : 0..MaxRequests, turns : 0..MaxTurns,
                        crashes : 0..MaxCrashes],
           UNCHANGED <<depth, granted, halted>>,
           (UNCHANGED <<turn, composed>>) \/ (LockReleased /\ queued' = {})
    PROVE  IInv'
<1> USE DEF IInv
<1>1. jobs \in [JobIds -> RowShapes]
  BY DEF TypeOK, RowShapes
<1>2. \A j \in JobIds :
          /\ j \in js => /\ jobs[j].status = "claimed"
                         /\ jobs'[j] = [jobs[j] EXCEPT !.status = IF jobs[j].kind = "note" THEN "pending"
                                                                  ELSE "settled"]
          /\ j \notin js => jobs'[j] = jobs[j]
  BY DEF Reconcile, Orphaned, Claimed
<1>3. \A j \in JobIds :
          /\ jobs'[j].step = jobs[j].step /\ jobs'[j].kind = jobs[j].kind
          /\ jobs'[j].taken = jobs[j].taken /\ jobs'[j].attempts = jobs[j].attempts
          /\ \/ jobs'[j] = jobs[j]
             \/ jobs[j].status = "claimed" /\ jobs[j].kind = "note" /\ jobs'[j].status = "pending"
             \/ jobs[j].status = "claimed" /\ jobs[j].kind # "note" /\ jobs'[j].status = "settled"
  BY <1>1, <1>2 DEF RowShapes
<1>4. jobs' \in [JobIds -> RowShapes]
  <2>1. DOMAIN jobs' = JobIds /\ jobs' = [j \in JobIds |-> jobs'[j]]
    BY DEF Reconcile, Orphaned
  <2>2. ASSUME NEW j \in JobIds PROVE jobs'[j] \in RowShapes
    BY <1>1, <1>2 DEF RowShapes, JobStatuses
  <2> QED
    BY <2>1, <2>2
<1>5. SameRows
  <2>1. \A j \in JobIds : jobs[j].kind = "note" => jobs[j].step = 0
    BY DEF FollowUpsBeginOnce
  <2> QED
    BY <1>3, <2>1 DEF SameRows, Waiting
<1>6. SlotKeptOrCleared
  <2>1. DropIf(slot.job # 0 /\ CannotClaim(jobs'[slot.job].status))
    BY DEF Reconcile
  <2>2. CASE KeepSlot
    BY <1>3, <2>2 DEF SlotKeptOrCleared
  <2>3. CASE slot.job # 0 /\ CannotClaim(jobs'[slot.job].status) /\ Consume("dropped")
    BY <2>3 DEF SlotKeptOrCleared, CannotClaim, Waiting, TypeOK
  <2> QED
    BY <2>1, <2>2, <2>3 DEF DropIf
<1>7. turn' = turn \/ turn' = NoTurn
  BY DEF LockReleased
<1>8. RestTyped'
  <2>1. CASE UNCHANGED <<turn, composed>>
    BY <1>4, <2>1, ComposedIsTyped DEF TypeOK, RestTyped, RowShapes
  <2>2. CASE LockReleased /\ queued' = {}
    BY <1>4, <2>2, TurnIsOverTypes DEF TypeOK, RestTyped, RowShapes, TurnShapes
  <2> QED
    BY <2>1, <2>2
<1>9. JobTurnsHaveRows'
  BY <1>3, <1>7 DEF NoTurn, JobTurnsHaveRows
<1>10. FollowUpsBeginOnce'
  BY <1>3, <1>7 DEF NoTurn, FollowUpsBeginOnce
<1>11. DepthCountsGrants'
  BY <1>3 DEF DepthCountsGrants, NoRetries
<1> QED
  BY <1>5, <1>6, <1>8, <1>9, <1>10, <1>11, StepOverSameRows

LEMMA SweepKeeps == ASSUME IInv, Sweep PROVE IInv'
  BY ReconcileKeeps DEF Sweep, IInv, TypeOK

LEMMA CrashKeeps == ASSUME IInv, CrashAndReboot PROVE IInv'
<1> USE DEF IInv
<1>1. events \in [steps : 0..MaxSteps, requests : 0..MaxRequests, turns : 0..MaxTurns,
                  crashes : 0..MaxCrashes]
  BY DEF TypeOK
<1>2. events.crashes + 1 \in 0..MaxCrashes
  BY <1>1 DEF CrashAndReboot
<1>3. /\ events' \in [steps : 0..MaxSteps, requests : 0..MaxRequests, turns : 0..MaxTurns,
                      crashes : 0..MaxCrashes]
      /\ events'.steps = events.steps /\ events'.requests = events.requests
  BY <1>1, <1>2 DEF CrashAndReboot
<1> QED
  BY <1>3, ReconcileKeeps DEF CrashAndReboot

LEMMA NewRow ==
    ASSUME NEW kind \in JobKinds, NEW s \in {0} \cup Steps
    PROVE  /\ Row(kind, s) \in RowShapes
           /\ Row(kind, s).status = "pending" /\ Row(kind, s).attempts = 0
           /\ Row(kind, s).kind = kind /\ Row(kind, s).step = s /\ ~Row(kind, s).taken
<1> DEFINE blank == NoJob
<1>1. 0 \in 0..(MaxAttempts - 1) /\ "absent" \in JobStatuses /\ "pending" \in JobStatuses
      /\ "task" \in JobKinds /\ FALSE \in BOOLEAN /\ 0 \in {0} \cup Steps
  BY DEF JobStatuses, JobKinds
<1>2. blank \in RowShapes
  BY <1>1, Zenon DEF NoJob, RowShapes
<1>3. blank.attempts = 0 /\ ~blank.taken
  BY DEF NoJob
<1>4. Row(kind, s) = [blank EXCEPT !.status = "pending", !.kind = kind, !.step = s]
  BY DEF Row
<1> HIDE DEF blank
<1> QED
  BY <1>1, <1>2, <1>3, <1>4 DEF RowShapes

LEMMA RequestKeeps == ASSUME IInv, NEW kind \in JobKinds, Request(kind) PROVE IInv'
<1> USE DEF IInv
<1> DEFINE n == NextJob
           ev == [steps : 0..MaxSteps, requests : 0..MaxRequests, turns : 0..MaxTurns,
                  crashes : 0..MaxCrashes]
<1>1. /\ jobs \in [JobIds -> RowShapes] /\ events \in ev /\ JobIds \subseteq Nat
      /\ Cardinality(Handed) \in Nat /\ Cardinality(Handed) <= events.steps
  <2>1. Cardinality(Handed) \in Nat /\ Cardinality(Handed) <= events.steps
    BY HandedIsFinite
  <2> QED
    BY <2>1 DEF TypeOK, RowShapes, JobIds
<1>2. events.requests + 1 \in 0..MaxRequests /\ RowCount \in Nat
  BY <1>1 DEF Request, RowCount
<1>3. events' \in ev /\ events'.steps = events.steps /\ events'.requests = events.requests + 1
  BY <1>1, <1>2 DEF Request
<1>4. RowCount < MaxRequests + MaxSteps
  BY <1>1 DEF RowCount, Request
<1>5. n = RowCount + 1 /\ n \in JobIds /\ jobs[n] = NoJob
  BY <1>4, NextRow
<1> HIDE DEF n, ev
<1>6. jobs' = [jobs EXCEPT ![n] = Row(kind, 0)] /\ slot' = slot /\ fate' = fate
  BY DEF Request, n, KeepSlot
<1>7. /\ Row(kind, 0) \in RowShapes
      /\ Row(kind, 0).status = "pending" /\ Row(kind, 0).attempts = 0
      /\ Row(kind, 0).step = 0 /\ ~Row(kind, 0).taken
  BY NewRow
<1>8. /\ jobs' \in [JobIds -> RowShapes] /\ jobs'[n] = Row(kind, 0)
      /\ \A j \in JobIds \ {n} : jobs'[j] = jobs[j]
  BY <1>1, <1>5, <1>6, <1>7
<1>9. Handed' = Handed
  BY <1>3, <1>5, <1>7, <1>8 DEF Handed, NoJob
<1>10. RowCount' = RowCount + 1
  BY <1>1, <1>3, <1>9 DEF RowCount, ev
<1>11. RowsAreNumbered'
  <2> SUFFICES ASSUME NEW j \in JobIds
               PROVE  /\ jobs'[j].status = "absent" <=> j > RowCount'
                      /\ jobs'[j].status = "absent" => jobs'[j] = NoJob
                      /\ jobs'[j].step <= events'.steps
    BY DEF RowsAreNumbered
  <2>1. CASE j = n
    BY <1>1, <1>2, <1>3, <1>5, <1>7, <1>8, <1>10, <2>1 DEF ev
  <2>2. CASE j # n
    BY <1>1, <1>2, <1>3, <1>5, <1>8, <1>10, <2>2 DEF RowsAreNumbered
  <2> QED
    BY <2>1, <2>2
<1>12. slot.job # n
  BY <1>1, <1>5 DEF SlotIsOpen, NoJob, JobIds
<1>13. SlotIsOpen'
  BY <1>3, <1>6, <1>8, <1>9, <1>12 DEF SlotIsOpen, Pending, TypeOK
<1>14. QueuedFollowUpOwnsItsStep'
  BY <1>6, <1>7, <1>8 DEF QueuedFollowUpOwnsItsStep
<1>15. TypeOK'
  BY <1>3, <1>6, <1>8, ComposedIsTyped DEF Request, TypeOK, ComposedTyped, RowShapes, ev
<1>16. turn.kind = "job" => turn.job # n
  BY <1>5 DEF JobTurnsHaveRows, NoJob
<1>17. JobTurnsHaveRows'
  BY <1>8, <1>16 DEF JobTurnsHaveRows, Request
<1>18. FollowUpsBeginOnce'
  BY <1>7, <1>8 DEF FollowUpsBeginOnce, Request
<1>19. DepthCountsGrants'
  BY <1>5, <1>8 DEF DepthCountsGrants, NoRetries, NoJob, Request
<1> QED
  BY <1>11, <1>13, <1>14, <1>15, <1>17, <1>18, <1>19

\* enqueueCheckpointContinuation hands the step to a row that is made for it.
LEMMA HandOverKeeps ==
    ASSUME IInv, turn.kind = "following", TurnIsOver,
           Pending, WithinCap, depth' = depth + 1, granted' = granted + 1,
           jobs' = [jobs EXCEPT ![NextJob] = Row("task", slot.step)],
           slot' = [slot EXCEPT !.job = NextJob],
           UNCHANGED <<fate, halted, events>>
    PROVE  IInv'
<1> USE DEF IInv
<1> DEFINE n == NextJob
           s == slot.step
<1>1. /\ jobs \in [JobIds -> RowShapes] /\ JobIds \subseteq Nat
      /\ IsFiniteSet(Handed) /\ Cardinality(Handed) \in Nat
  BY HandedIsFinite DEF TypeOK, RowShapes, JobIds
<1>2. /\ s \in Steps /\ slot.job = 0 /\ fate[s] = "open" /\ s \notin Handed /\ s \in 1..events.steps
      /\ events.steps \in 0..MaxSteps /\ events.requests \in 0..MaxRequests
  BY DEF Pending, SlotIsOpen, TypeOK, Steps
<1> HIDE DEF s
<1>3. /\ Cardinality(Handed \cup {s}) = Cardinality(Handed) + 1
      /\ Cardinality(Handed) + 1 <= MaxSteps
  <2>1. IsFiniteSet(1..events.steps) /\ Cardinality(1..events.steps) = events.steps
    BY <1>2, StepsAreCounted
  <2>2. Handed \cup {s} \subseteq 1..events.steps
    BY <1>2 DEF Handed
  <2>3. Cardinality(Handed \cup {s}) <= events.steps
    BY <2>1, <2>2, FS_Subset
  <2>4. Cardinality(Handed \cup {s}) = Cardinality(Handed) + 1
    BY <1>1, <1>2, FS_AddElement
  <2> QED
    BY <1>1, <1>2, <2>3, <2>4
<1>4. RowCount < MaxRequests + MaxSteps /\ RowCount \in Nat
  BY <1>1, <1>2, <1>3 DEF RowCount
<1>5. n = RowCount + 1 /\ n \in JobIds /\ jobs[n] = NoJob
  BY <1>4, NextRow
<1> HIDE DEF n
<1>6. /\ Row("task", s) \in RowShapes
      /\ Row("task", s).status = "pending" /\ Row("task", s).attempts = 0
      /\ Row("task", s).kind = "task" /\ Row("task", s).step = s /\ ~Row("task", s).taken
  BY <1>2, NewRow DEF JobKinds
<1>7. jobs' = [jobs EXCEPT ![n] = Row("task", s)] /\ slot' = [slot EXCEPT !.job = n]
  BY DEF n, s
<1>8. /\ jobs' \in [JobIds -> RowShapes] /\ jobs'[n] = Row("task", s)
      /\ \A j \in JobIds \ {n} : jobs'[j] = jobs[j]
  <2> DEFINE r == Row("task", s)
  <2>1. r \in RowShapes
    BY <1>6
  <2>2. jobs' = [jobs EXCEPT ![n] = r]
    BY <1>7
  <2> HIDE DEF r
  <2>3. /\ jobs' \in [JobIds -> RowShapes] /\ jobs'[n] = r
        /\ \A j \in JobIds \ {n} : jobs'[j] = jobs[j]
    BY <1>1, <1>5, <2>1, <2>2
  <2> QED
    BY <2>3 DEF r
<1>9. /\ slot' = [step |-> s, job |-> n]
      /\ slot'.step = s /\ slot'.job = n
  BY <1>7 DEF TypeOK, s
<1>10. Handed' = Handed \cup {s}
  BY <1>2, <1>5, <1>6, <1>8 DEF Handed, NoJob
<1>11. RowCount' = RowCount + 1
  BY <1>1, <1>2, <1>3, <1>10 DEF RowCount
<1>12. RowsAreNumbered'
  <2> SUFFICES ASSUME NEW j \in JobIds
               PROVE  /\ jobs'[j].status = "absent" <=> j > RowCount'
                      /\ jobs'[j].status = "absent" => jobs'[j] = NoJob
                      /\ jobs'[j].step <= events'.steps
    BY DEF RowsAreNumbered
  <2>1. CASE j = n
    BY <1>1, <1>2, <1>4, <1>5, <1>6, <1>8, <1>11, <2>1
  <2>2. CASE j # n
    BY <1>1, <1>4, <1>5, <1>8, <1>11, <2>2 DEF RowsAreNumbered
  <2> QED
    BY <2>1, <2>2
<1>13. SlotIsOpen'
  <2>1. n # 0
    BY <1>5 DEF JobIds
  <2> QED
    BY <1>2, <1>6, <1>8, <1>9, <2>1 DEF SlotIsOpen, Pending
<1>14. QueuedFollowUpOwnsItsStep'
  <2> SUFFICES ASSUME NEW j \in JobIds, Waiting(j)'
               PROVE  slot' = [step |-> jobs'[j].step, job |-> j] \/ fate'[jobs'[j].step] = "carried"
    BY DEF QueuedFollowUpOwnsItsStep, Waiting
  <2>1. CASE j = n
    <3>1. jobs'[j].step = s
      BY <1>6, <1>8, <2>1
    <3> QED
      BY <1>9, <2>1, <3>1
  <2>2. CASE j # n
    <3>1. Waiting(j) /\ jobs'[j] = jobs[j] /\ j # 0
      BY <1>8, <2>2 DEF Waiting, JobIds
    <3>2. fate[jobs[j].step] = "carried"
      BY <1>2, <3>1 DEF QueuedFollowUpOwnsItsStep, Waiting
    <3> QED
      BY <3>1, <3>2
  <2> QED
    BY <2>1, <2>2
<1>15. TypeOK'
  <2>1. turn' \in TurnShapes /\ ComposedTyped'
    BY TurnIsOverTypes
  <2>2. depth' \in 0..Cap /\ granted' \in Nat
    BY DEF WithinCap, TypeOK
  <2>3. slot' \in [step : {0} \cup Steps, job : {0} \cup JobIds] /\ slot'.step # 0
    <3>1. s # 0
      BY <1>2 DEF Steps
    <3> QED
      BY <1>2, <1>5, <1>9, <3>1
  <2> QED
    BY <1>8, <2>1, <2>2, <2>3 DEF TypeOK, TurnShapes, RowShapes, ComposedTyped
<1>16. JobTurnsHaveRows'
  BY DEF TurnIsOver, LockReleased, NoTurn, JobTurnsHaveRows
<1>17. FollowUpsBeginOnce'
  BY <1>6, <1>8 DEF TurnIsOver, LockReleased, NoTurn, FollowUpsBeginOnce
<1>18. DepthCountsGrants'
  BY <1>5, <1>8 DEF DepthCountsGrants, NoRetries, NoJob, TypeOK
<1> QED
  BY <1>12, <1>13, <1>14, <1>15, <1>16, <1>17, <1>18

LEMMA FollowUpKeeps == ASSUME IInv, FollowUp PROVE IInv'
<1> DEFINE continues == Pending /\ jobs[turn.job].kind # "note" /\ WithinCap
<1>1. CASE continues
  <2>1. /\ turn.kind = "following" /\ TurnIsOver
        /\ Pending /\ WithinCap /\ depth' = depth + 1 /\ granted' = granted + 1
        /\ jobs' = [jobs EXCEPT ![NextJob] = Row("task", slot.step)]
        /\ slot' = [slot EXCEPT !.job = NextJob]
        /\ UNCHANGED <<fate, halted, events>>
    BY <1>1 DEF FollowUp
  <2> QED
    BY <2>1, HandOverKeeps
<1>2. CASE ~continues
  <2>1. /\ TurnIsOver /\ UNCHANGED <<depth, jobs, granted, halted, events>>
        /\ DropIf(Pending) /\ Pending \in BOOLEAN
    BY <1>2 DEF FollowUp, Pending
  <2> QED
    BY <2>1, TurnEndsKeep
<1> QED
  BY <1>1, <1>2

\* The checkpoint tool leaves a new step; what was in the slot is carried by its
\* row, given up or replaced.
LEMMA CheckpointKeeps == ASSUME IInv, Checkpoint PROVE IInv'
<1> USE DEF IInv
<1> DEFINE new == events.steps + 1
           end == IF ~Pending THEN "carried"
                  ELSE IF FromEarlierTurn(slot.step) THEN "dropped" ELSE "replaced"
<1>1. /\ events.steps < MaxSteps /\ slot' = [step |-> new, job |-> 0]
      /\ fate' = [s \in Steps |-> IF s = new THEN "open"
                                  ELSE IF s = slot.step THEN end ELSE fate[s]]
      /\ events' = [events EXCEPT !.steps = new]
      /\ UNCHANGED <<depth, jobs, turn, composed, granted, halted>>
  BY DEF Checkpoint
<1>2. /\ events.steps \in Nat /\ new \in Steps /\ new \in Nat /\ Steps \subseteq Nat
      /\ Cardinality(Handed) \in Nat
  <2>1. events.steps \in Nat /\ events.steps < MaxSteps
    BY DEF Checkpoint, TypeOK
  <2> QED
    BY <2>1, HandedIsFinite DEF Steps
<1>3. end \in Fates /\ (~Pending => end = "carried") /\ "open" \in Fates
  BY DEF Fates
<1> HIDE DEF end
<1>4. /\ events'.steps = new /\ events'.requests = events.requests
      /\ events' \in [steps : 0..MaxSteps, requests : 0..MaxRequests, turns : 0..MaxTurns,
                      crashes : 0..MaxCrashes]
  <2>1. events \in [steps : 0..MaxSteps, requests : 0..MaxRequests, turns : 0..MaxTurns,
                    crashes : 0..MaxCrashes]
    BY DEF TypeOK
  <2>2. new \in 0..MaxSteps
    BY <1>2 DEF Steps
  <2> HIDE DEF new
  <2> QED
    BY <1>1, <2>1, <2>2
<1>5. slot'.step = new /\ slot'.job = 0 /\ slot' \in [step : {0} \cup Steps, job : {0} \cup JobIds]
  <2>1. new \in Steps /\ slot' = [step |-> new, job |-> 0]
    BY <1>1, <1>2
  <2> HIDE DEF new
  <2> QED
    BY <2>1
<1>6. \A j \in JobIds : jobs[j].step <= events.steps /\ jobs[j].step \in Nat /\ jobs[j].step # new
  <2>1. \A j \in JobIds : jobs[j].step \in {0} \cup Steps
    BY DEF TypeOK
  <2>2. \A j \in JobIds : jobs[j].step <= events.steps
    BY DEF RowsAreNumbered
  <2>3. events.steps \in Nat /\ {0} \cup Steps \subseteq Nat
    BY <1>2
  <2> QED
    BY <2>1, <2>2, <2>3
<1>7. Handed' = Handed
  <2>1. Handed' = {s \in 1..new : \E j \in JobIds : jobs[j].step = s}
    BY <1>1, <1>4 DEF Handed
  <2>2. \A s \in 1..new : (\E j \in JobIds : jobs[j].step = s) => s \in 1..events.steps
    BY <1>2, <1>6
  <2>3. \A s \in 1..events.steps : s \in 1..new
    BY <1>2
  <2> HIDE DEF new
  <2> QED
    BY <2>1, <2>2, <2>3 DEF Handed
<1>8. RowsAreNumbered'
  <2>1. RowCount' = RowCount
    BY <1>4, <1>7 DEF RowCount
  <2> QED
    BY <1>1, <1>2, <1>4, <1>6, <2>1 DEF RowsAreNumbered
<1>9. SlotIsOpen'
  <2>1. fate'[new] = "open"
    BY <1>1, <1>2
  <2>2. new \notin Handed
    BY <1>2 DEF Handed
  <2> QED
    BY <1>2, <1>4, <1>5, <1>7, <2>1, <2>2 DEF SlotIsOpen
<1>10. QueuedFollowUpOwnsItsStep'
  <2> SUFFICES ASSUME NEW j \in JobIds, Waiting(j)' PROVE fate'[jobs'[j].step] = "carried"
    BY DEF QueuedFollowUpOwnsItsStep, Waiting
  <2>1. Waiting(j) /\ jobs' = jobs /\ jobs[j].step \in Steps /\ jobs[j].step # new /\ j # 0
    BY <1>1, <1>6 DEF Waiting, TypeOK, JobIds
  <2>2. fate'[jobs[j].step] = IF jobs[j].step = slot.step THEN end ELSE fate[jobs[j].step]
    BY <1>1, <2>1
  <2>3. CASE slot = [step |-> jobs[j].step, job |-> j]
    <3>1. slot.step = jobs[j].step /\ slot.job = j
      BY <2>3
    <3>2. ~Pending
      BY <2>1, <3>1 DEF Pending
    <3> QED
      BY <1>3, <2>1, <2>2, <3>1, <3>2
  <2>4. CASE slot # [step |-> jobs[j].step, job |-> j]
    <3>1. fate[jobs[j].step] = "carried" /\ jobs[j].step # 0
      BY <2>1, <2>4 DEF QueuedFollowUpOwnsItsStep, Waiting
    <3>2. jobs[j].step # slot.step
      BY <3>1 DEF SlotIsOpen
    <3> QED
      BY <2>1, <2>2, <3>1, <3>2
  <2> QED
    BY <2>3, <2>4
<1>11. TypeOK'
  <2>1. fate' \in [Steps -> Fates]
    BY <1>1, <1>3 DEF TypeOK
  <2>2. ComposedTyped'
    BY <1>1, ComposedIsTyped
  <2> HIDE DEF new
  <2> QED
    BY <1>1, <1>4, <1>5, <2>1, <2>2 DEF TypeOK, ComposedTyped
<1>12. JobTurnsHaveRows' /\ FollowUpsBeginOnce' /\ DepthCountsGrants'
  BY <1>1 DEF JobTurnsHaveRows, FollowUpsBeginOnce, DepthCountsGrants, NoRetries
<1> QED
  BY <1>8, <1>9, <1>10, <1>11, <1>12

-----------------------------------------------------------------------------

LEMMA InitIInv == Init => IInv
<1> SUFFICES ASSUME Init PROVE IInv
  OBVIOUS
<1>1. /\ slot.step = 0 /\ slot.job = 0 /\ turn.kind = "none" /\ events.steps = 0 /\ events.requests = 0
      /\ \A j \in JobIds : /\ jobs[j] = NoJob /\ jobs[j].step = 0 /\ jobs[j].status = "absent"
                           /\ ~jobs[j].taken
  BY DEF Init, Empty, NoTurn, NoJob
<1>2. TypeOK
  <2>1. jobs \in [JobIds -> RowShapes]
    <3>1. 0 \in 0..(MaxAttempts - 1) /\ "absent" \in JobStatuses /\ "task" \in JobKinds
          /\ FALSE \in BOOLEAN /\ 0 \in {0} \cup Steps
      BY DEF JobStatuses, JobKinds
    <3>2. NoJob \in RowShapes
      BY <3>1, Zenon DEF NoJob, RowShapes
    <3> QED
      BY <3>2 DEF Init
  <2>2. turn \in TurnShapes
    BY DEF Init, NoTurn, TurnShapes, TurnKinds
  <2>3. slot \in [step : {0} \cup Steps, job : {0} \cup JobIds]
    BY DEF Init, Empty
  <2>4. events \in [steps : 0..MaxSteps, requests : 0..MaxRequests, turns : 0..MaxTurns,
                    crashes : 0..MaxCrashes]
    BY DEF Init
  <2>5. fate \in [Steps -> Fates]
    BY DEF Init, Fates
  <2>6. depth \in 0..Cap /\ granted \in Nat /\ ComposedTyped /\ halted \subseteq Steps
    BY DEF Init, ComposedTyped
  <2> QED
    BY <1>1, <2>1, <2>2, <2>3, <2>4, <2>5, <2>6 DEF TypeOK, RowShapes, TurnShapes, ComposedTyped
<1>3. RowsAreNumbered
  <2>1. Handed = {}
    BY <1>1 DEF Handed
  <2>2. RowCount = 0
    BY <1>1, <2>1, FS_EmptySet DEF RowCount
  <2> QED
    BY <1>1, <2>2 DEF RowsAreNumbered, JobIds
<1>4. SlotIsOpen /\ JobTurnsHaveRows /\ FollowUpsBeginOnce /\ QueuedFollowUpOwnsItsStep
  BY <1>1 DEF SlotIsOpen, Pending, JobTurnsHaveRows, FollowUpsBeginOnce, QueuedFollowUpOwnsItsStep
<1>5. DepthCountsGrants
  BY DEF Init, DepthCountsGrants
<1> QED
  BY <1>2, <1>3, <1>4, <1>5 DEF IInv

LEMMA NextKeeps == ASSUME IInv, [Next]_vars PROVE IInv'
<1>1. CASE UNCHANGED vars
  <2>1. UNCHANGED <<slot, depth, jobs, turn, composed, fate, granted, halted, events>>
    BY <1>1 DEF vars
  <2>2. SameRows /\ SlotKeptOrCleared
    BY <2>1, UnchangedRows DEF SlotKeptOrCleared, KeepSlot
  <2>3. RestTyped' /\ JobTurnsHaveRows' /\ FollowUpsBeginOnce' /\ DepthCountsGrants'
    BY <2>1, ComposedIsTyped DEF IInv, TypeOK, RestTyped, JobTurnsHaveRows, FollowUpsBeginOnce, DepthCountsGrants,
       NoRetries
  <2> QED
    BY <2>2, <2>3, StepOverSameRows
<1>2. CASE Next
  BY <1>2, CheckpointKeeps, UserTurnComposesKeeps, UserTurnBeginsKeeps, UserTurnContinuesKeeps, UserTurnEndsKeeps,
     DeliveryBeginsKeeps, DeliveryEndsKeeps, RequestKeeps, ClaimKeeps, StopKeeps, BeginJobKeeps,
     JobCompletesKeeps, FollowUpKeeps, JobFailsKeeps, JobRetriesKeeps, StoppedJobEndsKeeps,
     SweepKeeps, CrashKeeps DEF Next
<1> QED
  BY <1>1, <1>2

LEMMA IInvHolds == Spec => []IInv
  BY InitIInv, NextKeeps, PTL DEF Spec

\* TypeOK: every variable keeps its shape, the depth never passes the cap, and
\* a row is always left for a follow-up that is granted.
THEOREM SlotTypeCorrect == Spec => []TypeOK
<1>1. IInv => TypeOK
  BY DEF IInv
<1> QED
  BY <1>1, IInvHolds, PTL

\* QueuedFollowUpOwnsItsStep: between the commit that hands a step to its
\* follow-up and the claim that takes it, no user's turn, delivery, other job,
\* sweep or restart continues or drops that step.
THEOREM HandedStepsHaveOneTaker == Spec => []QueuedFollowUpOwnsItsStep
<1>1. IInv => QueuedFollowUpOwnsItsStep
  BY DEF IInv
<1> QED
  BY <1>1, IInvHolds, PTL

\* RunawayGuardUnlessRetried: pendingCheckpointDepth bounds the continuations
\* granted between two genuine turns, whichever rail grants them, as long as no
\* job's turn has been retried.
THEOREM CapBoundsContinuations == Spec => []RunawayGuardUnlessRetried
<1>1. IInv => RunawayGuardUnlessRetried
  BY DEF IInv, TypeOK, DepthCountsGrants, NoRetries, RunawayGuardUnlessRetried
<1> QED
  BY <1>1, IInvHolds, PTL

\* What a turn found pending when it was composed is settled, or still in the slot
\* and nobody's. In the second case the turn is a user's, a delivery or a job's that
\* has not begun.
SurvivorIsAccountedFor ==
    /\ since <= events.steps /\ survivor <= events.steps
    /\ \A t \in queued : t.since <= events.steps
    /\ survivor \in 1..since =>
          \/ fate[survivor] \in {"continued", "dropped"}
          \/ /\ slot.step = survivor /\ slot.job = 0
             /\ turn.kind # "following" /\ (turn.kind = "job" => ~turn.begun)

\* What is settled stays so: only what is in the slot meets an end.
LEMMA SettledStepsStay ==
    ASSUME IInv, [Next]_vars, NEW s \in Steps, s <= events.steps,
           fate[s] \in {"continued", "dropped"}
    PROVE  fate'[s] = fate[s]
<1> USE DEF IInv
<1>1. s # slot.step
  BY DEF SlotIsOpen, Steps
<1>2. CASE Checkpoint
  <2>1. s # events.steps + 1
    BY DEF TypeOK, Steps
  <2> QED
    BY <1>1, <1>2, <2>1 DEF Checkpoint
<1>3. CASE ~Checkpoint
  <2>1. KeepSlot \/ (\E end \in {"continued", "dropped"} : Consume(end)) \/ fate' = fate
    BY <1>3 DEF Next, vars, UserTurnComposes, UserTurnBegins, UserTurnContinues, UserTurnEnds,
       DeliveryBegins, DeliveryEnds, Request, Claim, Stop, BeginJob, JobCompletes, FollowUp, JobFails,
       JobRetries, StoppedJobEnds, Sweep, CrashAndReboot, Reconcile, DropIf
  <2> QED
    BY <1>1, <2>1 DEF KeepSlot, Consume, TypeOK
<1> QED
  BY <1>2, <1>3

LEMMA InitAccountsForSurvivor == Init => SurvivorIsAccountedFor
  BY DEF Init, SurvivorIsAccountedFor

\* A turn takes the lock: what is pending is its survivor.
LEMMA StartAccountsForSurvivor ==
    ASSUME IInv, SurvivorIsAccountedFor, NEW kind \in TurnKinds \ {"following"}, NEW j \in {0} \cup JobIds,
           NEW s \in 0..events.steps, TurnStarts(kind, j, s), queued' \subseteq queued, KeepSlot,
           events'.steps = events.steps
    PROVE  SurvivorIsAccountedFor'
<1> USE DEF IInv
<1>1. since' = s /\ turn'.kind = kind /\ turn'.begun = (kind # "job")
  BY DEF TurnStarts, NoTurn
<1>2. survivor' = IF Pending THEN slot.step ELSE 0
  BY DEF TurnStarts
<1>3. slot' = slot /\ (Pending => slot.job = 0 /\ slot.step <= events.steps) /\ 0 <= events.steps
  BY DEF KeepSlot, Pending, SlotIsOpen, TypeOK
<1>4. survivor' <= events'.steps /\ since' <= events'.steps
  BY <1>1, <1>2, <1>3 DEF TypeOK
<1>5. survivor' \in 1..since' => slot'.step = survivor' /\ slot'.job = 0
  BY <1>2, <1>3
<1>6. \A t \in queued' : t.since <= events'.steps
  BY DEF SurvivorIsAccountedFor
<1> QED
  BY <1>1, <1>4, <1>5, <1>6 DEF SurvivorIsAccountedFor

\* The turn goes on: its survivor is settled or untouched.
LEMMA RunningTurnKeepsAccount ==
    ASSUME IInv, SurvivorIsAccountedFor, [Next]_vars, UNCHANGED <<since, survivor>>,
           events'.steps >= events.steps, events'.steps \in Nat,
           \A t \in queued' : t.since <= events'.steps,
           survivor \in 1..since /\ slot.step = survivor /\ slot.job = 0
             /\ turn.kind # "following" /\ (turn.kind = "job" => ~turn.begun)
             => \/ fate'[survivor] \in {"continued", "dropped"}
                \/ /\ UNCHANGED slot
                   /\ turn'.kind # "following" /\ (turn'.kind = "job" => ~turn'.begun)
    PROVE  SurvivorIsAccountedFor'
<1> USE DEF IInv
<1>1. /\ events.steps \in Nat /\ since \in Nat /\ survivor \in Nat
      /\ survivor \in 1..since => survivor \in Steps
  BY DEF TypeOK, Steps
<1>2. since' <= events'.steps /\ survivor' <= events'.steps
  BY <1>1 DEF SurvivorIsAccountedFor
<1>3. ASSUME survivor \in 1..since, fate[survivor] \in {"continued", "dropped"}
      PROVE  fate'[survivor] \in {"continued", "dropped"}
  BY <1>1, <1>3, SettledStepsStay DEF SurvivorIsAccountedFor
<1> QED
  BY <1>2, <1>3 DEF SurvivorIsAccountedFor

\* The turn is over, and so is its account.
LEMMA EndClosesAccount ==
    ASSUME IInv, SurvivorIsAccountedFor, LockReleased, queued' \subseteq queued,
           events'.steps = events.steps
    PROVE  SurvivorIsAccountedFor'
  BY DEF IInv, TypeOK, SurvivorIsAccountedFor, LockReleased

LEMMA NextKeepsAccount ==
    ASSUME IInv, SurvivorIsAccountedFor, [Next]_vars PROVE SurvivorIsAccountedFor'
<1> USE DEF IInv
<1> DEFINE Untouched == \/ fate'[survivor] \in {"continued", "dropped"}
                        \/ /\ UNCHANGED slot
                           /\ turn'.kind # "following" /\ (turn'.kind = "job" => ~turn'.begun)
           Open == /\ survivor \in 1..since /\ slot.step = survivor /\ slot.job = 0
                   /\ turn.kind # "following" /\ (turn.kind = "job" => ~turn.begun)
<1>1. events.steps \in 0..MaxSteps /\ events.steps <= events.steps
  BY DEF TypeOK
<1>2. \A t \in queued : t.since <= events.steps
  BY DEF SurvivorIsAccountedFor
<1>3. ASSUME Open PROVE survivor \in Steps /\ survivor # 0 /\ Pending
  BY <1>3 DEF TypeOK, Steps, Pending
<1>4. \A end : Open /\ Consume(end) => fate'[survivor] = end
  BY <1>3 DEF Consume, TypeOK
<1>5. ASSUME UNCHANGED <<since, survivor>>, events'.steps = events.steps, UNCHANGED queued, Open => Untouched
      PROVE  SurvivorIsAccountedFor'
  BY <1>1, <1>2, <1>5, RunningTurnKeepsAccount
<1>6. CASE Checkpoint
  <2>1. /\ UNCHANGED <<since, survivor, queued>>
        /\ events'.steps = events.steps + 1
    BY <1>6 DEF Checkpoint, composed, TypeOK
  <2>2. Open => fate'[survivor] = "dropped"
    <3> SUFFICES ASSUME Open PROVE fate'[survivor] = "dropped"
      OBVIOUS
    <3>1. survivor \in Steps /\ Pending /\ slot.step = survivor /\ survivor # events.steps + 1
      BY <1>1, <1>3 DEF SurvivorIsAccountedFor, TypeOK, Steps
    <3>2. FromEarlierTurn(slot.step)
      BY <3>1 DEF FromEarlierTurn, TypeOK
    <3> QED
      BY <1>6, <3>1, <3>2 DEF Checkpoint
  <2>3. events'.steps >= events.steps /\ events'.steps \in Nat /\ \A t \in queued' : t.since <= events'.steps
    <3>1. \A t \in queued : t.since \in Nat
      BY DEF TypeOK
    <3> QED
      BY <1>1, <1>2, <2>1, <3>1
  <2> QED
    BY <2>1, <2>2, <2>3, RunningTurnKeepsAccount
<1>7. CASE UserTurnComposes
  <2>1. /\ UNCHANGED <<since, survivor, turn, slot>> /\ events'.steps = events.steps
        /\ queued' = queued \cup {[turn |-> events.turns + 1, since |-> events.steps]}
    BY <1>7 DEF UserTurnComposes, KeepSlot, TypeOK
  <2>2. \A t \in queued' : t.since <= events'.steps
    BY <1>1, <1>2, <2>1
  <2>3. Open => Untouched
    BY <2>1
  <2> QED
    BY <1>1, <2>1, <2>2, <2>3, RunningTurnKeepsAccount
<1>8. CASE UserTurnBegins
  <2>1. PICK t \in queued : TurnStarts("user", 0, t.since) /\ queued' = queued \ {t}
    BY <1>8 DEF UserTurnBegins
  <2>2. t.since \in 0..events.steps
    BY <1>1, <1>2 DEF TypeOK
  <2>3. KeepSlot /\ events'.steps = events.steps /\ queued' \subseteq queued
    BY <1>8, <2>1 DEF UserTurnBegins
  <2> QED
    BY <2>1, <2>2, <2>3, StartAccountsForSurvivor DEF TurnKinds
<1>9. CASE DeliveryBegins
  <2>1. /\ TurnStarts("delivery", 0, events.steps) /\ KeepSlot /\ queued' \subseteq queued
        /\ events'.steps = events.steps
    BY <1>9 DEF DeliveryBegins, TypeOK
  <2> QED
    BY <1>1, <2>1, StartAccountsForSurvivor DEF TurnKinds
<1>10. ASSUME NEW j \in JobIds, Claim(j) PROVE SurvivorIsAccountedFor'
  <2>1. /\ TurnStarts("job", j, events.steps) /\ KeepSlot /\ queued' \subseteq queued
        /\ events'.steps = events.steps
    BY <1>10 DEF Claim
  <2>2. /\ "job" \in TurnKinds \ {"following"} /\ j \in {0} \cup JobIds
        /\ events.steps \in 0..events.steps
    BY <1>1 DEF TurnKinds
  <2> QED
    BY <2>1, <2>2, StartAccountsForSurvivor
<1>11. CASE UserTurnContinues
  BY <1>4, <1>5, <1>11 DEF UserTurnContinues, composed
<1>12. CASE TurnIsOver /\ events'.steps = events.steps
  BY <1>12, EndClosesAccount DEF TurnIsOver
<1>13. ASSUME NEW kind \in JobKinds, Request(kind) PROVE SurvivorIsAccountedFor'
  <2>1. UNCHANGED <<since, survivor, queued, slot, turn>> /\ events'.steps = events.steps
    BY <1>13 DEF Request, KeepSlot, composed, TypeOK
  <2> QED
    BY <1>5, <2>1
<1>14. CASE BeginJob
  <2>1. UNCHANGED <<since, survivor, queued>> /\ events' = events
    BY <1>14 DEF BeginJob, composed
  <2>2. Open => fate'[survivor] \in {"continued", "dropped"}
    <3>1. turn.job # 0
      BY <1>14 DEF BeginJob, JobTurnsHaveRows, JobIds
    <3> QED
      BY <1>3, <1>4, <1>14, <3>1 DEF BeginJob, DropIf
  <2> QED
    BY <1>5, <2>1, <2>2
<1>15. CASE JobCompletes /\ UNCHANGED composed
  <2>1. UNCHANGED <<since, survivor, queued>> /\ events' = events /\ turn.kind = "job" /\ turn.begun
    BY <1>15 DEF JobCompletes, composed
  <2> QED
    BY <1>5, <2>1
<1>16. ASSUME NEW j \in JobIds, Stop(j) PROVE SurvivorIsAccountedFor'
  <2>1. /\ UNCHANGED <<since, survivor, queued>> /\ events' = events
        /\ turn'.kind = turn.kind /\ turn'.begun = turn.begun
    BY <1>16 DEF Stop, composed, TypeOK
  <2>2. Open => UNCHANGED slot
    BY <1>16 DEF Stop, DropIf, KeepSlot, JobIds
  <2> QED
    BY <1>5, <2>1, <2>2
<1>17. CASE Sweep
  <2>1. UNCHANGED <<since, survivor, queued, turn>> /\ events' = events
    BY <1>17 DEF Sweep, composed
  <2>2. Open => UNCHANGED slot
    BY <1>17 DEF Sweep, Reconcile, DropIf, KeepSlot
  <2> QED
    BY <1>5, <2>1, <2>2
<1>18. CASE CrashAndReboot
  BY <1>18, EndClosesAccount DEF CrashAndReboot, TypeOK
<1>19. CASE UNCHANGED vars
  BY <1>5, <1>19 DEF vars, composed
<1>20. JobCompletes => UNCHANGED composed \/ (TurnIsOver /\ events'.steps = events.steps)
  BY DEF JobCompletes
<1>21. UserTurnEnds \/ DeliveryEnds \/ FollowUp \/ JobFails \/ JobRetries \/ StoppedJobEnds
         => TurnIsOver /\ events'.steps = events.steps
  BY DEF UserTurnEnds, DeliveryEnds, FollowUp, JobFails, JobRetries, StoppedJobEnds
<1> QED
  BY <1>6, <1>7, <1>8, <1>9, <1>10, <1>11, <1>12, <1>13, <1>14, <1>15, <1>16, <1>17, <1>18, <1>19,
     <1>20, <1>21 DEF Next

\* What becomes of the survivor at the step that ends the turn.
LEMMA EndKeepsSurvivor ==
    ASSUME IInv, SurvivorIsAccountedFor, [Next]_vars,
           turn.kind # "none", turn' = NoTurn, survivor \in 1..since
    PROVE  \/ fate'[survivor] \in {"continued", "dropped"}
           \/ /\ turn.kind # "user" \/ events'.crashes # events.crashes
              /\ slot' = [step |-> survivor, job |-> 0]
<1> USE DEF IInv
<1>1. survivor \in Steps /\ survivor <= events.steps
  BY DEF TypeOK, Steps, SurvivorIsAccountedFor
<1>2. CASE fate[survivor] \in {"continued", "dropped"}
  BY <1>1, <1>2, SettledStepsStay
<1>3. CASE /\ slot.step = survivor /\ slot.job = 0
           /\ turn.kind # "following" /\ (turn.kind = "job" => ~turn.begun)
  <2>1. slot = [step |-> survivor, job |-> 0] /\ Pending
    BY <1>1, <1>3 DEF TypeOK, Pending, Steps
  <2>2. ASSUME NEW end \in {"continued", "dropped"}, Consume(end) PROVE fate'[survivor] \in {"continued", "dropped"}
    BY <1>1, <1>3, <2>2 DEF Consume, TypeOK
  <2>3. CASE UserTurnEnds
    BY <2>1, <2>2, <2>3 DEF UserTurnEnds, DropIf
  <2>4. CASE DeliveryEnds \/ JobFails \/ StoppedJobEnds
    BY <2>1, <2>2, <2>4 DEF DeliveryEnds, JobFails, StoppedJobEnds, DropIf, KeepSlot
  <2>5. CASE CrashAndReboot
    <3>1. events'.crashes # events.crashes
      BY <2>5 DEF CrashAndReboot, TypeOK
    <3>2. UNCHANGED slot
      BY <1>3, <2>5 DEF CrashAndReboot, Reconcile, DropIf, KeepSlot
    <3> QED
      BY <2>1, <3>1, <3>2
  <2>6. UserTurnEnds \/ DeliveryEnds \/ JobFails \/ StoppedJobEnds \/ CrashAndReboot
    <3>1. turn' # turn /\ turn'.kind = "none"
      BY DEF NoTurn
    <3>2. ~FollowUp /\ ~JobCompletes /\ ~JobRetries
      BY <1>3 DEF FollowUp, JobCompletes, JobRetries
    <3>3. ~BeginJob /\ \A j \in JobIds : ~Claim(j) /\ ~Stop(j)
      BY <3>1 DEF BeginJob, Claim, TurnStarts, Stop, TypeOK
    <3>4. ~UserTurnBegins /\ ~DeliveryBegins
      BY DEF UserTurnBegins, DeliveryBegins, TurnStarts
    <3>5. /\ ~Checkpoint /\ ~UserTurnComposes /\ ~UserTurnContinues /\ ~Sweep
          /\ \A kind \in JobKinds : ~Request(kind)
      BY <3>1 DEF Checkpoint, UserTurnComposes, UserTurnContinues, Sweep, Request
    <3>6. ~(UNCHANGED vars)
      BY <3>1 DEF vars
    <3> QED
      BY <3>2, <3>3, <3>4, <3>5, <3>6 DEF Next
  <2> QED
    BY <2>3, <2>4, <2>5, <2>6
<1> QED
  BY <1>2, <1>3 DEF SurvivorIsAccountedFor

LEMMA SurvivorStaysAccountedFor == Spec => [](IInv /\ SurvivorIsAccountedFor)
<1>1. Init => IInv /\ SurvivorIsAccountedFor
  BY InitIInv, InitAccountsForSurvivor
<1>2. IInv /\ SurvivorIsAccountedFor /\ [Next]_vars => (IInv /\ SurvivorIsAccountedFor)'
  BY NextKeeps, NextKeepsAccount
<1> QED
  BY <1>1, <1>2, PTL DEF Spec

\* SurvivorsAreKept: what a turn of any kind finds pending when it is composed is
\* continued, given up aloud or still there when the turn is over, whatever the turn
\* and those in its queue do in between, and however it ends.
THEOREM NoSurvivorIsLostUnsaid == Spec => SurvivorsAreKept
<1>1. IInv /\ SurvivorIsAccountedFor /\ [Next]_vars
        => [turn.kind # "none" /\ turn' = NoTurn /\ survivor \in 1..since =>
              \/ fate'[survivor] \in {"continued", "dropped"}
              \/ /\ turn.kind # "user" \/ events'.crashes # events.crashes
                 /\ slot' = [step |-> survivor, job |-> 0]]_vars
  BY EndKeepsSurvivor
<1> QED
  BY <1>1, SurvivorStaysAccountedFor, PTL DEF Spec, SurvivorsAreKept

-----------------------------------------------------------------------------
(* When a claim is swept. CheckpointSlot lets a sweep come at any moment;    *)
(* LeaseSweep times it. For every timing that satisfies TimingAssumption, no *)
(* run that misses no heartbeat is swept, however the machine sleeps. The    *)
(* reason is OnTime: unless the clock has jumped, a live run has beaten      *)
(* since the last tick, or its heartbeat is due before the next.             *)

\* The runs whose claims a sweep must spare.
Kept(r) == r \in live \ missed /\ row[r] = "claimed"

OnTime ==
    \A r \in Runs :
        Kept(r) => /\ r \in beating
                   /\ Jumped \/ age[r] <= sinceTick \/ beatIn[r] < tickIn

ClaimsAreKept == LeaseTypeOK /\ OnTime

\* The jump is a natural number below the lease.
LEMMA JumpIsShort == Jump \in Nat /\ Jump < Lease /\ Interval \in Nat /\ Lease \in Nat
                     /\ Beat \in Nat /\ Beat < Interval
<1>1. Jump \in Nat /\ Jump = JumpFactor * Interval
  BY TimingAssumption DEF Jump
<1> QED
  BY <1>1, TimingAssumption

LEMMA InitClaimsAreKept == LeaseInit => ClaimsAreKept
<1> SUFFICES ASSUME LeaseInit PROVE ClaimsAreKept
  OBVIOUS
<1>1. LeaseTypeOK
  BY JumpIsShort, BoundsAssumption DEF LeaseInit, LeaseTypeOK, Rows
<1>2. OnTime
  BY DEF LeaseInit, OnTime, Kept
<1> QED
  BY <1>1, <1>2 DEF ClaimsAreKept

\* Time passes for both clocks, or for the wall clock alone.
LEMMA WallClockTypes ==
    ASSUME LeaseTypeOK, NEW n \in Nat, WallClock(n)
    PROVE  /\ age' \in [Runs -> 0..Lease] /\ sinceTick' \in 0..(Jump + 1)
           /\ \A r \in Runs : age'[r] <= age[r] + n
           /\ ~Jumped' => ~Jumped /\ sinceTick' = sinceTick + n
  BY JumpIsShort DEF LeaseTypeOK, WallClock, Min2, Jumped

LEMMA TimersTypes ==
    ASSUME LeaseTypeOK, NEW n \in Nat, Timers(n)
    PROVE  /\ beatIn' \in [Runs -> Int] /\ tickIn' \in Int /\ tickIn' <= Interval
           /\ \A r \in Runs : beatIn'[r] <= Beat
           /\ tickIn' = tickIn - n
           /\ \A r \in beating : r \in Runs => beatIn'[r] = beatIn[r] - n
  BY JumpIsShort DEF LeaseTypeOK, Timers

LEMMA PassKeeps == ASSUME ClaimsAreKept, Pass PROVE ClaimsAreKept'
<1> USE DEF ClaimsAreKept
<1>1. 1 \in Nat /\ WallClock(1) /\ Timers(1)
  BY DEF Pass
<1>2. LeaseTypeOK'
  BY <1>1, WallClockTypes, TimersTypes DEF Pass, LeaseTypeOK
<1>3. OnTime'
  <2> SUFFICES ASSUME NEW r \in Runs, Kept(r)'
               PROVE  /\ r \in beating'
                      /\ Jumped' \/ age'[r] <= sinceTick' \/ beatIn'[r] < tickIn'
    BY DEF OnTime
  <2>1. Kept(r) /\ beating' = beating
    BY DEF Pass, Kept
  <2> QED
    BY <1>1, <2>1, WallClockTypes, TimersTypes, JumpIsShort DEF OnTime, LeaseTypeOK
<1> QED
  BY <1>2, <1>3

LEMMA SuspendKeeps ==
    ASSUME ClaimsAreKept, NEW n \in 1..MaxSuspend, Suspend(n) PROVE ClaimsAreKept'
<1> USE DEF ClaimsAreKept
<1>1. n \in Nat /\ WallClock(n)
  BY BoundsAssumption DEF Suspend
<1>2. Timers(n) \/ UNCHANGED <<beatIn, tickIn>>
  BY DEF Suspend
<1>3. LeaseTypeOK'
  <2>1. suspends' \in 0..MaxSuspends
    BY BoundsAssumption DEF Suspend, LeaseTypeOK
  <2>2. CASE Timers(n)
    BY <1>1, <2>1, <2>2, WallClockTypes, TimersTypes DEF Suspend, LeaseTypeOK
  <2>3. CASE UNCHANGED <<beatIn, tickIn>>
    BY <1>1, <2>1, <2>3, WallClockTypes DEF Suspend, LeaseTypeOK
  <2> QED
    BY <1>2, <2>2, <2>3
<1>4. OnTime'
  <2> SUFFICES ASSUME NEW r \in Runs, Kept(r)'
               PROVE  /\ r \in beating'
                      /\ Jumped' \/ age'[r] <= sinceTick' \/ beatIn'[r] < tickIn'
    BY DEF OnTime
  <2>1. Kept(r) /\ beating' = beating
    BY DEF Suspend, Kept
  <2>2. r \in beating /\ (Jumped \/ age[r] <= sinceTick \/ beatIn[r] < tickIn)
    BY <2>1 DEF OnTime
  <2>3. age'[r] <= age[r] + n /\ (~Jumped' => ~Jumped /\ sinceTick' = sinceTick + n)
    BY <1>1, WallClockTypes
  <2>4. /\ age[r] \in Int /\ age'[r] \in Int /\ sinceTick \in Int
        /\ beatIn[r] \in Int /\ tickIn \in Int
    BY <1>3, JumpIsShort DEF LeaseTypeOK
  <2>5. CASE Timers(n)
    <3>1. tickIn' = tickIn - n /\ beatIn'[r] = beatIn[r] - n
      BY <1>1, <2>5, <2>2, TimersTypes
    <3> QED
      BY <1>1, <2>1, <2>2, <2>3, <2>4, <3>1
  <2>6. CASE UNCHANGED <<beatIn, tickIn>>
    BY <1>1, <2>1, <2>6, <2>2, <2>3, <2>4
  <2> QED
    BY <1>2, <2>5, <2>6
<1> QED
  BY <1>3, <1>4

LEMMA SweepTickKeeps == ASSUME ClaimsAreKept, SweepTick PROVE ClaimsAreKept'
<1> USE DEF ClaimsAreKept
<1>1. LeaseTypeOK'
  BY JumpIsShort DEF SweepTick, TickedAt, LeaseTypeOK, Rows
<1>2. OnTime'
  <2> SUFFICES ASSUME NEW r \in Runs, Kept(r)'
               PROVE  r \in beating' /\ beatIn'[r] < tickIn'
    BY DEF OnTime
  <2>1. Kept(r)
    BY DEF SweepTick, Kept, LeaseTypeOK
  <2>2. beatIn'[r] <= Beat /\ tickIn' = Interval /\ beatIn'[r] \in Int
    BY DEF SweepTick, LeaseTypeOK
  <2> QED
    BY <2>1, <2>2, JumpIsShort DEF OnTime, SweepTick
<1> QED
  BY <1>1, <1>2

LEMMA ClaimLeaseKeeps == ASSUME ClaimsAreKept, NEW r \in Runs, ClaimLease(r) PROVE ClaimsAreKept'
<1> USE DEF ClaimsAreKept
<1>1. LeaseTypeOK'
  BY JumpIsShort DEF ClaimLease, LeaseTypeOK, Rows
<1>2. OnTime'
  <2> SUFFICES ASSUME NEW q \in Runs, Kept(q)'
               PROVE  /\ q \in beating'
                      /\ Jumped' \/ age'[q] <= sinceTick' \/ beatIn'[q] < tickIn'
    BY DEF OnTime
  <2>1. CASE q = r
    BY <2>1, JumpIsShort DEF ClaimLease, LeaseTypeOK
  <2>2. CASE q # r
    <3>1. Kept(q) /\ age'[q] = age[q] /\ beatIn'[q] = beatIn[q]
      BY <2>2 DEF ClaimLease, Kept, LeaseTypeOK
    <3> QED
      BY <3>1 DEF OnTime, ClaimLease, Jumped
  <2> QED
    BY <2>1, <2>2
<1> QED
  BY <1>1, <1>2

LEMMA RunEndsKeeps == ASSUME ClaimsAreKept, NEW r \in Runs, RunEnds(r) PROVE ClaimsAreKept'
<1> USE DEF ClaimsAreKept
<1>1. LeaseTypeOK'
  BY DEF RunEnds, LeaseTypeOK, Rows
<1>2. OnTime'
  <2> SUFFICES ASSUME NEW q \in Runs, Kept(q)'
               PROVE  /\ q \in beating'
                      /\ Jumped' \/ age'[q] <= sinceTick' \/ beatIn'[q] < tickIn'
    BY DEF OnTime
  <2>1. q # r /\ Kept(q)
    BY DEF RunEnds, Kept, LeaseTypeOK
  <2> QED
    BY <2>1 DEF OnTime, RunEnds, Jumped
<1> QED
  BY <1>1, <1>2

LEMMA HeartbeatKeeps == ASSUME ClaimsAreKept, NEW r \in Runs, Heartbeat(r) PROVE ClaimsAreKept'
<1> USE DEF ClaimsAreKept
<1>1. LeaseTypeOK'
  <2>1. CASE row[r] = "claimed"
    BY <2>1, JumpIsShort DEF Heartbeat, LeaseTypeOK
  <2>2. CASE row[r] # "claimed"
    BY <2>2 DEF Heartbeat, LeaseTypeOK
  <2> QED
    BY <2>1, <2>2
<1>2. OnTime'
  <2> SUFFICES ASSUME NEW q \in Runs, Kept(q)'
               PROVE  /\ q \in beating'
                      /\ Jumped' \/ age'[q] <= sinceTick' \/ beatIn'[q] < tickIn'
    BY DEF OnTime
  <2>1. CASE q = r
    <3>1. row[r] = "claimed" /\ r \in beating
      BY <2>1 DEF Heartbeat, BeatRuns, Kept
    <3>2. beating' = beating /\ age'[r] = 0 /\ sinceTick' \in Nat
      BY <3>1, JumpIsShort DEF Heartbeat, LeaseTypeOK
    <3> QED
      BY <2>1, <3>1, <3>2
  <2>2. CASE q # r
    <3>1. Kept(q) /\ age'[q] = age[q] /\ beatIn'[q] = beatIn[q]
      BY <2>2 DEF Heartbeat, Kept, LeaseTypeOK
    <3>2. q \in beating'
      BY <2>2, <3>1 DEF Heartbeat, OnTime
    <3> QED
      BY <3>1, <3>2 DEF OnTime, Heartbeat, Jumped
  <2> QED
    BY <2>1, <2>2
<1> QED
  BY <1>1, <1>2

LEMMA HeartbeatFailsKeeps ==
    ASSUME ClaimsAreKept, NEW r \in Runs, HeartbeatFails(r) PROVE ClaimsAreKept'
<1> USE DEF ClaimsAreKept
<1>1. LeaseTypeOK'
  BY JumpIsShort DEF HeartbeatFails, LeaseTypeOK
<1>2. OnTime'
  <2> SUFFICES ASSUME NEW q \in Runs, Kept(q)'
               PROVE  /\ q \in beating'
                      /\ Jumped' \/ age'[q] <= sinceTick' \/ beatIn'[q] < tickIn'
    BY DEF OnTime
  <2>1. q # r /\ Kept(q)
    BY DEF HeartbeatFails, Kept
  <2>2. beatIn'[q] = beatIn[q]
    BY <2>1 DEF HeartbeatFails, LeaseTypeOK
  <2> QED
    BY <2>1, <2>2 DEF OnTime, HeartbeatFails, Jumped
<1> QED
  BY <1>1, <1>2

LEMMA LeaseStepKeeps == ASSUME ClaimsAreKept, [LeaseNext]_leaseVars PROVE ClaimsAreKept'
<1>1. CASE UNCHANGED leaseVars
  BY <1>1 DEF ClaimsAreKept, LeaseTypeOK, OnTime, Kept, Jumped, leaseVars
<1>2. CASE LeaseNext
  BY <1>2, PassKeeps, SuspendKeeps, SweepTickKeeps, ClaimLeaseKeeps, RunEndsKeeps,
     HeartbeatKeeps, HeartbeatFailsKeeps DEF LeaseNext
<1> QED
  BY <1>1, <1>2

LEMMA ClaimsStayKept == LeaseSpec => []ClaimsAreKept
  BY InitClaimsAreKept, LeaseStepKeeps, PTL DEF LeaseSpec

\* LeaseTypeOK: the shapes, the bounds of the clocks and that only live runs
\* beat, for every timing.
THEOREM SweeperTypeCorrect == LeaseSpec => []LeaseTypeOK
<1>1. ClaimsAreKept => LeaseTypeOK
  BY DEF ClaimsAreKept
<1> QED
  BY <1>1, ClaimsStayKept, PTL

\* What a tick sweeps had not been extended since the last: the step of
\* LiveRunsAreNeverSwept.
LEMMA StepSparesTheLive ==
    ASSUME ClaimsAreKept, [LeaseNext]_leaseVars
    PROVE  \A r \in live \ missed : row'[r] = "swept" => row[r] = "swept"
<1> SUFFICES ASSUME NEW r \in live \ missed, row'[r] = "swept", row[r] # "swept"
             PROVE  FALSE
  OBVIOUS
<1>1. r \in Runs
  BY DEF ClaimsAreKept, LeaseTypeOK
<1>2. CASE SweepTick
  <2>1. ~Jumped /\ Kept(r) /\ Lapsed(r)
    BY <1>1, <1>2 DEF SweepTick, Kept
  <2>2. r \in beating /\ (age[r] <= sinceTick \/ beatIn[r] < tickIn)
    BY <1>1, <2>1 DEF ClaimsAreKept, OnTime
  <2>3. ~(beatIn[r] < tickIn)
    BY <1>1, <1>2, <2>2 DEF SweepTick, ClaimsAreKept, LeaseTypeOK
  <2> QED
    BY <1>1, <2>1, <2>2, <2>3, JumpIsShort DEF ClaimsAreKept, LeaseTypeOK, Jumped, Lapsed
<1>3. CASE ~SweepTick
  BY <1>1, <1>3 DEF ClaimsAreKept, LeaseTypeOK, LeaseNext, leaseVars, Pass, Suspend,
     ClaimLease, RunEnds, Heartbeat, HeartbeatFails
<1> QED
  BY <1>2, <1>3

\* LiveRunsAreNeverSwept for every timing in which a heartbeat is shorter than
\* the sweep's interval and a jump shorter than the lease: a run at work that
\* has missed no heartbeat keeps its claim, however the machine sleeps.
THEOREM SweepsSpareTheLive == LeaseSpec => LiveRunsAreNeverSwept
<1>1. ClaimsAreKept /\ [LeaseNext]_leaseVars
        => [\A r \in live \ missed : row'[r] = "swept" => row[r] = "swept"]_leaseVars
  BY StepSparesTheLive
<1> QED
  BY <1>1, ClaimsStayKept, PTL DEF LeaseSpec, LiveRunsAreNeverSwept

=============================================================================
