--------------------------- MODULE CheckpointSlot ---------------------------
(***************************************************************************)
(* The checkpoint slot of one continuing conversation: a turn that stops   *)
(* early leaves its next step in the slot, and one rail or the other       *)
(* continues it. The interactive loop continues in place; a delegated job  *)
(* hands the slot to a follow-up job, whose claim takes it.                *)
(*                                                                         *)
(* The conversation is a workspace's or a session's; its lock admits one   *)
(* turn at a time. A user's turn is composed before it waits for the lock, *)
(* any other turn under it. A step is named by the number of the           *)
(* checkpoint that left it.                                                *)
(***************************************************************************)
EXTENDS Naturals

CONSTANTS
    Cap,          \* MAX_CONSECUTIVE_CONTINUATIONS
    MaxAttempts,  \* attempts of a job's turn
    MaxSteps,     \* bound on checkpoints
    MaxRequests,  \* bound on jobs that are asked for
    MaxTurns,     \* bound on interactive turns and deliveries
    MaxCrashes    \* bound on crashes

ASSUME CheckpointBoundsAssumption ==
    /\ Cap \in Nat \ {0} /\ MaxAttempts \in Nat \ {0}
    /\ MaxSteps \in Nat /\ MaxRequests \in Nat /\ MaxTurns \in Nat /\ MaxCrashes \in Nat

VARIABLES
    slot,     \* the step in the slot and the job it is handed to (0: none)
    depth,    \* pendingCheckpointDepth
    jobs,     \* the queue's rows that target this conversation
    turn,     \* the turn under the conversation's lock
    since,    \* the last step left before that turn was composed
    queued,   \* user's turns that are composed and wait for the lock
    survivor, \* history: the step that was pending when the turn started
    fate,     \* history: what became of each step
    granted,  \* history: continuations granted since the last genuine turn
    halted,   \* history: steps left by a job's turn that the user stopped
    events    \* what the bounds count

composed == <<since, queued, survivor>>
vars == <<slot, depth, jobs, turn, composed, fate, granted, halted, events>>

Steps  == 1..MaxSteps
\* Each step has at most one follow-up, so a row is always left for it.
JobIds == 1..(MaxRequests + MaxSteps)

\* `open': in the slot; `replaced': by a later checkpoint, unsaid; `carried':
\* replaced while handed over, so that only its job's text names it.
Fates == {"unmade", "open", "continued", "dropped", "replaced", "carried"}
JobStatuses == {"absent", "pending", "claimed", "settled"}
JobKinds == {"task", "note"}
\* `following': a completed job's turn, its follow-up still to be enqueued.
TurnKinds == {"none", "user", "delivery", "job", "following"}

Empty  == [step |-> 0, job |-> 0]
NoTurn == [kind |-> "none", job |-> 0, begun |-> FALSE, stopped |-> FALSE]
NoJob  == [status |-> "absent", kind |-> "task", attempts |-> 0, step |-> 0, taken |-> FALSE]
Row(k, s) == [NoJob EXCEPT !.status = "pending", !.kind = k, !.step = s]

Init ==
    /\ slot = Empty /\ depth = 0
    /\ jobs = [j \in JobIds |-> NoJob]
    /\ turn = NoTurn /\ since = 0 /\ queued = {} /\ survivor = 0
    /\ fate = [s \in Steps |-> "unmade"]
    /\ granted = 0 /\ halted = {}
    /\ events = [steps |-> 0, requests |-> 0, turns |-> 0, crashes |-> 0]

-----------------------------------------------------------------------------
\* The slot

\* Mutant: a handed-over slot still looks pending.
PendingOrHanded == slot.step # 0

Pending == slot.step # 0 /\ slot.job = 0

Consume(end) ==
    /\ slot' = Empty
    /\ fate' = [fate EXCEPT ![slot.step] = end]

KeepSlot == UNCHANGED <<slot, fate>>

\* A step given up leaves a note on the thread.
DropIf(cond) ==
    \/ cond /\ Consume("dropped")
    \/ ~cond /\ KeepSlot

\* Mutant: one continuation past the cap.
WithinCapAndOne == depth <= Cap

WithinCap == depth < Cap

\* Mutant: every step in the slot is taken for this turn's own.
NoneFromEarlier(s) == FALSE

\* checkpointedAt lies before the turn's composition.
FromEarlierTurn(s) == s <= since

\* Mutant: only a vanished row releases its slot.
OnlyVanished(status) == status = "absent"

CannotClaim(status) == status \in {"absent", "settled"}

\* With the rows as in js, a slot handed to a job that can no longer claim it
\* is released and dropped.
Reconcile(js) ==
    /\ jobs' = js
    /\ DropIf(slot.job # 0 /\ CannotClaim(js[slot.job].status))

-----------------------------------------------------------------------------
\* Turns

\* A turn gets the lock; it was composed when s was the last step.
TurnStarts(kind, j, s) ==
    /\ turn.kind = "none"
    /\ turn' = [NoTurn EXCEPT !.kind = kind, !.job = j, !.begun = (kind # "job")]
    /\ since' = s
    /\ survivor' = IF Pending THEN slot.step ELSE 0

LockReleased == turn' = NoTurn /\ since' = 0 /\ survivor' = 0

TurnIsOver == LockReleased /\ UNCHANGED queued

Running == turn.kind \in {"user", "delivery", "job"} /\ turn.begun

\* The checkpoint tool: a step that is older than the turn's composition is given
\* up out loud first. A newer one is replaced: it is the turn's own, or another
\* turn left it while this one waited for the lock.
Checkpoint ==
    /\ Running /\ events.steps < MaxSteps
    /\ LET new == events.steps + 1
           end == IF ~Pending THEN "carried"
                  ELSE IF FromEarlierTurn(slot.step) THEN "dropped" ELSE "replaced"
       IN  /\ slot' = [step |-> new, job |-> 0]
           /\ fate' = [s \in Steps |-> IF s = new THEN "open"
                                       ELSE IF s = slot.step THEN end ELSE fate[s]]
           /\ events' = [events EXCEPT !.steps = new]
    /\ UNCHANGED <<depth, jobs, turn, composed, granted, halted>>

\* The session's tools are built, with the turn's start in them. (A turn that
\* gives up in the lock's queue is one that never begins.)
UserTurnComposes ==
    /\ turn.kind # "following" /\ events.turns < MaxTurns
    /\ events' = [events EXCEPT !.turns = @ + 1]
    /\ queued' = queued \cup {[turn |-> events.turns + 1, since |-> events.steps]}
    /\ KeepSlot /\ UNCHANGED <<depth, jobs, turn, since, survivor, granted, halted>>

\* The turn gets the lock: the guard starts over, a survivor stays.
UserTurnBegins ==
    \E t \in queued :
        /\ TurnStarts("user", 0, t.since)
        /\ queued' = queued \ {t}
        /\ depth' = 0 /\ granted' = 0
        /\ KeepSlot /\ UNCHANGED <<jobs, halted, events>>

\* The turn completed and its step is continued in place.
UserTurnContinues ==
    /\ turn.kind = "user" /\ Pending /\ WithinCap
    /\ depth' = depth + 1 /\ granted' = granted + 1
    /\ Consume("continued")
    /\ UNCHANGED <<jobs, turn, composed, halted, events>>

\* The turn completed with nothing pending or past the cap, or was stopped,
\* failed or cut short: what is pending is dropped.
UserTurnEnds ==
    /\ turn.kind = "user" /\ TurnIsOver
    /\ DropIf(Pending)
    /\ UNCHANGED <<depth, jobs, granted, halted, events>>

DeliveryBegins ==
    /\ TurnStarts("delivery", 0, events.steps) /\ events.turns < MaxTurns
    /\ events' = [events EXCEPT !.turns = @ + 1]
    /\ KeepSlot /\ UNCHANGED <<depth, jobs, queued, granted, halted>>

\* A delivery never continues, and drops a step of its own only.
DeliveryEnds ==
    /\ turn.kind = "delivery" /\ TurnIsOver
    /\ DropIf(Pending /\ ~FromEarlierTurn(slot.step))
    /\ UNCHANGED <<depth, jobs, granted, halted, events>>

-----------------------------------------------------------------------------
\* Jobs

NextJob ==
    CHOOSE j \in JobIds :
        /\ jobs[j].status = "absent"
        /\ \A i \in JobIds : i < j => jobs[i].status # "absent"

Request(kind) ==
    /\ turn.kind # "following" /\ events.requests < MaxRequests
    /\ events' = [events EXCEPT !.requests = @ + 1]
    /\ jobs' = [jobs EXCEPT ![NextJob] = Row(kind, 0)]
    /\ KeepSlot /\ UNCHANGED <<depth, turn, composed, granted, halted>>

Claim(j) ==
    /\ jobs[j].status = "pending" /\ TurnStarts("job", j, events.steps)
    /\ jobs' = [jobs EXCEPT ![j].status = "claimed"]
    /\ KeepSlot /\ UNCHANGED <<depth, queued, granted, halted, events>>

\* beginDelegatedTurn: a follow-up takes the slot it was handed; any other
\* claim reads as a genuine turn, resets the guard and drops what is pending.
\* (Of these, a follow-up that took its step at an earlier attempt is no new
\* request, and the history does not count it as one.)
BeginJob ==
    /\ turn.kind = "job" /\ ~turn.begun
    /\ turn' = [turn EXCEPT !.begun = TRUE]
    /\ \/ /\ slot.job = turn.job
          /\ Consume("continued")
          /\ jobs' = [jobs EXCEPT ![turn.job].taken = TRUE]
          /\ UNCHANGED <<depth, granted>>
       \/ /\ slot.job # turn.job
          /\ depth' = 0
          /\ granted' = IF jobs[turn.job].taken THEN granted ELSE 0
          /\ DropIf(Pending)
          /\ UNCHANGED jobs
    /\ UNCHANGED <<composed, halted, events>>

Owns == jobs[turn.job].status = "claimed"

Settled(j) == [jobs EXCEPT ![j].status = "settled"]

JobCompletes ==
    /\ turn.kind = "job" /\ turn.begun /\ ~turn.stopped
    /\ \/ /\ Owns
          /\ jobs' = Settled(turn.job)
          /\ turn' = [turn EXCEPT !.kind = "following"]
          /\ UNCHANGED composed
       \/ ~Owns /\ TurnIsOver /\ UNCHANGED jobs
    /\ KeepSlot /\ UNCHANGED <<depth, granted, halted, events>>

\* enqueueCheckpointContinuation, one transaction.
FollowUp ==
    /\ turn.kind = "following" /\ TurnIsOver
    /\ LET continues == Pending /\ jobs[turn.job].kind # "note" /\ WithinCap IN
       \/ /\ continues
          /\ depth' = depth + 1 /\ granted' = granted + 1
          /\ jobs' = [jobs EXCEPT ![NextJob] = Row("task", slot.step)]
          /\ slot' = [slot EXCEPT !.job = NextJob]
          /\ UNCHANGED fate
       \/ /\ ~continues
          /\ DropIf(Pending)
          /\ UNCHANGED <<depth, granted, jobs>>
    /\ UNCHANGED <<halted, events>>

\* The run throws, at any point, or the turn fails for good.
JobFails ==
    /\ turn.kind = "job" /\ ~turn.stopped /\ TurnIsOver
    /\ jobs' = IF Owns THEN Settled(turn.job) ELSE jobs
    /\ KeepSlot /\ UNCHANGED <<depth, granted, halted, events>>

\* A transient failure: the row goes back to pending for another attempt.
JobRetries ==
    /\ turn.kind = "job" /\ turn.begun /\ ~turn.stopped /\ Owns /\ TurnIsOver
    /\ jobs[turn.job].attempts + 1 < MaxAttempts
    /\ jobs' = [jobs EXCEPT ![turn.job].status = "pending", ![turn.job].attempts = @ + 1]
    /\ KeepSlot /\ UNCHANGED <<depth, granted, halted, events>>

\* A stopped turn ends: the row fails, and the slot is left as it is.
StoppedJobEnds ==
    /\ turn.kind = "job" /\ turn.stopped /\ TurnIsOver
    /\ jobs' = IF Owns THEN Settled(turn.job) ELSE jobs
    /\ halted' = IF Pending THEN halted \cup ({slot.step} \ 0..since) ELSE halted
    /\ KeepSlot /\ UNCHANGED <<depth, granted, events>>

\* The stop route: a pending row fails and gives up the slot handed to it; a
\* claimed one's run is flagged.
Stop(j) ==
    /\ turn.kind # "following"
    /\ \/ /\ jobs[j].status = "pending"
          /\ jobs' = Settled(j)
          /\ DropIf(slot.job = j)
          /\ UNCHANGED turn
       \/ /\ jobs[j].status = "claimed"
          /\ turn' = [turn EXCEPT !.stopped = TRUE]
          /\ KeepSlot /\ UNCHANGED jobs
    /\ UNCHANGED <<depth, composed, granted, halted, events>>

\* Orphans fail, except that a note is queued again.
Orphaned(js) ==
    [j \in JobIds |-> IF j \in js
                      THEN [jobs[j] EXCEPT !.status = IF jobs[j].kind = "note" THEN "pending"
                                                      ELSE "settled"]
                      ELSE jobs[j]]

Claimed == {j \in JobIds : jobs[j].status = "claimed"}

\* The sweep: rows whose lease lapsed, if any, then the slots of settled jobs.
Sweep ==
    /\ turn.kind # "following"
    /\ \E js \in SUBSET Claimed : Reconcile(Orphaned(js))
    /\ UNCHANGED <<depth, turn, composed, granted, halted, events>>

CrashAndReboot ==
    /\ events.crashes < MaxCrashes
    /\ events' = [events EXCEPT !.crashes = @ + 1]
    /\ LockReleased /\ queued' = {}
    /\ Reconcile(Orphaned(Claimed))
    /\ UNCHANGED <<depth, granted, halted>>

Next ==
    \/ Checkpoint
    \/ UserTurnComposes \/ UserTurnBegins \/ UserTurnContinues \/ UserTurnEnds
    \/ DeliveryBegins \/ DeliveryEnds
    \/ \E kind \in JobKinds : Request(kind)
    \/ \E j \in JobIds : Claim(j) \/ Stop(j)
    \/ BeginJob \/ JobCompletes \/ FollowUp \/ JobFails \/ JobRetries \/ StoppedJobEnds
    \/ Sweep \/ CrashAndReboot

Spec == Init /\ [][Next]_vars

\* The sweep timer keeps firing, and a stretch of code goes on.
FairSpec == Spec /\ WF_vars(Sweep) /\ WF_vars(FollowUp)

-----------------------------------------------------------------------------

\* Every variable keeps its shape; the depth never passes the cap.
TypeOK ==
    /\ slot \in [step : {0} \cup Steps, job : {0} \cup JobIds]
    /\ slot.job # 0 => slot.step # 0
    /\ depth \in 0..Cap
    /\ jobs \in [JobIds -> [status : JobStatuses, kind : JobKinds, attempts : 0..(MaxAttempts - 1),
                            step : {0} \cup Steps, taken : BOOLEAN]]
    /\ turn \in [kind : TurnKinds, job : {0} \cup JobIds, begun : BOOLEAN, stopped : BOOLEAN]
    /\ since \in 0..MaxSteps
    /\ queued \subseteq [turn : 1..MaxTurns, since : 0..MaxSteps]
    /\ survivor \in {0} \cup Steps
    /\ fate \in [Steps -> Fates]
    /\ granted \in Nat
    /\ halted \subseteq Steps
    /\ events \in [steps : 0..MaxSteps, requests : 0..MaxRequests, turns : 0..MaxTurns,
                   crashes : 0..MaxCrashes]

\* No step has two takers: while a follow-up waits for its first claim, no turn
\* in between continues or drops the step it was handed.
QueuedFollowUpOwnsItsStep ==
    \A j \in JobIds :
        /\ jobs[j].status \in {"pending", "claimed"} /\ jobs[j].step # 0 /\ ~jobs[j].taken
        => slot = [step |-> jobs[j].step, job |-> j] \/ fate[jobs[j].step] = "carried"

\* A step that a turn finds pending is not lost unsaid: when the turn is over it
\* has been continued or given up aloud, or it is still pending after a delivery, a
\* job that never began or a crash. (Spared is what was left while the turn waited for
\* the lock: the checkpoint tool takes that for the turn's own.)
SurvivorsAreKept ==
    [][turn.kind # "none" /\ turn' = NoTurn /\ survivor \in 1..since =>
          \/ fate'[survivor] \in {"continued", "dropped"}
          \/ /\ turn.kind # "user" \/ events'.crashes # events.crashes
             /\ slot' = [step |-> survivor, job |-> 0]]_vars

\* The guard against a model that checkpoints forever: as long as no job's turn is
\* retried, no more than Cap continuations are granted between two genuine turns.
RunawayGuardUnlessRetried ==
    (\A j \in JobIds : jobs[j].attempts = 0) => granted <= Cap

\* What the user stopped is not started again by the runtime.
StoppedWorkStaysStopped == \A s \in halted : fate[s] # "continued"

\* A slot whose job can no longer claim it does not dangle: the next sweep
\* gives it up.
HandOverIsResolved ==
    \A j \in JobIds :
        slot.job = j /\ jobs[j].status = "settled" ~> slot.job # j

=============================================================================
