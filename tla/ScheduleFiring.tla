--------------------------- MODULE ScheduleFiring ---------------------------
(***************************************************************************)
(* The schedule poll: once a minute the due schedules are offered to one   *)
(* process-wide fire pool; a worker that has a slot of the pool claims the *)
(* schedule's due time with a compare-and-swap and fires it, or records    *)
(* that it was missed.                                                     *)
(*                                                                         *)
(* Time is counted in poll intervals.  Everything between two awaits runs  *)
(* undisturbed (`Quiet'), but each commit is a step of its own, since the  *)
(* process may be killed between them.                                     *)
(***************************************************************************)
EXTENDS Naturals, Sequences, FiniteSets

CONSTANTS
    Schedules,
    OneTime,      \* schedules with a fixed instant instead of a cron
    Crons,        \* the sets of minutes that cron expressions name
    FirstCron,    \* what each schedule is created with
    Horizon,      \* the last minute told apart (bound)
    MaxFires,     \* slots of the fire pool
    MaxCrashes,   \* kills (bound)
    MaxRequests   \* edits and uses of "Run now" (bound)

Times == 0..Horizon
Never == Horizon + 1

ASSUME OneTimeAssumption == OneTime \subseteq Schedules
ASSUME HorizonAssumption == Horizon \in Nat
ASSUME CronAssumption ==
    Crons \subseteq SUBSET Times /\ FirstCron \in [Schedules -> Crons]
ASSUME MaxFiresAssumption == MaxFires \in Nat \ {0}

VARIABLES
    now,        \* the minute
    up,         \* the process is running
    polled,     \* the poll of this minute has run, or the timer skips it
    next,       \* nextScheduledFireAt
    enabled,    \* isEnabled; a deleted schedule counts as disabled
    catchUp,    \* catchUpOnMiss
    cron,       \* the minutes the cron expression names
    gone,       \* deleted schedules
    listed,     \* due schedules the running tick has yet to offer
    stage,      \* how far the schedule's fire is in the pool
    waiters,    \* fires waiting for a slot of the pool
    active,     \* activeCount
    job,        \* what the fire in the pool carries
    rows,       \* schedule_runs
    runs,       \* run rows written so far
    crashes, requests,
    \* history
    owed,       \* due times claimed and not accounted for yet
    onTime      \* due times offered while fresh and not fired yet

clockVars == <<now, up, polled>>
tableVars == <<next, enabled, catchUp, cron, gone>>
poolVars  == <<stage, waiters, active, job>>
rowVars   == <<rows, runs>>
budgets   == <<crashes, requests>>
history   == <<owed, onTime>>
vars == <<clockVars, tableVars, listed, poolVars, rowVars, budgets, history>>

Stages == {"out", "waiting", "granted", "claimed", "firing"}

\* A fire that has a slot of the pool.
Holding(st) == {s \in Schedules : st[s] \in {"granted", "claimed", "firing"}}

NoJob == [door |-> "none", due |-> 0, at |-> 0, cron |-> {}, catchUp |-> FALSE, run |-> 0]

\* The snapshot of the row that a tick, or "Run now", takes into the pool.
Jobs == [door : {"none", "poll", "manual"}, due : Times, at : Times,
         cron : Crons \cup {{}}, catchUp : BOOLEAN, run : Nat]

Rows == [id : Nat, schedule : Schedules, at : Times,
         trigger : {"poll", "manual"}, status : {"running", "ended", "missed"}]

\* Mutant: the slot just taken counts as the next one.
NextRunInclusive(c, t) ==
    LET later == {u \in c : u >= t} IN
    IF later = {} THEN Never ELSE CHOOSE u \in later : \A v \in later : u <= v

\* The first minute the cron names after t.
NextRun(c, t) ==
    LET later == {u \in c : u > t} IN
    IF later = {} THEN Never ELSE CHOOSE u \in later : \A v \in later : u <= v

Init ==
    /\ now = 0 /\ up = TRUE /\ polled = TRUE
    /\ next = [s \in Schedules |-> NextRun(FirstCron[s], 0)]
    /\ enabled = [s \in Schedules |-> TRUE]
    /\ catchUp \in [Schedules -> BOOLEAN]
    /\ cron = FirstCron
    /\ gone = {} /\ listed = {}
    /\ stage = [s \in Schedules |-> "out"]
    /\ waiters = <<>> /\ active = 0
    /\ job = [s \in Schedules |-> NoJob]
    /\ rows = {} /\ runs = [s \in Schedules |-> 0]
    /\ crashes = 0 /\ requests = 0
    /\ owed = {} /\ onTime = {}

\* No piece of synchronous code is half way through.
Quiet == listed = {} /\ \A s \in Schedules : stage[s] # "claimed"

-----------------------------------------------------------------------------
\* The fire pool.

AcquireSlot(s) ==
    \/ /\ active < MaxFires
       /\ active' = active + 1
       /\ stage' = [stage EXCEPT ![s] = "granted"]
       /\ UNCHANGED waiters
    \/ /\ active >= MaxFires
       /\ stage' = [stage EXCEPT ![s] = "waiting"]
       /\ waiters' = Append(waiters, s)
       /\ UNCHANGED active

\* Mutant: a hand-over frees the slot as well.
LeaveAndFree(s) ==
    /\ job' = [job EXCEPT ![s] = NoJob]
    /\ active' = active - 1
    /\ \/ /\ waiters # <<>>
          /\ stage' = [stage EXCEPT ![s] = "out", ![Head(waiters)] = "granted"]
          /\ waiters' = Tail(waiters)
       \/ /\ waiters = <<>>
          /\ stage' = [stage EXCEPT ![s] = "out"]
          /\ UNCHANGED waiters

\* Mutant: a waiter is not woken.
LeaveUnshared(s) ==
    /\ job' = [job EXCEPT ![s] = NoJob]
    /\ stage' = [stage EXCEPT ![s] = "out"]
    /\ active' = active - 1
    /\ UNCHANGED waiters

\* The fire of s is over, one way or another: its slot goes straight to the
\* first waiter, or is freed.
LeavePool(s) ==
    /\ job' = [job EXCEPT ![s] = NoJob]
    /\ \/ /\ waiters # <<>>
          /\ stage' = [stage EXCEPT ![s] = "out", ![Head(waiters)] = "granted"]
          /\ waiters' = Tail(waiters)
          /\ UNCHANGED active
       \/ /\ waiters = <<>>
          /\ stage' = [stage EXCEPT ![s] = "out"]
          /\ active' = active - 1
          /\ UNCHANGED waiters

-----------------------------------------------------------------------------
\* The tick.

Due == {s \in Schedules : enabled[s] /\ next[s] <= now}

Poll ==
    /\ up /\ ~polled /\ Quiet
    /\ polled' = TRUE
    /\ listed' = Due
    /\ UNCHANGED <<now, up, tableVars, poolVars, rowVars, budgets, history>>

\* "More than 1.5 poll intervals."
Overdue(due, at) == at >= due + 2

Offer(s) == [door |-> "poll", due |-> next[s], at |-> now, cron |-> cron[s],
             catchUp |-> catchUp[s], run |-> 0]

\* Mutant: the whole batch is claimed up front.
AdmitClaimed(s) ==
    /\ s \in listed
    /\ listed' = listed \ {s}
    /\ \/ /\ stage[s] # "out"
          /\ UNCHANGED <<next, poolVars, owed, onTime>>
       \/ /\ stage[s] = "out"
          /\ job' = [job EXCEPT ![s] = Offer(s)]
          /\ next' = [next EXCEPT ![s] = Never]
          /\ owed' = owed \cup {<<s, next[s]>>}
          /\ AcquireSlot(s)
          /\ UNCHANGED onTime
    /\ UNCHANGED <<clockVars, enabled, catchUp, cron, gone, rowVars, budgets>>

\* One due schedule is offered to the pool, unless a fire of it is there.
Admit(s) ==
    /\ s \in listed
    /\ listed' = listed \ {s}
    /\ \/ /\ stage[s] # "out"
          /\ UNCHANGED <<poolVars, onTime>>
       \/ /\ stage[s] = "out"
          /\ job' = [job EXCEPT ![s] = Offer(s)]
          /\ onTime' = IF Overdue(next[s], now) THEN onTime ELSE onTime \cup {<<s, next[s]>>}
          /\ AcquireSlot(s)
    /\ UNCHANGED <<clockVars, tableVars, rowVars, budgets, owed>>

\* Mutant: the claim writes without comparing.
Unclaimed(s) == TRUE

\* The compare of the claim: the row still shows the time the tick observed.
StillDue(s) == next[s] = job[s].due

\* A one-time schedule has no next time; a cron's is computed from the tick.
NextAfterClaim(s) == IF s \in OneTime THEN Never ELSE NextRun(job[s].cron, job[s].at)

\* The worker's first commit.
Claim(s) ==
    /\ stage[s] = "granted" /\ job[s].door = "poll" /\ Quiet
    /\ \/ /\ StillDue(s)
          /\ next' = [next EXCEPT ![s] = NextAfterClaim(s)]
          /\ owed' = owed \cup {<<s, job[s].due>>}
          /\ stage' = [stage EXCEPT ![s] = "claimed"]
          /\ UNCHANGED <<waiters, active, job>>
       \/ /\ ~StillDue(s)
          /\ LeavePool(s)
          /\ UNCHANGED <<next, owed>>
    /\ UNCHANGED <<clockVars, enabled, catchUp, cron, gone, listed, rowVars, budgets, onTime>>

\* Mutant: the worker's clock judges.
MissedByNow(s) == Overdue(job[s].due, now) /\ ~job[s].catchUp

\* The tick's clock judges: a time that waited for the pool was not missed.
Missed(s) == Overdue(job[s].due, job[s].at) /\ ~job[s].catchUp

Row(s, at, trigger, status) ==
    [id |-> runs[s] + 1, schedule |-> s, at |-> at, trigger |-> trigger, status |-> status]

\* A missed time: the row and its announcement are one commit.
RecordMissed(s) ==
    /\ stage[s] = "claimed" /\ Missed(s)
    /\ rows' = rows \cup {Row(s, job[s].due, "poll", "missed")}
    /\ runs' = [runs EXCEPT ![s] = @ + 1]
    /\ owed' = owed \ {<<s, job[s].due>>}
    /\ LeavePool(s)
    /\ UNCHANGED <<clockVars, tableVars, listed, budgets, onTime>>

\* The executor: a paused schedule throws before a row is written; else the
\* run row is inserted and the turn starts.
FireSchedule(s, at, trigger) ==
    \/ /\ enabled[s]
       /\ rows' = rows \cup {Row(s, at, trigger, "running")}
       /\ runs' = [runs EXCEPT ![s] = @ + 1]
       /\ stage' = [stage EXCEPT ![s] = "firing"]
       /\ job' = [job EXCEPT ![s].run = runs[s] + 1]
       /\ UNCHANGED <<waiters, active>>
    \/ /\ ~enabled[s]
       /\ LeavePool(s)
       /\ UNCHANGED rowVars

FireDue(s) ==
    /\ stage[s] = "claimed" /\ ~Missed(s)
    /\ FireSchedule(s, job[s].due, "poll")
    /\ owed' = owed \ {<<s, job[s].due>>}
    /\ onTime' = onTime \ {<<s, job[s].due>>}
    /\ UNCHANGED <<clockVars, tableVars, listed, budgets>>

\* The terminal writes of a fire; a schedule deleted meanwhile has no row left
\* and both commits throw.
Ended(s) ==
    {IF r.schedule = s /\ r.id = job[s].run THEN [r EXCEPT !.status = "ended"] ELSE r :
        r \in rows}

EndFire(s) ==
    /\ stage[s] = "firing" /\ Quiet
    /\ rows' = Ended(s)
    /\ LeavePool(s)
    /\ UNCHANGED <<clockVars, tableVars, listed, runs, budgets, history>>

ByHand == [door |-> "manual", due |-> 0, at |-> now, cron |-> {}, catchUp |-> FALSE, run |-> 0]

\* "Run now" declines rather than waits; its fire claims no due time.
RunNow(s) ==
    /\ up /\ Quiet /\ requests < MaxRequests
    /\ enabled[s] /\ stage[s] = "out" /\ active < MaxFires
    /\ requests' = requests + 1
    /\ job' = [job EXCEPT ![s] = ByHand]
    /\ AcquireSlot(s)
    /\ UNCHANGED <<clockVars, tableVars, listed, rowVars, crashes, history>>

StartManual(s) ==
    /\ stage[s] = "granted" /\ job[s].door = "manual" /\ Quiet
    /\ FireSchedule(s, job[s].at, "manual")
    /\ UNCHANGED <<clockVars, tableVars, listed, budgets, history>>

-----------------------------------------------------------------------------
\* The user's edits.

Edit ==
    /\ up /\ Quiet /\ requests < MaxRequests
    /\ requests' = requests + 1
    /\ UNCHANGED <<clockVars, listed, poolVars, runs, crashes, history>>

\* Pausing, resuming and the catch-up switch leave the next time alone.
SetScheduleEnabled(s) ==
    /\ s \notin gone /\ Edit
    /\ enabled' = [enabled EXCEPT ![s] = ~@]
    /\ UNCHANGED <<next, catchUp, cron, gone, rows>>

SetCatchUp(s) ==
    /\ s \notin gone /\ Edit
    /\ catchUp' = [catchUp EXCEPT ![s] = ~@]
    /\ UNCHANGED <<next, enabled, cron, gone, rows>>

\* A new cron of a recurring schedule moves its next time past the present.
SetCron(s, c) ==
    /\ s \notin gone \cup OneTime /\ Edit
    /\ cron' = [cron EXCEPT ![s] = c]
    /\ next' = [next EXCEPT ![s] = NextRun(c, now)]
    /\ UNCHANGED <<enabled, catchUp, gone, rows>>

\* A hard delete takes the run rows along.
DeleteSchedule(s) ==
    /\ s \notin gone /\ Edit
    /\ gone' = gone \cup {s}
    /\ enabled' = [enabled EXCEPT ![s] = FALSE]
    /\ next' = [next EXCEPT ![s] = Never]
    /\ rows' = {r \in rows : r.schedule # s}
    /\ UNCHANGED <<catchUp, cron>>

-----------------------------------------------------------------------------
\* Time, sleep and kills.

Passed == now' = IF now < Horizon THEN now + 1 ELSE now

\* A minute passes whose poll has run.
Tick ==
    /\ up /\ polled /\ Quiet
    /\ Passed
    /\ polled' = FALSE
    /\ UNCHANGED <<up, tableVars, listed, poolVars, rowVars, budgets, history>>

\* A minute passes without one: the process is down, or the machine asleep.
TickUnpolled ==
    /\ ~polled \/ ~up
    /\ Quiet /\ now < Horizon
    /\ Passed
    /\ polled' = FALSE
    /\ UNCHANGED <<up, tableVars, listed, poolVars, rowVars, budgets, owed, onTime>>

\* A kill, between any two commits; the pool and its fires are gone, their
\* rows are not.
Crash ==
    /\ up /\ crashes < MaxCrashes
    /\ up' = FALSE /\ crashes' = crashes + 1
    /\ listed' = {}
    /\ stage' = [s \in Schedules |-> "out"]
    /\ waiters' = <<>> /\ active' = 0
    /\ job' = [s \in Schedules |-> NoJob]
    /\ onTime' = {}
    /\ UNCHANGED <<now, polled, tableVars, rowVars, requests, owed>>

\* The timer fires a whole interval after the boot.
Boot ==
    /\ ~up
    /\ up' = TRUE /\ polled' = TRUE
    /\ UNCHANGED <<now, tableVars, listed, poolVars, rowVars, budgets, owed, onTime>>

-----------------------------------------------------------------------------

Worker(s) == Claim(s) \/ RecordMissed(s) \/ FireDue(s) \/ StartManual(s) \/ EndFire(s)

User(s) ==
    \/ RunNow(s)
    \/ SetScheduleEnabled(s) \/ SetCatchUp(s) \/ DeleteSchedule(s)
    \/ \E c \in Crons : SetCron(s, c)

Next ==
    \/ Poll \/ Tick \/ TickUnpolled \/ Crash \/ Boot
    \/ \E s \in Schedules : Admit(s) \/ Worker(s) \/ User(s)

Spec == Init /\ [][Next]_vars

\* The timer keeps ticking, promises are resumed, every turn ends (its cap sees
\* to that), and a killed app is started again.
FairSpec ==
    /\ Spec
    /\ WF_vars(Poll) /\ WF_vars(Tick) /\ WF_vars(Boot)
    /\ \A s \in Schedules : WF_vars(Admit(s)) /\ SF_vars(Worker(s))

-----------------------------------------------------------------------------

\* Every variable keeps its shape.
TypeOK ==
    /\ now \in Times /\ up \in BOOLEAN /\ polled \in BOOLEAN
    /\ next \in [Schedules -> Times \cup {Never}]
    /\ enabled \in [Schedules -> BOOLEAN]
    /\ catchUp \in [Schedules -> BOOLEAN]
    /\ cron \in [Schedules -> Crons]
    /\ gone \subseteq Schedules /\ listed \subseteq Schedules
    /\ stage \in [Schedules -> Stages]
    /\ waiters \in Seq(Schedules) /\ active \in 0..MaxFires
    /\ job \in [Schedules -> Jobs]
    /\ rows \subseteq Rows /\ runs \in [Schedules -> Nat]
    /\ crashes \in Nat /\ requests \in Nat
    /\ owed \subseteq Schedules \X Times
    /\ onTime \subseteq Schedules \X Times

\* The pool's bookkeeping is exact (acquireSlot, releaseSlot): the count is the
\* number of fires that have a slot and never exceeds the bound, every waiting
\* fire is in the line once, and nobody waits while a slot is free.
PoolCountsItsFires ==
    /\ active = Cardinality(Holding(stage)) /\ active <= MaxFires
    /\ \A s \in Schedules :
          stage[s] = "waiting" <=> \E i \in DOMAIN waiters : waiters[i] = s
    /\ \A i, j \in DOMAIN waiters : waiters[i] = waiters[j] => i = j
    /\ waiters # <<>> => active = MaxFires

Fates(s, t) == {r \in rows : r.schedule = s /\ r.at = t /\ r.trigger # "manual"}

\* A due time has one fate, through overlapping ticks, kills between commits,
\* edits and waits: it is fired once or recorded missed once, "never both".
SlotHasOneFate ==
    \A s \in Schedules, t \in Times : Cardinality(Fates(s, t)) <= 1

\* A due time that a poll offered while it was fresh is not called missed,
\* however long it then waits for the pool.
WaitingIsNotMissing ==
    \A r \in rows : r.status = "missed" => <<r.schedule, r.at>> \notin onTime

\* Due times taken off their schedule for which no row will ever be written.
Vanished ==
    {p \in owed : stage[p[1]] = "out" \/ job[p[1]].due # p[2]}

\* A kill loses at most the one due time whose claim it cut off from its run
\* row; what waits for the pool, or is being offered, stays due.
CrashLosesAtMostOneSlot == Cardinality(Vanished) <= crashes

\* The next time is one the present cron names: a claim made with the cron of
\* an old listing never overwrites what an edit has computed.
NextIsOfThePresentCron ==
    \A s \in Schedules : next[s] \in cron[s] \cup {Never}

\* An enabled due schedule is taken off the list of due ones in the end.
DueIsTaken ==
    \A s \in Schedules : s \in Due ~> s \notin Due

=============================================================================
