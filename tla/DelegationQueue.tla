-------------------------- MODULE DelegationQueue --------------------------
(***************************************************************************)
(* The delegation queue of the local daemon: the rows of delegation_jobs,  *)
(* the pool that claims them and runs each as a provider turn, the         *)
(* in-process locks on conversations, the lease sweeper and the boot pass, *)
(* the user's Stop, and the reports and give-up notices a run leaves.      *)
(*                                                                         *)
(* The daemon is one JavaScript process over SQLite, so a stretch of code  *)
(* without an await is one step, except that a crash may fall between two  *)
(* commits of a stretch: `stretch' names the commits still to come, and    *)
(* while it is not idle only its own action or CrashAndReboot may happen.  *)
(***************************************************************************)
EXTENDS Naturals, FiniteSets

CONSTANTS
    Slots,        \* the pool's run slots (maxConcurrentDelegations of them)
    MaxJobs,      \* bound: row ids 1..MaxJobs, in creation (FIFO) order
    Workspaces,   \* workspace ids
    Sessions,     \* primary ids of spawned sessions and colleagues
    Voice,        \* the voice thread's primary id
    GlobalRoot,   \* the shared key of deliveries to the global conversation
    None,         \* SQL NULL; as a holder: a free lock
    User,         \* as a holder: an interactive turn
    Requests,     \* what may be asked: [kind, ws, tp, req] records
    MaxAttempts,  \* DELEGATION_MAX_ATTEMPTS
    MaxCrashes,   \* bound: crashes
    MaxLapses,    \* bound: leases that lapse
    MaxTurns      \* bound: interactive turns

Jobs       == 1..MaxJobs
Lanes      == {GlobalRoot, Voice}
Chats      == Workspaces \cup Sessions
Columns    == Chats \cup {Voice, None}
Requesters == Workspaces \cup Lanes
Keys       == Chats \cup Lanes \cup Jobs

WorkKinds     == {"task", "agentRun"}
DeliveryKinds == {"report", "direct", "update"}
Kinds         == WorkKinds \cup DeliveryKinds \cup {"note"}

\* Mutant: the note left out of the list.
OrphanRequeueWithoutNotes == {"report", "direct"}

\* The kinds an orphaned claim returns to pending: the row is the only copy.
OrphanRequeueKinds == {"report", "direct", "note"}

ASSUME BoundsAssumption ==
    /\ MaxJobs \in Nat \ {0} /\ MaxAttempts \in Nat \ {0}
    /\ MaxCrashes \in Nat /\ MaxLapses \in Nat /\ MaxTurns \in Nat

\* Identifiers of different sorts never collide (they are UUIDs and literals).
ASSUME IdentityAssumption ==
    /\ Workspaces \cap Sessions = {}
    /\ Voice # GlobalRoot
    /\ Lanes \cap Chats = {}
    /\ None \notin Chats \cup Lanes \cup Jobs
    /\ Jobs \cap (Chats \cup Lanes) = {}
    /\ Slots \cap {None, User} = {} /\ None # User

\* The shapes the enqueue operations build: a task or a note has one target
\* column, or (a note to the global conversation) none; an agent-run's
\* workspace is its grounding and its tp the colleague, NULL when unstamped.
ASSUME RequestsAssumption ==
    /\ Requests \subseteq [kind : {"task", "agentRun", "note"},
                           ws : Workspaces \cup {None},
                           tp : Sessions \cup {None}, req : Requesters]
    /\ \A q \in Requests :
          /\ q.kind # "agentRun" => q.ws = None \/ q.tp = None
          /\ q.kind = "task"     => q.ws # None \/ q.tp # None

VARIABLES
    rows,      \* delegation_jobs, by id
    nextJob,   \* the next id to insert
    runs,      \* the run each slot holds (job 0: none)
    holder,    \* session-target locks: key -> None, User or the run's slot
    waiting,   \* chats an interactive turn is queued for
    rootTurns, \* lanes whose root-turn lock an interactive turn holds
    stretch,   \* the commits left in the running synchronous stretch
    stopped,   \* history: jobs whose user was told "stopping" or "stopped"
    absorbed,  \* history: jobs narrated to the global root by the catch-up net
    spent      \* how much of the three event bounds is used

vars == <<rows, nextJob, runs, holder, waiting, rootTurns, stretch, stopped,
          absorbed, spent>>

Statuses == {"absent", "pending", "claimed", "completed", "failed"}
Terminal == {"completed", "failed"}
Open     == {"pending", "claimed"}

\* Why a row was written: asked for by a user or a model, spoken by a running
\* turn, the engine's auto-report or give-up notice, or a continuation.
Forms == {"asked", "spoken", "auto", "giveUp", "continuation"}

Rows == [status : Statuses, kind : Kinds, ws : Workspaces \cup {None},
         tp : Sessions \cup {Voice, None}, req : Requesters,
         thread : 0..MaxJobs, about : 0..MaxJobs, form : Forms,
         due : BOOLEAN, lease : {"none", "live", "lapsed"},
         attempts : 0..(MaxAttempts - 1), reported : BOOLEAN,
         surfaced : BOOLEAN]

Runs == [job : 0..MaxJobs, key : Keys \cup {None}, conv : Keys \cup {None},
         attempts : 0..(MaxAttempts - 1), stop : BOOLEAN]

Stretches == [step : {"idle", "markReported", "followUp", "giveUp", "orphans"},
              slot : Slots \cup {None}, jobs : SUBSET Jobs]

NoRun     == [job |-> 0, key |-> None, conv |-> None, attempts |-> 0,
              stop |-> FALSE]
NoStretch == [step |-> "idle", slot |-> None, jobs |-> {}]
Idle      == stretch = NoStretch

NewRow(kind, ws, tp, req, thread, about, form) ==
    [status |-> "pending", kind |-> kind, ws |-> ws, tp |-> tp, req |-> req,
     thread |-> thread, about |-> about, form |-> form, due |-> TRUE,
     lease |-> "none", attempts |-> 0, reported |-> FALSE, surfaced |-> FALSE]

NoRow == [NewRow("task", None, None, GlobalRoot, 0, 0, "asked")
            EXCEPT !.status = "absent"]

\* The delivery a job sends up: addressed to the job's requester, on its chain.
DeliveryRow(j, kind, form) ==
    LET to == rows[j].req
    IN  NewRow(kind,
               IF to \in Workspaces THEN to ELSE None,
               IF to = Voice THEN Voice ELSE None,
               GlobalRoot, rows[j].thread, j, form)

Init ==
    /\ rows = [j \in Jobs |-> NoRow]
    /\ nextJob = 1
    /\ runs = [s \in Slots |-> NoRun]
    /\ holder = [k \in Keys |-> None]
    /\ waiting = {}
    /\ rootTurns = {}
    /\ stretch = NoStretch
    /\ stopped = {}
    /\ absorbed = {}
    /\ spent = [crashes |-> 0, lapses |-> 0, turns |-> 0]

-----------------------------------------------------------------------------
(* Rows and their compare-and-swap writes. *)

Completed(r) == IF r.status = "claimed"
                THEN [r EXCEPT !.status = "completed", !.lease = "none"] ELSE r

\* Mutant: every failure is also taken off the catch-up net.
FailedAndSurfaced(r) ==
    IF r.status = "claimed"
    THEN [r EXCEPT !.status = "failed", !.lease = "none", !.surfaced = TRUE]
    ELSE r

Failed(r) == IF r.status = "claimed"
             THEN [r EXCEPT !.status = "failed", !.lease = "none"] ELSE r

\* requeueDelegationJob: claimed or already handed back, never terminal.
Requeued(r, attempts) ==
    IF r.status \in Open
    THEN [r EXCEPT !.status = "pending", !.lease = "none", !.due = FALSE,
                   !.attempts = attempts]
    ELSE r

Surfaced(r) == [r EXCEPT !.surfaced = TRUE]

IsWork(j) == rows[j].kind \in WorkKinds

\* Mutant: the outcome of the compare-and-swap is ignored.
OwnsAlways(j) == TRUE

\* Whether the run's terminal write is still its own to make.
Owns(j) == rows[j].status = "claimed"

\* Mutant: the stamp is looked for on the row as it was claimed.
SpokeBeforeTheClaim(j) == FALSE

\* hasDeliveredFinalReport: read afresh, the stamp is written mid-run.
Spoke(j) == rows[j].reported

MayRetry(attempts) == attempts < MaxAttempts

OnDeliveryRail(r) ==
    \/ r.kind \in DeliveryKinds
    \/ r.kind = "note" /\ r.ws = None /\ r.tp = None

\* finalReportWentDirect: a direct delivery on the chain, in the window from
\* this job to the chain's next work row.
WentDirect(j) ==
    /\ Spoke(j)
    /\ \E d \in Jobs :
          /\ rows[d].kind = "direct" /\ rows[d].status # "absent"
          /\ rows[d].thread = rows[j].thread
          /\ d > j
          /\ \A w \in (j + 1)..(d - 1) :
                ~(IsWork(w) /\ rows[w].thread = rows[j].thread)

IsMentionChain(thread) ==
    \E j \in Jobs : rows[j].kind = "agentRun" /\ rows[j].thread = thread

\* Rows that may still owe the requester one more row; new rows leave room for
\* theirs, so that the bound MaxJobs never suppresses a notice.
Owed == {j \in Jobs : IsWork(j) /\ rows[j].status \in Open} \cup stretch.jobs

Room(n) == nextJob + Cardinality(Owed) + n <= MaxJobs + 1

Insert(row) ==
    /\ nextJob \in Jobs
    /\ rows' = [rows EXCEPT ![nextJob] = row]
    /\ nextJob' = nextJob + 1

-----------------------------------------------------------------------------
(* Locks. *)

\* Mutant: the release never reaches the lock.
HandOverForgotten(k) == UNCHANGED <<holder, waiting>>

\* Giving up a key hands it straight to the turn waiting for it.
HandOver(k) ==
    /\ holder' = [holder EXCEPT ![k] = IF k \in waiting THEN User ELSE None]
    /\ waiting' = waiting \ {k}

\* The run's `.finally': the slot and its target lock are given back.
Release(s) ==
    /\ runs' = [runs EXCEPT ![s] = NoRun]
    /\ HandOver(runs[s].key)

Running(s) == Idle /\ runs[s].job # 0

\* Mutant: the flag is not read at terminal time.
StopUnread(s) == FALSE

StopRequested(s) == runs[s].stop

UserTurnStart(k) ==
    /\ Idle /\ holder[k] = None /\ spent.turns < MaxTurns
    /\ holder' = [holder EXCEPT ![k] = User]
    /\ spent' = [spent EXCEPT !.turns = @ + 1]
    /\ UNCHANGED <<rows, nextJob, runs, waiting, rootTurns, stretch, stopped,
                   absorbed>>

UserTurnQueues(k) ==
    /\ Idle /\ holder[k] # None /\ k \notin waiting /\ spent.turns < MaxTurns
    /\ waiting' = waiting \cup {k}
    /\ spent' = [spent EXCEPT !.turns = @ + 1]
    /\ UNCHANGED <<rows, nextJob, runs, holder, rootTurns, stretch, stopped,
                   absorbed>>

UserTurnGivesUp(k) ==
    /\ Idle /\ k \in waiting
    /\ waiting' = waiting \ {k}
    /\ UNCHANGED <<rows, nextJob, runs, holder, rootTurns, stretch, stopped,
                   absorbed, spent>>

UserTurnEnds(k) ==
    /\ Idle /\ holder[k] = User
    /\ HandOver(k)
    /\ UNCHANGED <<rows, nextJob, runs, rootTurns, stretch, stopped, absorbed,
                   spent>>

RootTurnStart(l) ==
    /\ Idle /\ l \notin rootTurns /\ holder[l] = None /\ spent.turns < MaxTurns
    /\ rootTurns' = rootTurns \cup {l}
    /\ spent' = [spent EXCEPT !.turns = @ + 1]
    /\ UNCHANGED <<rows, nextJob, runs, holder, waiting, stretch, stopped,
                   absorbed>>

RootTurnEnds(l) ==
    /\ Idle /\ l \in rootTurns
    /\ rootTurns' = rootTurns \ {l}
    /\ UNCHANGED <<rows, nextJob, runs, holder, waiting, stretch, stopped,
                   absorbed, spent>>

\* A turn on the global root is underway and carries the catch-up block: every
\* unsurfaced terminal work row is retired, those the voice thread asked for
\* without being narrated.
RootAbsorbs ==
    LET found == {j \in Jobs : /\ IsWork(j) /\ rows[j].status \in Terminal
                               /\ ~rows[j].surfaced}
    IN  /\ Idle /\ found # {}
        /\ GlobalRoot \in rootTurns \/ holder[GlobalRoot] \in Slots
        /\ rows' = [j \in Jobs |-> IF j \in found THEN Surfaced(rows[j])
                                   ELSE rows[j]]
        /\ absorbed' = absorbed \cup {j \in found : rows[j].req # Voice}
        /\ UNCHANGED <<nextJob, runs, holder, waiting, rootTurns, stretch,
                       stopped, spent>>

-----------------------------------------------------------------------------
(* Enqueueing. *)

Enqueue(q) ==
    /\ Idle /\ Room(IF q.kind \in WorkKinds THEN 2 ELSE 1)
    /\ Insert(NewRow(q.kind, q.ws, q.tp, q.req, nextJob, 0, "asked"))
    /\ UNCHANGED <<runs, holder, waiting, rootTurns, stretch, stopped, absorbed,
                   spent>>

\* A running turn sends its final report (or, directly, a message to the user);
\* the stamp on its own row is a second commit.
SendReport(s, kind) ==
    /\ Running(s) /\ runs[s].key \notin Lanes /\ Room(1)
    /\ Insert(DeliveryRow(runs[s].job, kind, "spoken"))
    /\ stretch' = [step |-> "markReported", slot |-> s, jobs |-> {}]
    /\ UNCHANGED <<runs, holder, waiting, rootTurns, stopped, absorbed, spent>>

MarkReported ==
    /\ stretch.step = "markReported"
    /\ rows' = [rows EXCEPT ![runs[stretch.slot].job].reported = TRUE]
    /\ stretch' = NoStretch
    /\ UNCHANGED <<nextJob, runs, holder, waiting, rootTurns, stopped, absorbed,
                   spent>>

\* The pending update the new one replaces: same requester, same chain.
PendingUpdates(row) ==
    {u \in Jobs : /\ rows[u].status = "pending" /\ rows[u].kind = "update"
                  /\ rows[u].ws = row.ws /\ rows[u].tp = row.tp
                  /\ rows[u].thread = row.thread}

SendUpdate(s) ==
    LET row == DeliveryRow(runs[s].job, "update", "spoken")
    IN  /\ Running(s) /\ runs[s].key \notin Lanes
        /\ \/ \E u \in PendingUpdates(row) :
                 /\ rows' = [rows EXCEPT ![u].about = row.about]
                 /\ UNCHANGED nextJob
           \/ PendingUpdates(row) = {} /\ Room(1) /\ Insert(row)
        /\ UNCHANGED <<runs, holder, waiting, rootTurns, stretch, stopped,
                       absorbed, spent>>

\* The Stop route: a pending row fails on the spot, a claimed one has its run
\* flagged for the terminal branches to read.
Stop(j) ==
    /\ Idle /\ rows[j].status \in Open /\ j \notin stopped
    /\ stopped' = stopped \cup {j}
    /\ \/ /\ rows[j].status = "pending"
          /\ rows' = [rows EXCEPT ![j].status = "failed"]
          /\ UNCHANGED runs
       \/ /\ rows[j].status = "claimed"
          /\ runs' = [s \in Slots |-> IF runs[s].job = j
                                      THEN [runs[s] EXCEPT !.stop = TRUE]
                                      ELSE runs[s]]
          /\ UNCHANGED rows
    /\ UNCHANGED <<nextJob, holder, waiting, rootTurns, stretch, absorbed, spent>>

-----------------------------------------------------------------------------
(* The claim. *)

Busy == {k \in Keys : holder[k] # None}

\* Mutant: the target-session column is forgotten.
PassesWorkspaceExclusion(r) ==
    /\ r.kind = "agentRun" \/ r.ws \notin Busy
    /\ GlobalRoot \in Busy => \/ r.ws # None \/ r.tp # None
                             \/ r.kind \notin DeliveryKinds \cup {"note"}

\* The claim query's exclusion of the busy keys, column by column (NULL, which
\* is no key, passes).
PassesExclusion(r) ==
    /\ r.kind = "agentRun" \/ r.ws \notin Busy
    /\ r.tp \notin Busy
    /\ GlobalRoot \in Busy => \/ r.ws # None \/ r.tp # None
                             \/ r.kind \notin DeliveryKinds \cup {"note"}

Claimable(j) == /\ rows[j].status = "pending" /\ rows[j].due
                /\ PassesExclusion(rows[j])

Candidate(j) == Claimable(j) /\ \A i \in Jobs : Claimable(i) => j <= i

\* The pool's key for row r of id j.
TargetKey(r, j) ==
    CASE r.tp # None -> r.tp
      [] r.tp = None /\ r.kind = "agentRun" -> j
      [] r.tp = None /\ r.kind # "agentRun" /\ r.ws # None -> r.ws
      [] OTHER -> IF OnDeliveryRail(r) THEN GlobalRoot ELSE j

\* The conversation the run resumes: the key's, except that an agent-run whose
\* colleague was never stamped resolves one when it runs.
Conversations(j) ==
    IF rows[j].kind = "agentRun" /\ rows[j].tp = None THEN Sessions
    ELSE {TargetKey(rows[j], j)}

GoesDirect(r) ==
    /\ r.kind \in DeliveryKinds /\ r.ws = None /\ r.tp = None
    /\ r.kind = "direct" \/ IsMentionChain(r.thread)

\* The lane's root-turn lock is busy: the delivery yields its slot.
LaneBusy(r) ==
    /\ OnDeliveryRail(r) /\ r.ws = None
    /\ (IF r.tp = None THEN GlobalRoot ELSE Voice) \in rootTurns

\* Claim, take the key's lock and start the turn.
ClaimAndRun(s, j) ==
    /\ Idle /\ runs[s].job = 0 /\ Candidate(j) /\ ~LaneBusy(rows[j])
    /\ rows' = [rows EXCEPT ![j].status = "claimed", ![j].lease = "live"]
    /\ \E c \in Conversations(j) :
          runs' = [runs EXCEPT ![s] = [job |-> j, key |-> TargetKey(rows[j], j),
                                       conv |-> c,
                                       attempts |-> rows[j].attempts,
                                       stop |-> FALSE]]
    /\ holder' = [holder EXCEPT ![TargetKey(rows[j], j)] = s]
    /\ UNCHANGED <<nextJob, waiting, rootTurns, stretch, stopped, absorbed, spent>>

\* Direct-reply mode: the message lands on the global transcript and the row
\* completes in one transaction, before the first await. (With no root session
\* yet the row takes the ordinary turn instead.)
ClaimAndDeliverDirectly(s, j) ==
    /\ Idle /\ runs[s].job = 0 /\ Candidate(j) /\ GoesDirect(rows[j])
    /\ rows' = [rows EXCEPT ![j].status = "completed"]
    /\ UNCHANGED <<nextJob, runs, holder, waiting, rootTurns, stretch, stopped,
                   absorbed, spent>>

\* Claim, find the lane mid-turn, and requeue: no attempt is spent.
ClaimAndYield(s, j) ==
    /\ Idle /\ runs[s].job = 0 /\ Candidate(j) /\ LaneBusy(rows[j])
    /\ rows' = [rows EXCEPT ![j].due = FALSE]
    /\ UNCHANGED <<nextJob, runs, holder, waiting, rootTurns, stretch, stopped,
                   absorbed, spent>>

\* The backoff or yield deadline of a requeued row passes.
BecomesDue(j) ==
    /\ Idle /\ rows[j].status = "pending" /\ ~rows[j].due
    /\ rows' = [rows EXCEPT ![j].due = TRUE]
    /\ UNCHANGED <<nextJob, runs, holder, waiting, rootTurns, stretch, stopped,
                   absorbed, spent>>

-----------------------------------------------------------------------------
(* How a run ends. Each action reads the row afresh but the attempts it was *)
(* claimed with, and gives the slot back in the same stretch.              *)

\* Leave `next' as the rows, give the slot back, or first go on to `step'.
Settle(s, next) ==
    /\ rows' = next /\ Release(s)
    /\ UNCHANGED <<nextJob, rootTurns, stretch, stopped, absorbed, spent>>

SettleThen(s, next, step) ==
    /\ rows' = next
    /\ stretch' = [step |-> step, slot |-> s, jobs |-> {runs[s].job}]
    /\ UNCHANGED <<nextJob, runs, holder, waiting, rootTurns, stopped, absorbed,
                   spent>>

\* Stop wins over every outcome of the turn.
StoppedTurnEnds(s) ==
    /\ Running(s) /\ StopRequested(s)
    /\ Settle(s, [rows EXCEPT ![runs[s].job] = Failed(@)])

\* Our own bookkeeping threw: terminal, never retried, nothing pushed.
RunThrows(s) ==
    /\ Running(s)
    /\ Settle(s, [rows EXCEPT ![runs[s].job] = Failed(@)])

DeliveryCompletes(s) ==
    /\ Running(s) /\ ~StopRequested(s) /\ OnDeliveryRail(rows[runs[s].job])
    /\ Settle(s, [rows EXCEPT ![runs[s].job] = Completed(@)])

\* settleCompletedTask up to the completion commit: a claim settled elsewhere
\* stands down; a row completes surfaced, unless its answer went direct.
TaskCompletes(s) ==
    LET j == runs[s].job
        r == rows[j]
        quiet == r.kind = "task" /\ WentDirect(j)
        done == [rows EXCEPT ![j] = IF quiet THEN Completed(r)
                                    ELSE Surfaced(Completed(r))]
    IN  /\ Running(s) /\ ~StopRequested(s)
        /\ r.kind # "agentRun" /\ ~OnDeliveryRail(r)
        /\ \/ ~Owns(j) /\ Settle(s, rows)
           \/ Owns(j) /\ r.kind = "note" /\ Settle(s, done)
           \/ Owns(j) /\ r.kind = "task" /\ SettleThen(s, done, "followUp")

\* A colleague's run completes unsurfaced; whether the completion was its own
\* to write is not asked before the follow-up.
AgentRunCompletes(s) ==
    LET j == runs[s].job
    IN  /\ Running(s) /\ ~StopRequested(s) /\ rows[j].kind = "agentRun"
        /\ SettleThen(s, [rows EXCEPT ![j] = Completed(@)], "followUp")

\* The row that continues checkpointed work on the same target.
ContinuationRow(s) ==
    LET j == runs[s].job
        r == rows[j]
    IN  NewRow(r.kind, r.ws,
               IF r.kind = "agentRun" THEN runs[s].conv ELSE r.tp,
               r.req, r.thread, j, "continuation")

\* The guarantee: a task that ended without a report is reported for.
OwesReport(j) == rows[j].kind = "task" /\ ~Spoke(j)

\* After the completion commit: the turn left a checkpoint and the work goes
\* on; or a task that never reported is reported for; or there is nothing.
FollowUp(s) ==
    LET j == runs[s].job
    IN  /\ stretch.step = "followUp" /\ stretch.slot = s
        /\ \/ Room(1) /\ Insert(ContinuationRow(s))
           \/ OwesReport(j) /\ Insert(DeliveryRow(j, "report", "auto"))
           \/ ~OwesReport(j) /\ UNCHANGED <<rows, nextJob>>
        /\ Release(s)
        /\ stretch' = NoStretch
        /\ UNCHANGED <<rootTurns, stopped, absorbed, spent>>

\* A failed delivery goes round again while attempts remain.
DeliveryFails(s, retryable) ==
    LET j == runs[s].job
        next == runs[s].attempts + 1
    IN  /\ Running(s) /\ ~StopRequested(s) /\ OnDeliveryRail(rows[j])
        /\ Settle(s, [rows EXCEPT ![j] = IF retryable /\ MayRetry(next)
                                         THEN Requeued(@, next) ELSE Failed(@)])

\* settleFailedDelegationAttempt: work that already reported ends quietly; a
\* transient failure requeues; otherwise the row fails and, if the write won
\* and the row is work, the requester is told.
AttemptFails(s, retryable) ==
    LET j == runs[s].job
        r == rows[j]
        next == runs[s].attempts + 1
        shown == r.kind = "agentRun" \/ WentDirect(j)
        failed == [rows EXCEPT ![j] = Failed(@)]
    IN  /\ Running(s) /\ ~StopRequested(s) /\ ~OnDeliveryRail(r)
        /\ \/ /\ Spoke(j)
              /\ Settle(s, [rows EXCEPT ![j] =
                   IF Owns(j) /\ ~shown THEN Surfaced(Failed(@))
                   ELSE Failed(@)])
           \/ /\ ~Spoke(j) /\ retryable /\ MayRetry(next)
              /\ Settle(s, [rows EXCEPT ![j] = Requeued(@, next)])
           \/ /\ ~Spoke(j) /\ ~(retryable /\ MayRetry(next))
              /\ IF Owns(j) /\ r.kind \in WorkKinds
                 THEN SettleThen(s, failed, "giveUp") ELSE Settle(s, failed)

\* The give-up notice and the surfaced stamp are one transaction.
GiveUp(s) ==
    LET j == runs[s].job
    IN  /\ stretch.step = "giveUp" /\ stretch.slot = s
        /\ nextJob \in Jobs
        /\ rows' = [rows EXCEPT ![nextJob] = DeliveryRow(j, "report", "giveUp"),
                                ![j] = Surfaced(@)]
        /\ nextJob' = nextJob + 1
        /\ Release(s)
        /\ stretch' = NoStretch
        /\ UNCHANGED <<rootTurns, stopped, absorbed, spent>>

-----------------------------------------------------------------------------
(* Leases, the sweeper and the boot pass. *)

Heartbeat(s) ==
    /\ Running(s) /\ rows[runs[s].job].lease = "lapsed"
    /\ rows' = [rows EXCEPT ![runs[s].job].lease = "live"]
    /\ UNCHANGED <<nextJob, runs, holder, waiting, rootTurns, stretch, stopped,
                   absorbed, spent>>

\* A starved or suspended process lets a lease run out.
LeaseLapses(j) ==
    /\ Idle /\ rows[j].status = "claimed" /\ rows[j].lease = "live"
    /\ spent.lapses < MaxLapses
    /\ rows' = [rows EXCEPT ![j].lease = "lapsed"]
    /\ spent' = [spent EXCEPT !.lapses = @ + 1]
    /\ UNCHANGED <<nextJob, runs, holder, waiting, rootTurns, stretch, stopped,
                   absorbed>>

\* Mutant: work orphans are left claimed.
OrphanedWorkLeft(r) ==
    IF r.kind \in OrphanRequeueKinds
    THEN [r EXCEPT !.status = "pending", !.lease = "none", !.due = TRUE] ELSE r

\* One orphaned claim, settled by kind.
SettledOrphan(r) ==
    IF r.kind \in OrphanRequeueKinds
    THEN [r EXCEPT !.status = "pending", !.lease = "none", !.due = TRUE]
    ELSE Surfaced(Failed(r))

\* The two bulk updates over `orphans', then one notice for each work row.
SettleOrphans(orphans) ==
    /\ rows' = [j \in Jobs |-> IF j \in orphans THEN SettledOrphan(rows[j])
                               ELSE rows[j]]
    /\ LET work == {j \in orphans : IsWork(j)}
       IN  stretch' = IF work = {} THEN NoStretch
                      ELSE [step |-> "orphans", slot |-> None, jobs |-> work]

Sweep ==
    LET lapsed == {j \in Jobs : /\ rows[j].status = "claimed"
                                /\ rows[j].lease = "lapsed"}
    IN  /\ Idle /\ lapsed # {}
        /\ SettleOrphans(lapsed)
        /\ UNCHANGED <<nextJob, runs, holder, waiting, rootTurns, stopped,
                       absorbed, spent>>

PushOrphan(j) ==
    /\ stretch.step = "orphans" /\ j \in stretch.jobs
    /\ Insert(DeliveryRow(j, "report", "giveUp"))
    /\ stretch' = IF stretch.jobs = {j} THEN NoStretch
                  ELSE [stretch EXCEPT !.jobs = @ \ {j}]
    /\ UNCHANGED <<runs, holder, waiting, rootTurns, stopped, absorbed, spent>>

\* The process dies at any commit; the next boot finds every claimed row an
\* orphan. Runs, locks, waiters and interactive turns are gone.
CrashAndReboot ==
    /\ spent.crashes < MaxCrashes
    /\ spent' = [spent EXCEPT !.crashes = @ + 1]
    /\ runs' = [s \in Slots |-> NoRun]
    /\ holder' = [k \in Keys |-> None]
    /\ waiting' = {}
    /\ rootTurns' = {}
    /\ SettleOrphans({j \in Jobs : rows[j].status = "claimed"})
    /\ UNCHANGED <<nextJob, stopped, absorbed>>

-----------------------------------------------------------------------------

TurnEnds(s) ==
    \/ StoppedTurnEnds(s)
    \/ RunThrows(s)
    \/ DeliveryCompletes(s)
    \/ TaskCompletes(s)
    \/ AgentRunCompletes(s)
    \/ \E retryable \in BOOLEAN : DeliveryFails(s, retryable)
                                  \/ AttemptFails(s, retryable)

StretchGoesOn ==
    \/ MarkReported
    \/ \E s \in Slots : FollowUp(s) \/ GiveUp(s)
    \/ \E j \in Jobs : PushOrphan(j)

Claim ==
    \E s \in Slots, j \in Jobs :
        \/ ClaimAndRun(s, j)
        \/ ClaimAndDeliverDirectly(s, j)
        \/ ClaimAndYield(s, j)

InteractiveTurn ==
    \/ \E k \in Chats : \/ UserTurnStart(k) \/ UserTurnQueues(k)
                        \/ UserTurnGivesUp(k) \/ UserTurnEnds(k)
    \/ \E l \in Lanes : RootTurnStart(l) \/ RootTurnEnds(l)
    \/ RootAbsorbs

Next ==
    \/ \E q \in Requests : Enqueue(q)
    \/ \E s \in Slots : \/ \E kind \in {"report", "direct"} : SendReport(s, kind)
                        \/ SendUpdate(s)
                        \/ Heartbeat(s)
                        \/ TurnEnds(s)
    \/ \E j \in Jobs : Stop(j) \/ BecomesDue(j) \/ LeaseLapses(j)
    \/ Claim
    \/ StretchGoesOn
    \/ InteractiveTurn
    \/ Sweep
    \/ CrashAndReboot

Spec == Init /\ [][Next]_vars

\* The poll and sweep timers keep firing, deadlines pass, a synchronous stretch
\* runs on, and every turn ends: a routed turn at the latest by its hard cap,
\* an interactive turn because its user or the provider ends it.
Fairness ==
    /\ WF_vars(Claim)
    /\ WF_vars(StretchGoesOn)
    /\ WF_vars(Sweep)
    /\ \A s \in Slots : WF_vars(TurnEnds(s))
    /\ \A j \in Jobs : WF_vars(BecomesDue(j))
    /\ \A k \in Chats : WF_vars(UserTurnEnds(k))
    /\ \A l \in Lanes : WF_vars(RootTurnEnds(l))

FairSpec == Spec /\ Fairness

-----------------------------------------------------------------------------
(* What must hold. *)

\* Every variable keeps its shape; a row is never charged MaxAttempts attempts.
TypeOK ==
    /\ rows \in [Jobs -> Rows]
    /\ nextJob \in 1..(MaxJobs + 1)
    /\ runs \in [Slots -> Runs]
    /\ holder \in [Keys -> Slots \cup {None, User}]
    /\ waiting \subseteq Chats
    /\ rootTurns \subseteq Lanes
    /\ stretch \in Stretches
    /\ stopped \subseteq Jobs
    /\ absorbed \subseteq Jobs
    /\ spent \in [crashes : 0..MaxCrashes, lapses : 0..MaxLapses,
                  turns : 0..MaxTurns]

\* The pool never resumes one conversation twice at once, nor one that an
\* interactive turn holds (the single-writer rule of the session-target locks).
ConversationSingleWriter ==
    \A s \in Slots :
        runs[s].job # 0 =>
            /\ \A t \in Slots \ {s} : runs[t].job # 0 => runs[t].conv # runs[s].conv
            /\ holder[runs[s].conv] # User

\* A claimed row has exactly one run, which will settle it: no claim is leaked
\* by a run's end, a sweep, a yield or a crash.
ClaimedRowHasItsRun ==
    \A j \in Jobs :
        rows[j].status = "claimed" =>
            \E s \in Slots : /\ runs[s].job = j
                            /\ \A t \in Slots \ {s} : runs[t].job # j

\* A settled row is settled for good: no late completion, failure, requeue or
\* Stop of a run whose claim was settled elsewhere overwrites the verdict.
TerminalIsALatch ==
    [][\A j \in Jobs : rows[j].status \in Terminal =>
                          rows'[j].status = rows[j].status]_vars

\* Work that already spoke its final report is never queued to run again: a
\* second run would wake the requester with a second result.
ReportedWorkNeverQueued ==
    \A j \in Jobs : IsWork(j) /\ rows[j].status = "pending" => ~rows[j].reported

\* The rows the engine (not a turn) wrote about job j.
Verdicts(j) == {v \in Jobs : /\ rows[v].status # "absent" /\ rows[v].about = j
                             /\ rows[v].form \in {"auto", "giveUp"}}

\* The engine speaks at most once for a job, and only for work: a run whose
\* row was settled elsewhere stands down, and no delivery spawns a delivery.
OneVerdictPerWork ==
    \A j \in Jobs : /\ Cardinality(Verdicts(j)) <= 1
                    /\ Verdicts(j) # {} => IsWork(j)

\* The engine writes a stand-in report or a continuation only for work that was
\* completed: a late completion after another verdict enqueues nothing.
FollowUpsOnlyFromCompletedWork ==
    \A f \in Jobs :
        rows[f].status # "absent" /\ rows[f].form \in {"auto", "continuation"} =>
            rows[rows[f].about].status = "completed"

\* Work that reported is never contradicted by a notice that it failed, nor
\* reported a second time by the engine.
NoContradiction == \A j \in Jobs : rows[j].reported => Verdicts(j) = {}

\* Once a user was told that a job is stopped or stopping it neither completes
\* nor goes round again, and the engine pushes nothing about it.
StopIsFinal ==
    \A j \in stopped : /\ rows[j].status \in {"claimed", "failed"}
                       /\ Verdicts(j) = {}

\* The requester of settled work hears of it: by its own report, the engine's,
\* the continuation that will speak for it, the user's own Stop, or the
\* catch-up net, which still holds the row or narrated it.
Heard(j) ==
    \/ j \in stopped \cup absorbed
    \/ ~rows[j].surfaced
    \/ \E i \in Jobs : /\ rows[i].status # "absent" /\ rows[i].about = j
                       /\ rows[i].kind # "update"

NoSilentOutcome ==
    \A j \in Jobs : IsWork(j) /\ rows[j].status \in Terminal /\ j \notin stretch.jobs
                        => Heard(j)

\* Orphan handling never destroys a message: a report, direct reply or note is
\* failed only by the end of its own turn or by the user's Stop.
OrphaningSparesMessages ==
    [][\A j \in Jobs :
          /\ rows[j].kind \in {"report", "direct", "note"}
          /\ rows[j].status = "claimed"
          /\ rows'[j].status = "failed"
          => \E s \in Slots : TurnEnds(s) /\ runs[s].job = j]_vars

\* Every accepted job is settled in the end, whatever crashes, lapses and
\* backoffs come in between: as a settled row never opens again, that is to say
\* that the queue drains whenever enqueueing pauses.
EveryJobSettles == []<>(\A j \in Jobs : rows[j].status \notin Open)

=============================================================================
