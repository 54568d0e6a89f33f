----------------------------- MODULE LeaseSweep -----------------------------
(***************************************************************************)
(* Two timers of one process and the wall clock between them. Every run    *)
(* extends the lease of its claim from a heartbeat timer; a sweep timer    *)
(* settles the claims whose lease has lapsed. Leases are wall-clock        *)
(* times, and the wall clock moves on while the machine is suspended and   *)
(* no timer runs, so a sweep that comes too late after the last is skipped.*)
(*                                                                         *)
(* Times are relative: `sinceTick' and `age' count wall-clock time, tickIn *)
(* and beatIn what is left on a timer. A timer that is due runs before     *)
(* time goes on, and before those that fell due later.                     *)
(***************************************************************************)
EXTENDS Integers

CONSTANTS
    Runs,         \* claims, each with the run that made it
    Interval,     \* LEASE_SWEEP_INTERVAL_MS
    JumpFactor,   \* SUSPEND_JUMP_INTERVALS
    Lease,        \* VYNEL_DELEGATION_LEASE_MS
    Beat,         \* VYNEL_DELEGATION_HEARTBEAT_MS
    MaxSuspend,   \* (bound) of one suspension
    MaxSuspends   \* (bound)

\* The defaults are 60 s, 2, 180 s and 30 s.
ASSUME TimingAssumption ==
    /\ Interval \in Nat \ {0} /\ JumpFactor \in Nat /\ Lease \in Nat /\ Beat \in Nat \ {0}
    /\ Beat < Interval
    /\ JumpFactor * Interval < Lease
ASSUME BoundsAssumption == MaxSuspend \in Nat /\ MaxSuspends \in Nat

VARIABLES
    row,        \* the claim: absent, claimed, swept or settled by its run
    live,       \* runs still at work
    beating,    \* runs whose heartbeat timer is armed
    age,        \* now - heartbeatAt, up to Lease
    beatIn,     \* until the heartbeat is due
    missed,     \* runs whose last heartbeat could not write
    sinceTick,  \* now - lastTickAt, up to just beyond a jump
    tickIn,     \* until the sweep is due
    suspends

leaseVars == <<row, live, beating, age, beatIn, missed, sinceTick, tickIn, suspends>>

Rows == {"absent", "claimed", "swept", "settled"}

Jump == Interval * JumpFactor

Min2(m, n) == IF m <= n THEN m ELSE n

LeaseInit ==
    /\ row = [r \in Runs |-> "absent"] /\ live = {} /\ beating = {} /\ missed = {}
    /\ age = [r \in Runs |-> 0] /\ beatIn = [r \in Runs |-> Beat]
    /\ sinceTick = 0 /\ tickIn = Interval
    /\ suspends = 0

-----------------------------------------------------------------------------

Lapsed(r) == age[r] = Lease

\* The claim stamps the lease, and its run starts to beat in the same stretch.
ClaimLease(r) ==
    /\ row[r] = "absent"
    /\ row' = [row EXCEPT ![r] = "claimed"]
    /\ live' = live \cup {r} /\ beating' = beating \cup {r}
    /\ age' = [age EXCEPT ![r] = 0] /\ beatIn' = [beatIn EXCEPT ![r] = Beat]
    /\ UNCHANGED <<missed, sinceTick, tickIn, suspends>>

\* The run ends and its heartbeat stops. Its row is settled, unless the sweep
\* was first or the settling write failed.
RunEnds(r) ==
    /\ r \in live
    /\ live' = live \ {r} /\ beating' = beating \ {r}
    /\ \/ /\ row[r] = "claimed"
          /\ row' = [row EXCEPT ![r] = "settled"]
       \/ UNCHANGED row
    /\ UNCHANGED <<age, beatIn, missed, sinceTick, tickIn, suspends>>

Due(n) == n <= 0

\* Timers run in the order in which they fell due.
BeatRuns(r) ==
    /\ r \in beating /\ Due(beatIn[r])
    /\ beatIn[r] <= tickIn /\ \A q \in beating : beatIn[r] <= beatIn[q]

\* A heartbeat extends the lease of a row that is still claimed; otherwise it
\* stands down.
Heartbeat(r) ==
    /\ BeatRuns(r)
    /\ \/ /\ row[r] = "claimed"
          /\ age' = [age EXCEPT ![r] = 0] /\ beatIn' = [beatIn EXCEPT ![r] = Beat]
          /\ missed' = missed \ {r}
          /\ UNCHANGED beating
       \/ /\ row[r] # "claimed"
          /\ beating' = beating \ {r}
          /\ UNCHANGED <<age, beatIn, missed>>
    /\ UNCHANGED <<row, live, sinceTick, tickIn, suspends>>

\* The write throws: this beat is missed.
HeartbeatFails(r) ==
    /\ BeatRuns(r)
    /\ missed' = missed \cup {r}
    /\ beatIn' = [beatIn EXCEPT ![r] = Beat]
    /\ UNCHANGED <<row, live, beating, age, sinceTick, tickIn, suspends>>

\* Mutant: no tick is skipped.
NeverJumped == FALSE

Jumped == sinceTick > Jump

\* Mutant: only a tick that sweeps remembers when it ran.
SweptAt == IF sinceTick > Jump THEN sinceTick ELSE 0

\* Every tick remembers when it ran, the skipped one too.
TickedAt == 0

\* The lapsed claims are settled, unless the clock has jumped.
SweepTick ==
    /\ Due(tickIn) /\ \A q \in beating : tickIn <= beatIn[q]
    /\ sinceTick' = TickedAt /\ tickIn' = Interval
    /\ row' = [r \in Runs |-> IF ~Jumped /\ row[r] = "claimed" /\ Lapsed(r)
                              THEN "swept" ELSE row[r]]
    /\ UNCHANGED <<live, beating, age, beatIn, missed, suspends>>

-----------------------------------------------------------------------------

WallClock(n) ==
    /\ age' = [r \in Runs |-> Min2(age[r] + n, Lease)]
    /\ sinceTick' = Min2(sinceTick + n, Jump + 1)

Timers(n) ==
    /\ beatIn' = [r \in Runs |-> IF r \in beating THEN beatIn[r] - n ELSE beatIn[r]]
    /\ tickIn' = tickIn - n

Pass ==
    /\ ~Due(tickIn) /\ \A r \in beating : ~Due(beatIn[r])
    /\ WallClock(1) /\ Timers(1)
    /\ UNCHANGED <<row, live, beating, missed, suspends>>

\* The machine sleeps, at any moment; its timers stand still or are all late. (A
\* process that is stopped, or busy, for n is the second case.)
Suspend(n) ==
    /\ suspends < MaxSuspends
    /\ suspends' = suspends + 1
    /\ WallClock(n)
    /\ \/ Timers(n)
       \/ UNCHANGED <<beatIn, tickIn>>
    /\ UNCHANGED <<row, live, beating, missed>>

LeaseNext ==
    \/ SweepTick \/ Pass
    \/ \E n \in 1..MaxSuspend : Suspend(n)
    \/ \E r \in Runs : ClaimLease(r) \/ RunEnds(r) \/ Heartbeat(r) \/ HeartbeatFails(r)

LeaseSpec == LeaseInit /\ [][LeaseNext]_leaseVars

\* Time goes on and due timers run.
LeaseFairSpec ==
    /\ LeaseSpec
    /\ WF_leaseVars(Pass) /\ WF_leaseVars(SweepTick)
    /\ \A r \in Runs : WF_leaseVars(Heartbeat(r) \/ HeartbeatFails(r))

-----------------------------------------------------------------------------

\* Every variable keeps its shape; no timer is armed for longer than its period.
LeaseTypeOK ==
    /\ row \in [Runs -> Rows]
    /\ live \subseteq Runs /\ beating \subseteq live /\ missed \subseteq Runs
    /\ age \in [Runs -> 0..Lease] /\ sinceTick \in 0..(Jump + 1)
    /\ beatIn \in [Runs -> Int] /\ tickIn \in Int /\ tickIn <= Interval
    /\ \A r \in Runs : beatIn[r] <= Beat
    /\ suspends \in 0..MaxSuspends

\* "every genuinely live run heartbeats again within seconds of wake, so the next
\* tick reaps exactly what is really dead": no claim is swept from under a run
\* at work that has missed no heartbeat, however the machine sleeps.
LiveRunsAreNeverSwept ==
    [][\A r \in live \ missed : row'[r] = "swept" => row[r] = "swept"]_leaseVars

\* A claim whose run is gone does not stay claimed: a sweep comes that is not
\* skipped.
LostClaimsAreSwept ==
    \A r \in Runs : row[r] = "claimed" /\ r \notin live ~> row[r] # "claimed"

=============================================================================
