----------------------------- MODULE TurnParks -----------------------------
(***************************************************************************)
(* One interactive turn that waits for people: `ask_user' forms and        *)
(* approval cards park its tool calls, a gate counts the parked ones, and  *)
(* the turn's wall clock runs only while none is. Each wait has a row that *)
(* the user decides through, and a waiter in memory that is told.          *)
(*                                                                         *)
(* There are two times: timers may stand still while the machine sleeps,   *)
(* Date.now() never does. Between the row's commit and the waiter's call   *)
(* (or the other way round) only promise reactions run.                    *)
(***************************************************************************)
EXTENDS Naturals, FiniteSets

CONSTANTS
    Asks, Cards,
    Budget,       \* working time of the turn
    AskBound,     \* how long a form waits
    CardBound,    \* how old a pending card may get: twice its timeout
    SleepLength,  \* of one sleep of the machine
    MaxSleeps     \* (bound)

Calls == Asks \cup Cards

ASSUME CallsAssumption == Asks \cap Cards = {} /\ IsFiniteSet(Calls)
ASSUME BoundsAssumption ==
    /\ Budget \in Nat \ {0} /\ AskBound \in Nat \ {0} /\ CardBound \in Nat \ {0}
    /\ SleepLength \in Nat /\ MaxSleeps \in Nat

VARIABLES
    turn,      \* how far the turn is
    call,      \* how far each tool call is, or what it was told
    row,       \* ask_requests and approval_requests
    asked,     \* approval-requested events the consumer has yet to take
    decided,   \* approval-resolved events, each behind its card's other one
    tracked,   \* cards whose approval-requested event parked the gate
    parked,    \* parkedCount
    clock,     \* the pausable timeout
    left,      \* remainingMs
    armedFor,  \* how long its timer has run since it was armed
    asleep,    \* how much more Date.now() has advanced in that time
    waited,    \* how long an ask's expiry timer has run
    age,       \* now - createdAt of a pending row, up to its bound and one
    doomed,    \* asks the ended turn has cancelled and not yet expired
    sleeps,
    \* history
    worked,    \* time in which the turn waited for nobody
    slept,     \* sleep while the clock was armed
    deaf       \* calls that the user decided with nobody waiting

waits   == <<call, row, waited, age, deaf>>
gate    == <<tracked, parked, clock, left, armedFor, asleep>>
events  == <<asked, decided>>
rest    == <<doomed, sleeps, worked, slept>>
vars    == <<turn, waits, events, gate, rest>>

Turns  == {"running", "stopping", "closing", "ended"}
Clocks == {"armed", "disarmed", "cleared"}

\* idle; called, with its handler or its event still to come; waiting; or told.
Told   == {"answered", "dismissed", "expired", "approved", "denied", "cancelled", "lost"}
Stages == {"idle", "called", "waiting"} \cup Told

ByUser == {"answered", "dismissed", "approved", "denied"}
RowStatuses == {"none", "pending", "expired", "timedOut"} \cup ByUser

Decisions(x) == IF x \in Asks THEN {"answered", "dismissed"} ELSE {"approved", "denied"}

Waiting(x) == call[x] = "waiting"
Streaming  == turn \in {"running", "stopping"}
CallBound(x) == IF x \in Asks THEN AskBound ELSE CardBound

Min2(m, n) == IF m <= n THEN m ELSE n
Minus(m, n) == IF m >= n THEN m - n ELSE 0

Init ==
    /\ turn = "running"
    /\ call = [x \in Calls |-> "idle"] /\ row = [x \in Calls |-> "none"]
    /\ asked = {} /\ decided = {} /\ tracked = {} /\ parked = 0
    /\ clock = "armed" /\ left = Budget /\ armedFor = 0 /\ asleep = 0
    /\ waited = [x \in Calls |-> 0] /\ age = [x \in Calls |-> 0]
    /\ doomed = {} /\ sleeps = 0
    /\ worked = 0 /\ slept = 0 /\ deaf = {}

-----------------------------------------------------------------------------
\* The gate and the clock.

\* Mutant: the clock starts over after a park.
RemainingUnspent == left

\* What is left of the budget when a park stops the clock, by Date.now().
Remaining == Minus(left, armedFor + asleep)

\* The gate's count becomes n: its edges stop and restart the clock.
GateMoves(n) ==
    /\ parked' = n
    /\ \/ /\ clock = "armed" /\ n > 0
          /\ clock' = "disarmed" /\ left' = Remaining
          /\ armedFor' = 0 /\ asleep' = 0
       \/ /\ clock = "disarmed" /\ n = 0
          /\ clock' = "armed"
          /\ UNCHANGED <<left, armedFor, asleep>>
       \/ /\ clock = "cleared" \/ (clock = "armed" <=> n = 0)
          /\ UNCHANGED <<clock, left, armedFor, asleep>>

MarkParked == GateMoves(parked + 1)

MarkResolved == GateMoves(Minus(parked, 1))

ClockDue == clock = "armed" /\ armedFor = left

-----------------------------------------------------------------------------
\* Forms.

\* The SDK dispatches the tool call; its handler runs later.
CallAsk(a) ==
    /\ turn = "running" /\ call[a] = "idle"
    /\ call' = [call EXCEPT ![a] = "called"]
    /\ UNCHANGED <<turn, row, waited, age, deaf, events, gate, rest>>

\* The handler inserts the row and parks; a turn that has ended meanwhile no
\* longer cancels it, only its own timer does.
AskParks(a) ==
    /\ call[a] = "called"
    /\ call' = [call EXCEPT ![a] = "waiting"]
    /\ row' = [row EXCEPT ![a] = "pending"]
    /\ MarkParked
    /\ UNCHANGED <<turn, waited, age, deaf, events, tracked, rest>>

\* Mutant: the timer is the turn's.
AskDueInTurn(a) == Waiting(a) /\ waited[a] = AskBound /\ turn # "ended"

AskDue(a) == Waiting(a) /\ waited[a] = AskBound

\* Mutant: a row is expired whatever became of it.
AlwaysOpen(x) == TRUE

\* Only a pending row is expired, or decided.
Open(x) == row[x] = "pending"

Expired(xs) ==
    [x \in Calls |-> IF x \in xs /\ Open(x) THEN "expired" ELSE row[x]]

\* The form's own timer: the bookkeeping may throw, the call is told anyway.
AskExpires(a) ==
    /\ AskDue(a)
    /\ row' \in {row, Expired({a})}
    /\ call' = [call EXCEPT ![a] = "expired"]
    /\ MarkResolved
    /\ UNCHANGED <<turn, waited, age, deaf, events, tracked, rest>>

\* The user answers or dismisses a pending form: row first, then the waiter.
ResolveAsk(a, d) ==
    /\ Open(a)
    /\ row' = [row EXCEPT ![a] = d]
    /\ \/ /\ Waiting(a)
          /\ call' = [call EXCEPT ![a] = d]
          /\ MarkResolved
          /\ UNCHANGED deaf
       \/ /\ ~Waiting(a)
          /\ deaf' = deaf \cup {a}
          /\ UNCHANGED <<call, parked, clock, left, armedFor, asleep>>
    /\ UNCHANGED <<turn, waited, age, events, tracked, rest>>

\* Mutant: the reaper leaves the rows of calls that were told alone.
ReapWaiting ==
    LET stale == {a \in Asks : row[a] = "pending" /\ age[a] > AskBound /\ Waiting(a)} IN
    /\ stale # {}
    /\ row' = Expired(stale)
    /\ UNCHANGED <<turn, call, waited, age, deaf, events, gate, rest>>

\* The reaper goes by the row's age alone.
ReapAsks ==
    LET stale == {a \in Asks : row[a] = "pending" /\ age[a] > AskBound} IN
    /\ stale # {}
    /\ row' = Expired(stale)
    /\ UNCHANGED <<turn, call, waited, age, deaf, events, gate, rest>>

-----------------------------------------------------------------------------
\* Cards.

\* A card's waiter is registered, and its event queued, in the call itself.
Registered(c) == call[c] \in {"called", "waiting"}

CallCard(c) ==
    /\ Streaming /\ call[c] = "idle"
    /\ call' = [call EXCEPT ![c] = "called"]
    /\ asked' = asked \cup {c}
    /\ UNCHANGED <<turn, row, waited, age, deaf, decided, gate, rest>>

\* The stream's consumer records the card and, no rule matching, parks the gate
\* (even if the call was cancelled meanwhile: that event comes next).
CardParks(c) ==
    /\ Streaming /\ c \in asked
    /\ asked' = asked \ {c}
    /\ row' = [row EXCEPT ![c] = "pending"]
    /\ call' = [call EXCEPT ![c] = IF @ = "called" THEN "waiting" ELSE @]
    /\ tracked' = tracked \cup {c}
    /\ MarkParked
    /\ UNCHANGED <<turn, waited, age, deaf, decided, rest>>

\* A rule approves the card: recorded, answered and settled in one stretch.
CardAutoApproved(c) ==
    /\ Streaming /\ c \in asked /\ Registered(c)
    /\ asked' = asked \ {c} /\ decided' = decided \cup {c}
    /\ row' = [row EXCEPT ![c] = "approved"]
    /\ call' = [call EXCEPT ![c] = "approved"]
    /\ UNCHANGED <<turn, waited, age, deaf, gate, rest>>

\* Mutant: every decided card releases the gate.
TracksAny(c) == parked > 0

\* Only the cards the tracker parked release the gate.
Tracks(c) == c \in tracked

CardReleases(c) ==
    /\ Streaming /\ c \in decided \ asked
    /\ decided' = decided \ {c}
    /\ tracked' = tracked \ {c}
    /\ \/ /\ Tracks(c)
          /\ MarkResolved
       \/ /\ ~Tracks(c)
          /\ UNCHANGED <<parked, clock, left, armedFor, asleep>>
    /\ UNCHANGED <<turn, waits, asked, rest>>

\* Whoever decides a card tells its waiter and settles its row; an orphaned row
\* is settled all the same.
Settle(c, told, status) ==
    /\ Open(c)
    /\ row' = [row EXCEPT ![c] = status]
    /\ \/ /\ Waiting(c)
          /\ call' = [call EXCEPT ![c] = told]
          /\ decided' = decided \cup {c}
       \/ /\ ~Waiting(c)
          /\ UNCHANGED <<call, decided>>
    /\ UNCHANGED <<turn, waited, age, asked, gate, rest>>

ResolveCard(c, d) ==
    /\ Settle(c, d, d)
    /\ deaf' = IF Waiting(c) THEN deaf ELSE deaf \cup {c}

\* Mutant: the row is settled and the waiter left parked.
ReapCardQuietly(c) ==
    /\ Open(c) /\ age[c] > CardBound
    /\ row' = [row EXCEPT ![c] = "timedOut"]
    /\ UNCHANGED <<turn, call, waited, age, deaf, events, gate, rest>>

\* The reaper: the waiter is told a denial, the row says timed-out.
ReapCard(c) ==
    /\ age[c] > CardBound
    /\ Settle(c, "denied", "timedOut")
    /\ UNCHANGED deaf

-----------------------------------------------------------------------------
\* The end of the turn.

\* A session's cards are cancelled: every registered one is told.
CardsCancelled ==
    [x \in Calls |-> IF x \in Cards /\ Registered(x) THEN "cancelled" ELSE call[x]]

\* The provider is interrupted, and the stream drained to its end.
Interrupt ==
    /\ turn' = "stopping"
    /\ call' = CardsCancelled
    /\ decided' = decided \cup {c \in Cards : Registered(c)}
    /\ UNCHANGED <<row, waited, age, deaf, asked, tracked, parked, left, armedFor, asleep, rest>>

Stop == turn = "running" /\ Interrupt /\ UNCHANGED clock

\* The budget is spent; the clock fires once.
Expire == Streaming /\ ClockDue /\ Interrupt /\ clock' = "cleared"

\* The provider cancels the cards it has left; the stream's finally clears the
\* clock.
CloseStream ==
    /\ Streaming
    /\ turn' = "closing"
    /\ call' = CardsCancelled
    /\ asked' = {} /\ decided' = {}
    /\ clock' = "cleared"
    /\ UNCHANGED <<waited, age, deaf, tracked, parked, left, armedFor, asleep, rest>>

\* The stream is drained; or it fails, with whatever is outstanding.
StreamEnds == CloseStream /\ UNCHANGED row

\* A rule approves a card that was cancelled meanwhile: nobody is there to be
\* told, the row stays pending and the stream fails.
RecordFails(c) ==
    /\ c \in asked /\ ~Registered(c)
    /\ CloseStream
    /\ row' = [row EXCEPT ![c] = "pending"]

\* The forms of the turn are cancelled; their rows follow after an await.
CancelAsks ==
    LET mine == {a \in Asks : Waiting(a)} IN
    /\ turn = "closing"
    /\ turn' = "ended"
    /\ call' = [x \in Calls |-> IF x \in mine THEN "cancelled" ELSE call[x]]
    /\ GateMoves(Minus(parked, Cardinality(mine)))
    /\ doomed' = mine
    /\ UNCHANGED <<row, waited, age, deaf, events, tracked, sleeps, worked, slept>>

\* The expiry may fail; the reaper is left to do it.
ExpireCancelled ==
    /\ doomed # {}
    /\ doomed' = {}
    /\ row' \in {row, Expired(doomed)}
    /\ UNCHANGED <<turn, call, waited, age, deaf, events, gate, sleeps, worked, slept>>

\* The process is killed and started again: all that was parked is lost, and
\* every pending row is settled at boot.
CrashAndReboot ==
    /\ turn # "ended" \/ \E x \in Calls : call[x] \in {"called", "waiting"} \/ Open(x)
    /\ turn' = "ended"
    /\ call' = [x \in Calls |-> IF call[x] \in {"called", "waiting"} THEN "lost" ELSE call[x]]
    /\ row' = [x \in Calls |-> IF ~Open(x) THEN row[x]
                               ELSE IF x \in Asks THEN "expired" ELSE "timedOut"]
    /\ asked' = {} /\ decided' = {} /\ doomed' = {}
    /\ tracked' = {} /\ parked' = 0 /\ clock' = "cleared"
    /\ UNCHANGED <<waited, age, deaf, left, armedFor, asleep, sleeps, worked, slept>>

-----------------------------------------------------------------------------
\* Time.

\* Somebody is asked and has not decided.
Awaited == \E x \in Calls : Waiting(x)

Older(n) ==
    [x \in Calls |-> IF row[x] = "pending" THEN Min2(age[x] + n, CallBound(x) + 1) ELSE age[x]]

\* The timers run for n units.
TimersRun(n) ==
    /\ armedFor' = IF clock = "armed" THEN Min2(armedFor + n, left) ELSE armedFor
    /\ waited' = [x \in Calls |-> IF x \in Asks /\ Waiting(x)
                                  THEN Min2(waited[x] + n, AskBound) ELSE waited[x]]

\* A unit of time passes; due timers, queued events and handlers come first.
Tick ==
    /\ ~ClockDue /\ \A a \in Asks : ~AskDue(a)
    /\ asked = {} /\ decided = {}
    /\ TimersRun(1)
    /\ age' = Older(1)
    /\ worked' = IF turn = "running" /\ ~Awaited THEN worked + 1 ELSE worked
    /\ UNCHANGED <<turn, call, row, deaf, events, tracked, parked, clock, left, asleep,
                   doomed, sleeps, slept>>

\* The machine sleeps. Whether its timers have run meanwhile is the platform's.
Sleep ==
    /\ sleeps < MaxSleeps
    /\ sleeps' = sleeps + 1
    /\ age' = Older(SleepLength)
    /\ slept' = IF clock = "armed" THEN slept + SleepLength ELSE slept
    /\ \/ /\ TimersRun(SleepLength)
          /\ UNCHANGED asleep
       \/ /\ asleep' = IF clock = "armed" THEN asleep + SleepLength ELSE asleep
          /\ UNCHANGED <<armedFor, waited>>
    /\ UNCHANGED <<turn, call, row, deaf, events, tracked, parked, clock, left, doomed, worked>>

-----------------------------------------------------------------------------

User ==
    \/ Stop
    \/ \E x \in Calls, d \in ByUser :
          /\ d \in Decisions(x)
          /\ \/ x \in Asks /\ ResolveAsk(x, d)
             \/ x \in Cards /\ ResolveCard(x, d)

Next ==
    \/ User \/ Expire \/ StreamEnds \/ CancelAsks \/ ExpireCancelled
    \/ ReapAsks \/ CrashAndReboot \/ Tick \/ Sleep
    \/ \E a \in Asks : CallAsk(a) \/ AskParks(a) \/ AskExpires(a)
    \/ \E c \in Cards :
          \/ CallCard(c) \/ CardParks(c) \/ CardAutoApproved(c) \/ RecordFails(c)
          \/ CardReleases(c) \/ ReapCard(c)

Spec == Init /\ [][Next]_vars

\* Timers fire, events are consumed, an interrupted stream ends and a finally
\* runs to its end. Nobody has to answer, and a turn may work until its clock
\* ends it.
FairSpec ==
    /\ Spec
    /\ WF_vars(Tick) /\ WF_vars(Expire) /\ WF_vars(turn = "stopping" /\ StreamEnds)
    /\ WF_vars(CancelAsks) /\ WF_vars(ExpireCancelled) /\ WF_vars(ReapAsks)
    /\ \A a \in Asks : WF_vars(AskParks(a)) /\ WF_vars(AskExpires(a))
    /\ \A c \in Cards :
          WF_vars(CardParks(c)) /\ WF_vars(CardReleases(c)) /\ WF_vars(ReapCard(c))

-----------------------------------------------------------------------------

\* Every variable keeps its shape.
TypeOK ==
    /\ turn \in Turns
    /\ call \in [Calls -> Stages] /\ row \in [Calls -> RowStatuses]
    /\ asked \subseteq Cards /\ decided \subseteq Cards /\ tracked \subseteq Cards
    /\ parked \in Nat
    /\ clock \in Clocks /\ left \in 0..Budget /\ armedFor \in 0..Budget /\ asleep \in Nat
    /\ waited \in [Calls -> 0..AskBound] /\ age \in [Calls -> Nat]
    /\ doomed \subseteq Asks /\ deaf \subseteq Calls
    /\ sleeps \in 0..MaxSleeps /\ worked \in Nat /\ slept \in Nat

\* The gate counts exactly what is parked, form or card, whatever is answered,
\* approved by a rule, cancelled or expired; and the clock of a running turn
\* stands still just when that is not nothing.
GateCountsParked ==
    /\ parked = Cardinality({a \in Asks : Waiting(a)} \cup tracked)
    /\ turn = "running" => (clock = "armed" <=> parked = 0)

\* "Working time, never deciding time": a turn never works past its budget, and
\* its clock is never due before that, but for time the machine slept through.
ClockMeasuresWork ==
    /\ worked <= Budget
    /\ turn = "running" /\ ClockDue => worked + slept >= Budget

\* What a call is told is what its row says, and what the user decides reaches
\* the call unless nobody was waiting any more; a reaped card is never left parked.
HeardAsRecorded ==
    \A x \in Calls :
        /\ call[x] \in ByUser \ {"denied"} => row[x] = call[x]
        /\ call[x] = "denied" => row[x] \in {"denied", "timedOut"}
        /\ row[x] \in ByUser /\ x \notin deaf => call[x] = row[x]
        /\ row[x] = "timedOut" => ~Waiting(x)

\* A decision of the user is never overwritten by a timer, a reaper, the end of
\* the turn or a boot.
DecisionsStand ==
    [][\A x \in Calls : row[x] \in ByUser => row'[x] = row[x]]_vars

\* "Every wait has a bound and an owner": no call is parked for ever, and no
\* turn runs for ever, though nobody may answer.
EveryWaitEnds ==
    /\ turn = "running" ~> turn = "ended"
    /\ \A x \in Calls : Waiting(x) ~> ~Waiting(x)

\* No pending row outlives what waited for it for ever.
EveryRowSettles ==
    \A x \in Calls : Open(x) ~> ~Open(x)

=============================================================================
