---------------------------- MODULE RootTurnLock ----------------------------
(***************************************************************************)
(* One key of the root-turn lock: every turn is chained behind the tail of *)
(* the key's promise chain. A waiter that gives up keeps its place in the  *)
(* chain, and its turn is skipped when the place comes up.                 *)
(***************************************************************************)
EXTENDS Naturals, FiniteSets

CONSTANTS
    Calls,
    Bounded,  \* calls that pass wait options
    None

ASSUME BoundedCallsAssumption == Bounded \subseteq Calls /\ IsFiniteSet(Calls)
ASSUME NoneAssumption == None \notin Calls

VARIABLES
    tail,     \* the call whose settling the next one chains after
    behind,   \* the tail each call found
    count,    \* rootTurnCountByLockKey
    arrival,  \* history: the order of the calls (0: not yet)
    arrivals, \* history: calls so far
    status,   \* where each call's turn is
    caller    \* what each caller awaits: the start under a bound, or the turn

vars == <<tail, behind, count, arrival, arrivals, status, caller>>

\* chained behind its predecessor; running; over, its bookkeeping pending; settled.
Statuses == {"idle", "chained", "running", "over", "settled"}
Callers  == {"absent", "bounded", "joined", "refused"}

Init ==
    /\ tail = None
    /\ behind = [c \in Calls |-> None]
    /\ count = 0
    /\ arrival = [c \in Calls |-> 0]
    /\ arrivals = 0
    /\ status = [c \in Calls |-> "idle"]
    /\ caller = [c \in Calls |-> "absent"]

\* isRootTurnLockBusy
Busy == count > 0

ChainsBehind(c) == tail

\* runUnderRootTurnLock: join the chain; the bound covers a wait behind a holder.
Call(c) ==
    /\ status[c] = "idle"
    /\ behind' = [behind EXCEPT ![c] = ChainsBehind(c)]
    /\ tail' = c
    /\ count' = count + 1
    /\ arrivals' = arrivals + 1
    /\ arrival' = [arrival EXCEPT ![c] = arrivals + 1]
    /\ status' = [status EXCEPT ![c] = "chained"]
    /\ caller' = [caller EXCEPT ![c] = IF c \in Bounded /\ Busy THEN "bounded"
                                       ELSE "joined"]

\* Mutant: the abandoned flag is not read.
NeverAbandoned(c) == FALSE

Abandoned(c) == caller[c] = "refused"

\* Mutant: only a turn that ran lets the next one start.
SettledUnlessAbandoned(d) == status[d] = "settled" /\ ~Abandoned(d)

\* What the next place waits for: the settling of this one, well or badly.
SettledForNext(d) == status[d] = "settled"

\* The place in the chain comes up: the turn starts, and its caller awaits it
\* from here on; or it was abandoned and never runs.
ComesUp(c) ==
    /\ status[c] = "chained"
    /\ behind[c] # None => SettledForNext(behind[c])
    /\ \/ /\ Abandoned(c)
          /\ status' = [status EXCEPT ![c] = "over"]
          /\ UNCHANGED caller
       \/ /\ ~Abandoned(c)
          /\ status' = [status EXCEPT ![c] = "running"]
          /\ caller' = [caller EXCEPT ![c] = "joined"]
    /\ UNCHANGED <<tail, behind, count, arrival, arrivals>>

\* The turn ends, well or badly.
TurnEnds(c) ==
    /\ status[c] = "running"
    /\ status' = [status EXCEPT ![c] = "over"]
    /\ UNCHANGED <<tail, behind, count, arrival, arrivals, caller>>

\* Mutant: an abandoned turn is not taken off the count.
CountAfterRun(c) == IF Abandoned(c) THEN count ELSE count - 1

CountAfter(c) == count - 1

\* The chain's own handler, on either outcome: only now may the next one start.
Settle(c) ==
    /\ status[c] = "over"
    /\ status' = [status EXCEPT ![c] = "settled"]
    /\ count' = CountAfter(c)
    /\ UNCHANGED <<tail, behind, arrival, arrivals, caller>>

\* The bound or the signal fires before the start. (After it the race is won
\* by the start, and the flag is not read again.)
GiveUp(c) ==
    /\ caller[c] = "bounded"
    /\ caller' = [caller EXCEPT ![c] = "refused"]
    /\ UNCHANGED <<tail, behind, count, arrival, arrivals, status>>

Next ==
    \E c \in Calls : Call(c) \/ ComesUp(c) \/ TurnEnds(c) \/ Settle(c) \/ GiveUp(c)

Spec == Init /\ [][Next]_vars

\* Reactions run, and every turn ends.
FairSpec ==
    /\ Spec
    /\ \A c \in Calls : WF_vars(ComesUp(c) \/ TurnEnds(c) \/ Settle(c))

-----------------------------------------------------------------------------

\* Every variable keeps its shape.
TypeOK ==
    /\ tail \in Calls \cup {None}
    /\ behind \in [Calls -> Calls \cup {None}]
    /\ count \in Nat
    /\ arrival \in [Calls -> Nat]
    /\ arrivals \in Nat
    /\ status \in [Calls -> Statuses]
    /\ caller \in [Calls -> Callers]

\* Never two turns of one key at once, whatever is abandoned in between.
OneRootTurnAtATime ==
    \A c, d \in Calls : status[c] = "running" /\ status[d] = "running" => c = d

\* The busy probe, by which a delivery decides to yield, counts exactly the
\* turns that run or still have a place in the chain.
BusyCountsTheChain ==
    count = Cardinality({c \in Calls : status[c] \in {"chained", "running", "over"}})

\* Turns start in the order in which they were asked for.
StartInOrder ==
    \A c, d \in Calls :
        /\ arrival[c] # 0 /\ arrival[c] < arrival[d]
        /\ status[d] \in {"running", "over", "settled"}
        => status[c] = "settled"

\* Every place in the chain comes up and settles: abandoned turns wedge nothing.
ChainDrains ==
    \A c \in Calls : status[c] = "chained" ~> status[c] = "settled"

Promise == INSTANCE TurnMutex WITH
    asking   <- {c \in Calls : status[c] = "chained" /\ caller[c] # "refused"},
    inTurn   <- {c \in Calls : status[c] = "running"},
    answered <- {c \in Calls : caller[c] = "refused" \/ status[c] \in {"over", "settled"}}

\* The lock keeps its promise: one turn at a time, and a refusal is final.
KeepsPromise == Promise!Spec

=============================================================================
