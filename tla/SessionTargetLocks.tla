------------------------- MODULE SessionTargetLocks -------------------------
(***************************************************************************)
(* One key of the session-target locks, down to the promise reactions that *)
(* carry a hand-over: between the release that resolves a waiter's parked  *)
(* promise and the waiter's resumption other reactions run, and a give-up  *)
(* may be among them.                                                      *)
(*                                                                         *)
(* A call is one call of `acquire' and the turn behind it. Its signal may   *)
(* be aborted at any moment while it waits; that of a late aborter also     *)
(* between the hand-over and its reactions.                                 *)
(***************************************************************************)
EXTENDS Naturals

CONSTANTS
    Calls,
    Bounded,     \* calls that pass wait options: a bound and an abort signal
    LateAborters \* of these, the calls whose signal a reaction may abort, or
                 \* code in one stretch with a release

ASSUME BoundedAssumption == Bounded \subseteq Calls
ASSUME LateAssumption == LateAborters \subseteq Bounded

VARIABLES
    held,      \* the key is in the map
    queue,     \* calls whose hand-over sits in the key's array
    arrival,   \* the order of the calls (0: not yet); the array keeps it
    arrivals,  \* calls so far
    status,    \* how far each call is
    gaveUp,    \* calls whose bound or signal fired while they waited
    released   \* calls whose release function has run

vars == <<held, queue, arrival, arrivals, status, gaveUp, released>>

\* idle; parked in the queue; handed the lock, reactions pending; resuming with
\* the release function; running its turn; ended; or refusing and refused.
Statuses == {"idle", "parked", "handed", "resuming", "running", "ended",
             "refusing", "refused"}

Init ==
    /\ held = FALSE
    /\ queue = {}
    /\ arrival = [c \in Calls |-> 0]
    /\ arrivals = 0
    /\ status = [c \in Calls |-> "idle"]
    /\ gaveUp = {}
    /\ released = {}

Arrive(c) ==
    /\ status[c] = "idle"
    /\ arrivals' = arrivals + 1
    /\ arrival' = [arrival EXCEPT ![c] = arrivals + 1]
    /\ UNCHANGED released

\* A free key is taken in the call itself, wait options or not.
AcquireFree(c) ==
    /\ ~held /\ Arrive(c)
    /\ held' = TRUE
    /\ status' = [status EXCEPT ![c] = "resuming"]
    /\ UNCHANGED <<queue, gaveUp>>

HasWait(c) == c \in Bounded

\* A held key parks the call; a signal already aborted takes it straight back
\* out of the queue.
AcquireHeld(c) ==
    /\ held /\ Arrive(c)
    /\ \/ /\ queue' = queue \cup {c}
          /\ status' = [status EXCEPT ![c] = "parked"]
          /\ UNCHANGED gaveUp
       \/ /\ HasWait(c)
          /\ status' = [status EXCEPT ![c] = "refusing"]
          /\ gaveUp' = gaveUp \cup {c}
          /\ UNCHANGED queue
    /\ UNCHANGED held

NextInLine(n) == n \in queue /\ \A m \in queue : arrival[n] <= arrival[m]

\* Mutant: a release function may run twice.
SpentNever(c) == FALSE

Spent(c) == c \in released

\* Mutants: the key is dropped before the hand-over; the key is never dropped.
KeyDropped(waiters) == FALSE
KeyKept(waiters) == TRUE

\* The key stays in the map exactly when there is somebody to hand it to.
KeyAfterRelease(waiters) == waiters # {}

\* The release function of c, with c itself leaving the statuses `st': the
\* next in line gets the lock and the key stays held, or the key is freed.
ReleaseFrom(c, st) ==
    \/ /\ Spent(c)
       /\ status' = st
       /\ UNCHANGED <<held, queue, released>>
    \/ /\ ~Spent(c)
       /\ released' = released \cup {c}
       /\ held' = KeyAfterRelease(queue)
       /\ \/ /\ queue = {}
             /\ status' = st
             /\ UNCHANGED queue
          \/ \E n \in queue :
                /\ NextInLine(n)
                /\ queue' = queue \ {n}
                /\ status' = [st EXCEPT ![n] = IF n \in Bounded THEN "handed"
                                               ELSE "resuming"]

EndTurn(c) ==
    /\ status[c] = "running"
    /\ ReleaseFrom(c, [status EXCEPT ![c] = "ended"])
    /\ UNCHANGED <<arrival, arrivals, gaveUp>>

\* The bound or the signal fires: the call leaves the queue in that instant
\* and its rejection is on its way.
GiveUp(c) ==
    /\ HasWait(c) /\ status[c] = "parked"
    /\ gaveUp' = gaveUp \cup {c}
    /\ queue' = queue \ {c}
    /\ status' = [status EXCEPT ![c] = "refusing"]
    /\ UNCHANGED <<held, arrival, arrivals, released>>

\* The signal fires after the hand-over and before its reactions: the call is
\* out of the queue already, and its rejection comes too late to win. Timers and
\* network events wait for the reactions.
GiveUpLate(c) ==
    /\ c \in LateAborters \ gaveUp /\ status[c] = "handed"
    /\ gaveUp' = gaveUp \cup {c}
    /\ UNCHANGED <<held, queue, arrival, arrivals, status, released>>

HandsBack(c) == c \in gaveUp

\* The two reactions to the hand-over, one behind the other: the leak guard
\* hands the lock back if the call gave up; and the parked promise wins the race,
\* being resolved before anything was rejected.
React(c) ==
    /\ status[c] = "handed"
    /\ \/ /\ HandsBack(c)
          /\ ReleaseFrom(c, [status EXCEPT ![c] = "resuming"])
       \/ /\ ~HandsBack(c)
          /\ status' = [status EXCEPT ![c] = "resuming"]
          /\ UNCHANGED <<held, queue, released>>
    /\ UNCHANGED <<arrival, arrivals, gaveUp>>

Resume(c) ==
    /\ \/ /\ status[c] = "resuming"
          /\ status' = [status EXCEPT ![c] = "running"]
       \/ /\ status[c] = "refusing"
          /\ status' = [status EXCEPT ![c] = "refused"]
    /\ UNCHANGED <<held, queue, arrival, arrivals, gaveUp, released>>

Next ==
    \E c \in Calls :
        \/ AcquireFree(c) \/ AcquireHeld(c)
        \/ EndTurn(c) \/ GiveUp(c) \/ GiveUpLate(c)
        \/ React(c) \/ Resume(c)

Spec == Init /\ [][Next]_vars

\* Reactions run, and every turn ends.
FairSpec ==
    /\ Spec
    /\ \A c \in Calls : WF_vars(React(c) \/ Resume(c) \/ EndTurn(c))

-----------------------------------------------------------------------------

\* Every variable keeps its shape.
TypeOK ==
    /\ held \in BOOLEAN
    /\ queue \subseteq Calls
    /\ arrival \in [Calls -> Nat]
    /\ arrivals \in Nat
    /\ status \in [Calls -> Statuses]
    /\ gaveUp \subseteq Bounded
    /\ released \subseteq Calls

Granted == {"handed", "resuming", "running"}

\* The registry's single writer: no two turns on one key.
OneTurnAtATime ==
    \A c, d \in Calls : status[c] = "running" /\ status[d] = "running" => c = d

\* The key never strands and is never freed under a holder: it is held exactly
\* while one call has been given a release function it has yet to run.
HeldByOne ==
    /\ held => \E c \in Calls : status[c] \in Granted /\ c \notin released
    /\ \A c \in Calls :
          status[c] \in Granted /\ c \notin released =>
              /\ held
              /\ \A d \in Calls : status[d] \in Granted /\ d \notin released => d = c

\* Nobody overtakes: when a call has been served, every earlier one has been
\* served or has given up.
FirstComeFirstServed ==
    \A c, d \in Calls :
        /\ arrival[c] # 0 /\ arrival[c] < arrival[d]
        /\ status[d] \in Granted \cup {"ended"}
        => status[c] # "parked"

\* Every call is answered: its turn runs to its end, or it is refused.
EveryCallIsAnswered ==
    \A c \in Calls : status[c] # "idle" ~> status[c] \in {"ended", "refused"}

InTime(states) == {c \in Calls \ LateAborters : status[c] \in states}

Promise == INSTANCE TurnMutex WITH
    Calls    <- Calls \ LateAborters,
    asking   <- InTime({"parked", "handed", "resuming", "refusing"}),
    inTurn   <- InTime({"running"}),
    answered <- InTime({"ended", "refused"})

\* To every caller that does not abort between its hand-over and the reactions
\* the lock keeps its promise, whatever the late aborters do: among these
\* callers one turn at a time, each admitted or refused, never both. A late
\* aborter has no such promise: it is resumed with a release function that the
\* leak guard has spent, and runs beside the next in line.
KeepsPromise == Promise!Spec

=============================================================================
