---------------------------- MODULE TurnParksProofs ----------------------------
(***************************************************************************)
(* For any number of forms and cards and any bounds: the gate counts       *)
(* exactly what is parked, the clock measures the turn's work, every call  *)
(* is told what its row says and no decision of the user is overwritten.   *)
(* The gate's count is right because a card that has parked stays tracked  *)
(* until the event that says it is decided; the clock's is because what it *)
(* has spent and what it has run lie between the work and the work with    *)
(* the sleep added.                                                        *)
(***************************************************************************)
EXTENDS TurnParks, FiniteSetTheorems, TLAPS

\* A call has no row before its handler, or its event, has been.
Unrecorded ==
    /\ \A a \in Asks : call[a] \in {"idle", "called"} => row[a] = "none"
    /\ \A c \in Cards : call[c] = "idle" \/ c \in asked => row[c] = "none"

\* A parked card waits until an event says what became of it.
CardsAreTracked ==
    /\ \A c \in tracked :
          /\ c \notin asked /\ call[c] # "idle"
          /\ Streaming => Waiting(c) \/ c \in decided
    /\ \A c \in Cards : Waiting(c) => c \in tracked
    /\ \A c \in decided : call[c] \in Told
    /\ \A c \in asked :
          /\ call[c] # "idle" /\ ~Waiting(c)
          /\ Streaming => call[c] = "called" \/ c \in decided

ParkedCalls == {a \in Asks : Waiting(a)} \cup tracked

GateIsExact ==
    /\ parked = Cardinality(ParkedCalls)
    /\ turn = "running" => clock # "cleared" /\ (clock = "armed" <=> parked = 0)

\* Budget - left has been spent before the clock was last armed.
ClockIsExact ==
    /\ armedFor <= left
    /\ worked <= (Budget - left) + armedFor
    /\ clock = "disarmed" => armedFor = 0 /\ asleep = 0
    /\ turn = "running" => (Budget - left) + armedFor + asleep <= worked + slept

IInv ==
    /\ TypeOK /\ Unrecorded /\ HeardAsRecorded /\ CardsAreTracked
    /\ GateIsExact /\ ClockIsExact

USE CallsAssumption, BoundsAssumption

-----------------------------------------------------------------------------
\* The gate and the clock.

GateTypes ==
    /\ parked \in Nat /\ clock \in Clocks
    /\ left \in 0..Budget /\ armedFor \in 0..Budget /\ asleep \in Nat

LEMMA ParkedCallsAreFinite ==
    ASSUME TypeOK PROVE ParkedCalls \subseteq Calls /\ IsFiniteSet(ParkedCalls)
<1>1. ParkedCalls \subseteq Calls
  BY DEF TypeOK, ParkedCalls, Calls
<1> QED
  BY <1>1, FS_Subset

\* Moving the gate keeps the clock's accounts.
LEMMA GateMovesKeeps ==
    ASSUME TypeOK, ClockIsExact, NEW n \in Nat, GateMoves(n), UNCHANGED <<worked, slept>>,
           turn' = "running" => turn = "running"
    PROVE  /\ GateTypes' /\ ClockIsExact' /\ parked' = n
           /\ clock # "cleared" => clock' # "cleared" /\ (clock' = "armed" <=> n = 0)
<1>1. /\ left \in Nat /\ left <= Budget /\ armedFor \in Nat /\ asleep \in Nat
      /\ armedFor <= left /\ worked \in Nat /\ slept \in Nat /\ clock \in Clocks
  BY DEF TypeOK, ClockIsExact
<1>2. CASE /\ clock = "armed" /\ n > 0 /\ clock' = "disarmed" /\ left' = Remaining
           /\ armedFor' = 0 /\ asleep' = 0
  <2>1. /\ left' \in 0..Budget /\ left' <= left - armedFor
        /\ (left' = 0 /\ left <= armedFor + asleep) \/ left' = left - (armedFor + asleep)
    BY <1>1, <1>2 DEF Remaining, Minus
  <2>2. GateTypes' /\ parked' = n
    BY <1>2, <2>1 DEF GateMoves, GateTypes, Clocks
  <2>3. worked <= Budget - left'
    <3>1. worked <= (Budget - left) + armedFor
      BY DEF ClockIsExact
    <3>2. left' \in Nat /\ left' <= left - armedFor
      BY <2>1
    <3>3. \A b, l, f, m, w \in Nat : w <= (b - l) + f /\ m <= l - f => w <= b - m
      OBVIOUS
    <3> QED
      BY <1>1, <3>1, <3>2, <3>3
  <2>4. ASSUME turn' = "running" PROVE Budget - left' <= worked + slept
    <3>1. (Budget - left) + armedFor + asleep <= worked + slept
      BY <2>4 DEF ClockIsExact
    <3>2. CASE left' = 0 /\ left <= armedFor + asleep
      BY <1>1, <3>1, <3>2
    <3>3. CASE left' = left - (armedFor + asleep)
      BY <1>1, <3>1, <3>3
    <3> QED
      BY <2>1, <3>2, <3>3
  <2>5. ClockIsExact'
    <3>1. left' \in Nat /\ armedFor' = 0 /\ asleep' = 0
      BY <1>2, <2>1
    <3>2. (Budget - left') + armedFor' = Budget - left'
      BY <3>1
    <3>3. (Budget - left') + armedFor' + asleep' = Budget - left'
      BY <3>1
    <3>4. armedFor' <= left'
      BY <3>1
    <3>5. worked' = worked /\ slept' = slept
      OBVIOUS
    <3> QED
      BY <2>3, <2>4, <3>1, <3>2, <3>3, <3>4, <3>5 DEF ClockIsExact
  <2> QED
    BY <1>2, <2>2, <2>5
<1>3. CASE clock = "disarmed" /\ n = 0 /\ clock' = "armed" /\ UNCHANGED <<left, armedFor, asleep>>
  <2>1. GateTypes' /\ parked' = n
    BY <1>3 DEF GateMoves, GateTypes, Clocks, TypeOK
  <2>2. ClockIsExact'
    BY <1>1, <1>3 DEF ClockIsExact
  <2> QED
    BY <1>3, <2>1, <2>2
<1>4. CASE /\ clock = "cleared" \/ (clock = "armed" <=> n = 0)
           /\ UNCHANGED <<clock, left, armedFor, asleep>>
  <2>1. GateTypes' /\ parked' = n
    BY <1>4 DEF GateMoves, GateTypes, TypeOK
  <2>2. ClockIsExact'
    BY <1>1, <1>4 DEF ClockIsExact
  <2> QED
    BY <1>4, <2>1, <2>2
<1> QED
  BY <1>2, <1>3, <1>4 DEF GateMoves

\* One more call is parked.
LEMMA ParkKeepsGate ==
    ASSUME IInv, MarkParked, UNCHANGED <<worked, slept>>, turn' = "running" => turn = "running",
           NEW x, x \notin ParkedCalls, ParkedCalls' = ParkedCalls \cup {x}
    PROVE  GateTypes' /\ GateIsExact' /\ ClockIsExact'
<1>1. parked \in Nat /\ parked + 1 \in Nat /\ parked + 1 # 0
  BY DEF IInv, TypeOK
<1>2. /\ GateTypes' /\ ClockIsExact' /\ parked' = parked + 1
      /\ clock # "cleared" => clock' # "cleared" /\ (clock' = "armed" <=> parked + 1 = 0)
  BY <1>1, GateMovesKeeps DEF MarkParked, IInv
<1>3. Cardinality(ParkedCalls') = parked + 1
  BY ParkedCallsAreFinite, FS_AddElement DEF IInv, GateIsExact
<1>4. GateIsExact'
  BY <1>1, <1>2, <1>3 DEF IInv, GateIsExact
<1> QED
  BY <1>2, <1>4

\* One call less is parked.
LEMMA ReleaseKeepsGate ==
    ASSUME IInv, MarkResolved, UNCHANGED <<worked, slept>>,
           turn' = "running" => turn = "running",
           NEW x \in ParkedCalls, ParkedCalls' = ParkedCalls \ {x}
    PROVE  GateTypes' /\ GateIsExact' /\ ClockIsExact'
<1>1. parked \in Nat /\ parked # 0
  BY ParkedCallsAreFinite, FS_EmptySet DEF IInv, TypeOK, GateIsExact
<1>2. Minus(parked, 1) = parked - 1 /\ parked - 1 \in Nat
  BY <1>1 DEF Minus
<1>3. /\ GateTypes' /\ ClockIsExact' /\ parked' = parked - 1
      /\ clock # "cleared" => clock' # "cleared" /\ (clock' = "armed" <=> parked - 1 = 0)
  BY <1>2, GateMovesKeeps DEF MarkResolved, IInv
<1>4. Cardinality(ParkedCalls') = parked - 1
  BY <1>1, ParkedCallsAreFinite, FS_RemoveElement DEF IInv, GateIsExact
<1>5. GateIsExact'
  BY <1>3, <1>4 DEF IInv, GateIsExact
<1> QED
  BY <1>3, <1>5

\* The gate stays, and so does what is parked.
LEMMA GateStays ==
    ASSUME IInv, UNCHANGED gate, UNCHANGED <<worked, slept>>,
           turn' = "running" => turn = "running",
           \A a \in Asks : Waiting(a)' <=> Waiting(a)
    PROVE  GateTypes' /\ GateIsExact' /\ ClockIsExact'
<1>1. ParkedCalls' = ParkedCalls
  BY DEF ParkedCalls, gate
<1> QED
  BY <1>1 DEF gate, IInv, TypeOK, GateTypes, GateIsExact, ClockIsExact

-----------------------------------------------------------------------------
\* One lemma per action.

LEMMA CallAskKeeps ==
    ASSUME IInv, NEW a \in Asks, CallAsk(a) PROVE IInv'
<1> USE DEF IInv, CallAsk, events, rest
<1>1. TypeOK'
  BY DEF TypeOK, gate, Calls, Stages
<1>2. Unrecorded' /\ HeardAsRecorded'
  BY DEF TypeOK, Calls, Unrecorded, HeardAsRecorded, Waiting, ByUser
<1>3. CardsAreTracked'
  BY DEF TypeOK, Calls, CardsAreTracked, Streaming, Waiting, gate
<1>4. GateIsExact' /\ ClockIsExact'
  BY GateStays DEF TypeOK, Calls, Waiting
<1> QED
  BY <1>1, <1>2, <1>3, <1>4

LEMMA AskParksKeeps ==
    ASSUME IInv, NEW a \in Asks, AskParks(a) PROVE IInv'
<1> USE DEF IInv, AskParks, events, rest
<1>1. a \notin ParkedCalls /\ ParkedCalls' = ParkedCalls \cup {a}
  BY DEF TypeOK, Calls, Waiting, ParkedCalls
<1>2. GateTypes' /\ GateIsExact' /\ ClockIsExact'
  BY <1>1, ParkKeepsGate
<1>3. TypeOK'
  BY <1>2 DEF TypeOK, Calls, Stages, RowStatuses, GateTypes
<1>4. Unrecorded' /\ HeardAsRecorded'
  BY DEF TypeOK, Calls, Unrecorded, HeardAsRecorded, Waiting, ByUser
<1>5. CardsAreTracked'
  BY DEF TypeOK, Calls, CardsAreTracked, Streaming, Waiting
<1> QED
  BY <1>2, <1>3, <1>4, <1>5

LEMMA AskExpiresKeeps ==
    ASSUME IInv, NEW a \in Asks, AskExpires(a) PROVE IInv'
<1> USE DEF IInv, AskExpires, AskDue, events, rest
<1>1. a \in ParkedCalls /\ ParkedCalls' = ParkedCalls \ {a}
  BY DEF TypeOK, Calls, Waiting, ParkedCalls
<1>2. GateTypes' /\ GateIsExact' /\ ClockIsExact'
  BY <1>1, ReleaseKeepsGate
<1>3. TypeOK'
  BY <1>2 DEF TypeOK, Calls, Stages, Told, RowStatuses, GateTypes, Expired
<1>4. Unrecorded' /\ HeardAsRecorded'
  BY DEF TypeOK, Calls, Unrecorded, HeardAsRecorded, Waiting, ByUser, Expired, Open
<1>5. CardsAreTracked'
  BY DEF TypeOK, Calls, CardsAreTracked, Streaming, Waiting
<1> QED
  BY <1>2, <1>3, <1>4, <1>5

LEMMA ResolveAskKeeps ==
    ASSUME IInv, NEW a \in Asks, NEW d \in {"answered", "dismissed"}, ResolveAsk(a, d)
    PROVE  IInv'
<1> USE DEF IInv, ResolveAsk, events, rest
<1>1. GateTypes' /\ GateIsExact' /\ ClockIsExact'
  <2>1. CASE Waiting(a)
    <3>1. a \in ParkedCalls /\ ParkedCalls' = ParkedCalls \ {a}
      BY <2>1 DEF TypeOK, Calls, Waiting, ParkedCalls
    <3> QED
      BY <2>1, <3>1, ReleaseKeepsGate
  <2>2. CASE ~Waiting(a)
    BY <2>2, GateStays DEF Waiting, gate
  <2> QED
    BY <2>1, <2>2
<1>2. TypeOK'
  BY <1>1 DEF TypeOK, Calls, Stages, Told, RowStatuses, ByUser, GateTypes
<1>3. Unrecorded' /\ HeardAsRecorded'
  BY DEF TypeOK, Calls, Unrecorded, HeardAsRecorded, Waiting, ByUser, Open
<1>4. CardsAreTracked'
  BY DEF TypeOK, Calls, CardsAreTracked, Streaming, Waiting
<1> QED
  BY <1>1, <1>2, <1>3, <1>4

LEMMA ReapAsksKeeps ==
    ASSUME IInv, ReapAsks PROVE IInv'
<1> USE DEF IInv, ReapAsks, events, rest
<1>1. TypeOK'
  BY DEF TypeOK, gate, RowStatuses, Expired
<1>2. Unrecorded' /\ HeardAsRecorded'
  BY DEF TypeOK, Calls, Unrecorded, HeardAsRecorded, Waiting, ByUser, Expired, Open
<1>3. CardsAreTracked'
  BY DEF CardsAreTracked, Streaming, Waiting, gate
<1>4. GateIsExact' /\ ClockIsExact'
  BY GateStays DEF Waiting
<1> QED
  BY <1>1, <1>2, <1>3, <1>4

LEMMA CallCardKeeps ==
    ASSUME IInv, NEW c \in Cards, CallCard(c) PROVE IInv'
<1> USE DEF IInv, CallCard, rest
<1>1. TypeOK'
  BY DEF TypeOK, gate, Calls, Stages
<1>2. Unrecorded' /\ HeardAsRecorded'
  BY DEF TypeOK, Calls, Unrecorded, HeardAsRecorded, Waiting, ByUser
<1>3. CardsAreTracked'
  BY DEF TypeOK, Calls, CardsAreTracked, Streaming, Waiting, gate, Told
<1>4. GateIsExact' /\ ClockIsExact'
  BY GateStays DEF TypeOK, Calls, Waiting
<1> QED
  BY <1>1, <1>2, <1>3, <1>4

LEMMA CardParksKeeps ==
    ASSUME IInv, NEW c \in Cards, CardParks(c) PROVE IInv'
<1> USE DEF IInv, CardParks, rest
<1>1. c \notin ParkedCalls /\ ParkedCalls' = ParkedCalls \cup {c}
  BY DEF TypeOK, Calls, Waiting, ParkedCalls, CardsAreTracked
<1>2. GateTypes' /\ GateIsExact' /\ ClockIsExact'
  BY <1>1, ParkKeepsGate
<1>3. TypeOK'
  BY <1>2 DEF TypeOK, Calls, Stages, RowStatuses, GateTypes
<1>4. Unrecorded' /\ HeardAsRecorded'
  BY DEF TypeOK, Calls, Unrecorded, HeardAsRecorded, Waiting, ByUser, CardsAreTracked
<1>5. CardsAreTracked'
  BY DEF TypeOK, Calls, CardsAreTracked, Streaming, Waiting, Told
<1> QED
  BY <1>2, <1>3, <1>4, <1>5

LEMMA CardAutoApprovedKeeps ==
    ASSUME IInv, NEW c \in Cards, CardAutoApproved(c) PROVE IInv'
<1> USE DEF IInv, CardAutoApproved, rest
<1>1. TypeOK'
  BY DEF TypeOK, gate, Calls, Stages, Told, RowStatuses, ByUser
<1>2. Unrecorded' /\ HeardAsRecorded'
  BY DEF TypeOK, Calls, Unrecorded, HeardAsRecorded, Waiting, ByUser
<1>3. CardsAreTracked'
  BY DEF TypeOK, Calls, CardsAreTracked, Streaming, Waiting, gate, Told
<1>4. GateIsExact' /\ ClockIsExact'
  BY GateStays DEF TypeOK, Calls, Waiting
<1> QED
  BY <1>1, <1>2, <1>3, <1>4

LEMMA CardReleasesKeeps ==
    ASSUME IInv, NEW c \in Cards, CardReleases(c) PROVE IInv'
<1> USE DEF IInv, CardReleases, waits, rest
<1>1. GateTypes' /\ GateIsExact' /\ ClockIsExact'
  <2>1. CASE c \in tracked
    <3>1. c \in ParkedCalls /\ ParkedCalls' = ParkedCalls \ {c}
      BY <2>1 DEF Waiting, ParkedCalls
    <3>2. MarkResolved
      BY <2>1 DEF Tracks
    <3> QED
      BY <3>1, <3>2, ReleaseKeepsGate
  <2>2. CASE c \notin tracked
    BY <2>2, GateStays DEF Waiting, Tracks, gate
  <2> QED
    BY <2>1, <2>2
<1>2. TypeOK'
  BY <1>1 DEF TypeOK, GateTypes
<1>3. Unrecorded' /\ HeardAsRecorded'
  BY DEF Unrecorded, HeardAsRecorded, Waiting
<1>4. CardsAreTracked'
  BY DEF CardsAreTracked, Streaming, Waiting, Told
<1> QED
  BY <1>1, <1>2, <1>3, <1>4

LEMMA SettleKeeps ==
    ASSUME IInv, NEW c \in Cards, NEW told \in {"approved", "denied"},
           NEW status \in {"approved", "denied", "timedOut"}, Settle(c, told, status),
           status = told \/ (status = "timedOut" /\ told = "denied"),
           deaf' = deaf \/ deaf' = deaf \cup {c},
           status # "timedOut" /\ ~Waiting(c) => c \in deaf'
    PROVE  IInv'
<1> USE DEF IInv, Settle, rest
<1>1. TypeOK'
  BY DEF TypeOK, gate, Calls, Stages, Told, RowStatuses, ByUser
<1>2. Unrecorded' /\ HeardAsRecorded'
  BY DEF TypeOK, Calls, Unrecorded, HeardAsRecorded, Waiting, ByUser, Open
<1>3. CardsAreTracked'
  BY DEF TypeOK, Calls, CardsAreTracked, Streaming, Waiting, gate, Told
<1>4. GateIsExact' /\ ClockIsExact'
  BY GateStays DEF TypeOK, Calls, Waiting
<1> QED
  BY <1>1, <1>2, <1>3, <1>4

LEMMA InterruptKeeps ==
    ASSUME IInv, Interrupt, Streaming,
           clock' = clock \/ (clock = "armed" /\ clock' = "cleared")
    PROVE  IInv'
<1> USE DEF IInv, Interrupt, rest
<1>1. TypeOK'
  BY DEF TypeOK, Calls, Turns, Stages, Told, Clocks, CardsCancelled
<1>2. Unrecorded' /\ HeardAsRecorded'
  BY DEF TypeOK, Calls, Unrecorded, HeardAsRecorded, Waiting, ByUser, CardsCancelled, Registered
<1>3. CardsAreTracked'
  BY DEF TypeOK, Calls, CardsAreTracked, Streaming, Waiting, CardsCancelled, Registered, Told
<1>4. ParkedCalls' = ParkedCalls
  BY DEF ParkedCalls, Waiting, CardsCancelled, Calls
<1>5. GateIsExact' /\ ClockIsExact'
  BY <1>4 DEF GateIsExact, ClockIsExact
<1> QED
  BY <1>1, <1>2, <1>3, <1>5

LEMMA CloseStreamKeeps ==
    ASSUME IInv, CloseStream,
           \/ UNCHANGED row
           \/ \E c \in asked : ~Registered(c) /\ row' = [row EXCEPT ![c] = "pending"]
    PROVE  IInv'
<1> USE DEF IInv, CloseStream, rest
<1>1. TypeOK'
  BY DEF TypeOK, Calls, Turns, Stages, Told, Clocks, CardsCancelled, RowStatuses
<1>2. Unrecorded' /\ HeardAsRecorded'
  <2>1. CASE UNCHANGED row
    BY <2>1 DEF TypeOK, Calls, Unrecorded, HeardAsRecorded, Waiting, ByUser, CardsCancelled,
                Registered
  <2>2. ASSUME NEW c \in asked, ~Registered(c), row' = [row EXCEPT ![c] = "pending"]
        PROVE  Unrecorded' /\ HeardAsRecorded'
    <3>1. c \in Cards /\ c \notin Asks /\ call[c] # "idle" /\ row[c] = "none"
      BY CallsAssumption DEF TypeOK, Unrecorded, CardsAreTracked
    <3>2. call' = CardsCancelled /\ call'[c] = call[c] /\ call[c] \notin ByUser
      BY <2>2, <3>1 DEF TypeOK, Calls, CardsCancelled, HeardAsRecorded, ByUser
    <3>3. Unrecorded'
      BY <2>2, <3>1 DEF TypeOK, Calls, Unrecorded, CardsCancelled
    <3>4. HeardAsRecorded'
      BY <2>2, <3>1, <3>2 DEF TypeOK, Calls, HeardAsRecorded, Waiting, ByUser, CardsCancelled,
                              Registered
    <3> QED
      BY <3>3, <3>4
  <2> QED
    BY <2>1, <2>2
<1>3. CardsAreTracked'
  BY DEF TypeOK, Calls, CardsAreTracked, Streaming, Waiting, CardsCancelled, Registered, Told
<1>4. ParkedCalls' = ParkedCalls
  BY DEF ParkedCalls, Waiting, CardsCancelled, Calls
<1>5. GateIsExact' /\ ClockIsExact'
  BY <1>4 DEF GateIsExact, ClockIsExact
<1> QED
  BY <1>1, <1>2, <1>3, <1>5

LEMMA CancelAsksKeeps ==
    ASSUME IInv, CancelAsks PROVE IInv'
<1> DEFINE mine == {a \in Asks : Waiting(a)}
<1> USE DEF IInv, CancelAsks, events
<1>1. IsFiniteSet(mine) /\ IsFiniteSet(tracked) /\ mine \cap tracked = {}
  <2>1. mine \subseteq Calls /\ tracked \subseteq Calls
    BY DEF TypeOK, Calls
  <2> QED
    BY <2>1, FS_Subset DEF TypeOK
<1>2. Cardinality(mine) \in Nat /\ Cardinality(tracked) \in Nat
  BY <1>1, FS_CardinalityType
<1>3. parked = Cardinality(mine) + Cardinality(tracked)
  <2>1. ParkedCalls = mine \cup tracked
    BY DEF ParkedCalls
  <2> HIDE DEF mine
  <2>2. Cardinality(mine \cap tracked) = 0
    BY <1>1, FS_EmptySet
  <2>3. Cardinality(mine \cup tracked)
        = Cardinality(mine) + Cardinality(tracked) - Cardinality(mine \cap tracked)
    BY <1>1, FS_Union
  <2> QED
    BY <1>2, <2>1, <2>2, <2>3 DEF GateIsExact
<1>4. Minus(parked, Cardinality(mine)) = Cardinality(tracked)
  <2> HIDE DEF mine
  <2> QED
    BY <1>2, <1>3 DEF Minus
<1>5. GateMoves(Cardinality(tracked)) /\ turn' = "ended"
  BY <1>4
<1>6. GateTypes' /\ ClockIsExact' /\ parked' = Cardinality(tracked)
  BY <1>2, <1>5, GateMovesKeeps
<1>7. GateIsExact'
  <2>1. ParkedCalls' = tracked
    BY DEF ParkedCalls, Waiting, Calls
  <2> QED
    BY <1>5, <1>6, <2>1 DEF GateIsExact
<1>8. TypeOK'
  BY <1>6 DEF TypeOK, Calls, Turns, Stages, Told, GateTypes
<1>9. Unrecorded' /\ HeardAsRecorded'
  BY DEF TypeOK, Calls, Unrecorded, HeardAsRecorded, Waiting, ByUser
<1>10. CardsAreTracked'
  BY DEF TypeOK, Calls, CardsAreTracked, Streaming, Waiting, Told
<1> QED
  BY <1>6, <1>7, <1>8, <1>9, <1>10

LEMMA ExpireCancelledKeeps ==
    ASSUME IInv, ExpireCancelled PROVE IInv'
<1> USE DEF IInv, ExpireCancelled, events
<1>1. TypeOK'
  BY DEF TypeOK, gate, RowStatuses, Expired
<1>2. Unrecorded' /\ HeardAsRecorded'
  BY DEF TypeOK, Calls, Unrecorded, HeardAsRecorded, Waiting, ByUser, Expired, Open
<1>3. CardsAreTracked'
  BY DEF CardsAreTracked, Streaming, Waiting, gate
<1>4. GateIsExact' /\ ClockIsExact'
  BY GateStays DEF Waiting
<1> QED
  BY <1>1, <1>2, <1>3, <1>4

LEMMA CrashAndRebootKeeps ==
    ASSUME IInv, CrashAndReboot PROVE IInv'
<1> USE DEF IInv, CrashAndReboot
<1>1. TypeOK'
  BY DEF TypeOK, Turns, Stages, Told, Clocks, RowStatuses
<1>2. Unrecorded' /\ HeardAsRecorded'
  BY DEF TypeOK, Calls, Unrecorded, HeardAsRecorded, Waiting, ByUser, Open
<1>3. CardsAreTracked'
  BY DEF TypeOK, Calls, CardsAreTracked, Streaming, Waiting
<1>4. ParkedCalls' = {}
  BY DEF ParkedCalls, Waiting, Calls
<1>5. GateIsExact' /\ ClockIsExact'
  BY <1>4, FS_EmptySet DEF GateIsExact, ClockIsExact
<1> QED
  BY <1>1, <1>2, <1>3, <1>5

\* Nobody is awaited just when nothing is parked, once the queued events are taken.
LEMMA ParkedIsAwaited ==
    ASSUME IInv, turn = "running", asked = {}, decided = {}
    PROVE  clock = "armed" <=> ~Awaited
<1>1. clock = "armed" <=> ParkedCalls = {}
  BY ParkedCallsAreFinite, FS_EmptySet DEF IInv, GateIsExact
<1>2. ParkedCalls = {x \in Calls : Waiting(x)}
  BY DEF IInv, TypeOK, ParkedCalls, Calls, CardsAreTracked, Streaming
<1> QED
  BY <1>1, <1>2 DEF Awaited

LEMMA TimePasses ==
    ASSUME TypeOK, NEW n \in Nat
    PROVE  /\ Older(n) \in [Calls -> Nat]
           /\ TimersRun(n) => waited' \in [Calls -> 0..AskBound] /\ armedFor' \in 0..Budget
<1>1. \A x \in Calls : CallBound(x) + 1 \in Nat /\ age[x] + n \in Nat /\ age[x] \in Nat
  BY DEF TypeOK, CallBound
<1>2. Older(n) \in [Calls -> Nat]
  BY <1>1 DEF Older, Min2
<1>3. \A x \in Calls : Min2(waited[x] + n, AskBound) \in 0..AskBound
  BY DEF TypeOK, Min2
<1>4. TimersRun(n) => waited' \in [Calls -> 0..AskBound]
  BY <1>3 DEF TypeOK, TimersRun
<1>5. left \in 0..Budget /\ armedFor \in 0..Budget
  BY DEF TypeOK
<1>6. TimersRun(n) => armedFor' \in 0..Budget
  BY <1>5 DEF TimersRun, Min2
<1> QED
  BY <1>2, <1>4, <1>6

\* The parts of the invariant that time has no part in.
LEMMA TimeLeavesTheRest ==
    ASSUME IInv, UNCHANGED <<turn, call, row, deaf, asked, decided, tracked, parked, clock>>
    PROVE  Unrecorded' /\ HeardAsRecorded' /\ CardsAreTracked' /\ GateIsExact'
<1>1. Unrecorded' /\ HeardAsRecorded' /\ CardsAreTracked'
  BY DEF IInv, Unrecorded, HeardAsRecorded, CardsAreTracked, Waiting, Streaming
<1>2. ParkedCalls' = ParkedCalls
  BY DEF ParkedCalls, Waiting
<1> QED
  BY <1>1, <1>2 DEF IInv, GateIsExact

LEMMA TickKeeps ==
    ASSUME IInv, Tick PROVE IInv'
<1> USE DEF Tick, events
<1>1. /\ left \in Nat /\ left <= Budget /\ armedFor \in Nat /\ armedFor <= left
      /\ asleep \in Nat /\ worked \in Nat /\ slept \in Nat
  BY DEF IInv, TypeOK, ClockIsExact
<1>2. clock = "armed" => armedFor' = armedFor + 1 /\ armedFor + 1 <= left
  BY <1>1 DEF ClockDue, TimersRun, Min2
<1>3. clock # "armed" => armedFor' = armedFor
  BY DEF TimersRun
<1>4. worked' = IF turn = "running" /\ clock = "armed" THEN worked + 1 ELSE worked
  BY ParkedIsAwaited
<1>5. ClockIsExact'
  <2>1. CASE clock = "armed"
    BY <1>1, <1>2, <1>4, <2>1 DEF IInv, ClockIsExact
  <2>2. CASE clock # "armed"
    BY <1>1, <1>3, <1>4, <2>2 DEF IInv, ClockIsExact
  <2> QED
    BY <2>1, <2>2
<1>6. TypeOK'
  <2>1. /\ age' \in [Calls -> Nat] /\ waited' \in [Calls -> 0..AskBound]
        /\ armedFor' \in 0..Budget
    BY TimePasses DEF IInv
  <2>2. worked' \in Nat
    BY <1>1, <1>4
  <2> QED
    BY <2>1, <2>2 DEF IInv, TypeOK
<1> QED
  BY <1>5, <1>6, TimeLeavesTheRest DEF IInv

LEMMA SleepKeeps ==
    ASSUME IInv, Sleep PROVE IInv'
<1> USE DEF Sleep, events
<1>1. /\ left \in Nat /\ left <= Budget /\ armedFor \in Nat /\ armedFor <= left
      /\ asleep \in Nat /\ worked \in Nat /\ slept \in Nat /\ SleepLength \in Nat
  BY DEF IInv, TypeOK, ClockIsExact
<1>2. CASE TimersRun(SleepLength) /\ UNCHANGED asleep
  <2>1. /\ armedFor' \in Nat /\ armedFor <= armedFor' /\ armedFor' <= left
        /\ armedFor' <= armedFor + SleepLength /\ (clock # "armed" => armedFor' = armedFor)
    BY <1>1, <1>2 DEF TimersRun, Min2
  <2>2. ClockIsExact'
    <3>1. CASE clock = "armed"
      <4>1. slept' = slept + SleepLength
        BY <3>1
      <4>2. worked <= (Budget - left) + armedFor'
        <5>1. worked <= (Budget - left) + armedFor
          BY DEF IInv, ClockIsExact
        <5>2. armedFor \in Nat /\ armedFor' \in Nat /\ armedFor <= armedFor' /\ Budget - left \in Nat
          BY <1>1, <2>1
        <5>3. \A b, f, g, w \in Nat : w <= b + f /\ f <= g => w <= b + g
          OBVIOUS
        <5> QED
          BY <1>1, <5>1, <5>2, <5>3
      <4>3. turn = "running" => (Budget - left) + armedFor' + asleep <= worked + slept'
        <5>1. turn = "running" => (Budget - left) + armedFor + asleep <= worked + slept
          BY DEF IInv, ClockIsExact
        <5>2. /\ armedFor \in Nat /\ armedFor' \in Nat /\ armedFor' <= armedFor + SleepLength
              /\ Budget - left \in Nat /\ worked + slept' = (worked + slept) + SleepLength
              /\ worked + slept \in Nat
          BY <1>1, <2>1, <4>1
        <5>3. \A b, f, g, z, t, l \in Nat : b + f + z <= t /\ g <= f + l => b + g + z <= t + l
          OBVIOUS
        <5> QED
          BY <1>1, <5>1, <5>2, <5>3
      <4> QED
        BY <1>2, <2>1, <3>1, <4>2, <4>3 DEF ClockIsExact
    <3>2. CASE clock # "armed"
      BY <1>1, <1>2, <2>1, <3>2 DEF IInv, ClockIsExact
    <3> QED
      BY <3>1, <3>2
  <2>3. TypeOK'
    <3>1. /\ age' \in [Calls -> Nat] /\ waited' \in [Calls -> 0..AskBound]
          /\ armedFor' \in 0..Budget
      BY <1>2, TimePasses DEF IInv
    <3>2. slept' \in Nat /\ sleeps' \in 0..MaxSleeps
      BY <1>1 DEF IInv, TypeOK
    <3> QED
      BY <1>2, <3>1, <3>2 DEF IInv, TypeOK
  <2> QED
    BY <2>2, <2>3, TimeLeavesTheRest DEF IInv
<1>3. CASE /\ asleep' = IF clock = "armed" THEN asleep + SleepLength ELSE asleep
           /\ UNCHANGED <<armedFor, waited>>
  <2>1. ClockIsExact'
    BY <1>1, <1>3 DEF IInv, ClockIsExact
  <2>2. TypeOK'
    <3>1. age' \in [Calls -> Nat] /\ asleep' \in Nat
      BY <1>1, <1>3, TimePasses DEF IInv
    <3>2. slept' \in Nat /\ sleeps' \in 0..MaxSleeps
      BY <1>1 DEF IInv, TypeOK
    <3> QED
      BY <1>3, <3>1, <3>2 DEF IInv, TypeOK
  <2> QED
    BY <2>1, <2>2, TimeLeavesTheRest DEF IInv
<1> QED
  BY <1>2, <1>3

-----------------------------------------------------------------------------
\* The specification.

LEMMA InitHolds ==
    ASSUME Init PROVE IInv
<1>1. TypeOK
  BY DEF Init, TypeOK, Calls, Turns, Stages, RowStatuses, Clocks
<1>2. Unrecorded /\ HeardAsRecorded /\ CardsAreTracked
  BY DEF Init, Calls, Unrecorded, HeardAsRecorded, CardsAreTracked, Waiting, ByUser
<1>3. ParkedCalls = {}
  BY DEF Init, ParkedCalls, Waiting, Calls
<1>4. GateIsExact /\ ClockIsExact
  BY <1>3, FS_EmptySet DEF Init, GateIsExact, ClockIsExact
<1> QED
  BY <1>1, <1>2, <1>4 DEF IInv

LEMMA ResolveCardKeeps ==
    ASSUME IInv, NEW c \in Cards, NEW d \in {"approved", "denied"}, ResolveCard(c, d)
    PROVE  IInv'
<1>1. /\ Settle(c, d, d)
      /\ deaf' = deaf \/ deaf' = deaf \cup {c}
      /\ d # "timedOut" /\ ~Waiting(c) => c \in deaf'
      /\ d = d \/ (d = "timedOut" /\ d = "denied")
  BY DEF ResolveCard
<1>2. d \in {"approved", "denied", "timedOut"}
  OBVIOUS
<1> HIDE DEF IInv, Settle, Waiting
<1> QED
  BY <1>1, <1>2, SettleKeeps, Zenon

LEMMA ReapCardKeeps ==
    ASSUME IInv, NEW c \in Cards, ReapCard(c) PROVE IInv'
BY SettleKeeps DEF ReapCard

LEMMA UserKeeps ==
    ASSUME IInv, User PROVE IInv'
<1>1. CASE Stop
  <2>1. /\ Streaming /\ Interrupt
        /\ clock' = clock \/ (clock = "armed" /\ clock' = "cleared")
    BY <1>1 DEF Stop, Streaming
  <2> QED
    BY <2>1, InterruptKeeps
<1>2. CASE \E a \in Asks, d \in {"answered", "dismissed"} : ResolveAsk(a, d)
  BY <1>2, ResolveAskKeeps
<1>3. CASE \E c \in Cards, d \in {"approved", "denied"} : ResolveCard(c, d)
  BY <1>3, ResolveCardKeeps
<1>4. Cards \cap Asks = {}
  BY CallsAssumption
<1> QED
  BY <1>1, <1>2, <1>3, <1>4 DEF User, Decisions

LEMMA FormStepKeeps ==
    ASSUME IInv, NEW a \in Asks, CallAsk(a) \/ AskParks(a) \/ AskExpires(a) PROVE IInv'
<1> HIDE DEF IInv, CallAsk, AskParks, AskExpires
<1> QED
  BY CallAskKeeps, AskParksKeeps, AskExpiresKeeps

LEMMA CardStepKeeps ==
    ASSUME IInv, NEW c \in Cards,
           \/ CallCard(c) \/ CardParks(c) \/ CardAutoApproved(c) \/ RecordFails(c)
           \/ CardReleases(c) \/ ReapCard(c)
    PROVE  IInv'
<1>1. CASE RecordFails(c)
  BY <1>1, CloseStreamKeeps DEF RecordFails
<1> QED
  BY <1>1, CallCardKeeps, CardParksKeeps, CardAutoApprovedKeeps, CardReleasesKeeps, ReapCardKeeps

LEMMA StutterKeeps ==
    ASSUME IInv, UNCHANGED vars PROVE IInv'
<1> USE DEF vars, waits, gate, events, rest
<1>1. TypeOK'
  BY DEF IInv, TypeOK
<1>2. Unrecorded' /\ HeardAsRecorded' /\ CardsAreTracked' /\ GateIsExact'
  BY TimeLeavesTheRest
<1>3. ClockIsExact'
  BY DEF IInv, ClockIsExact
<1> QED
  BY <1>1, <1>2, <1>3 DEF IInv

LEMMA StepHolds ==
    ASSUME IInv, [Next]_vars PROVE IInv'
<1>1. CASE Expire
  BY <1>1, InterruptKeeps DEF Expire, ClockDue
<1>2. CASE StreamEnds
  BY <1>2, CloseStreamKeeps DEF StreamEnds
<1> HIDE DEF IInv
<1> QED
  BY <1>1, <1>2, UserKeeps, FormStepKeeps, CardStepKeeps, CancelAsksKeeps, ExpireCancelledKeeps,
     ReapAsksKeeps, CrashAndRebootKeeps, TickKeeps, SleepKeeps, StutterKeeps DEF Next

THEOREM Invariance == Spec => []IInv
<1>1. Init => IInv
  BY InitHolds
<1>2. IInv /\ [Next]_vars => IInv'
  BY StepHolds
<1> QED
  BY <1>1, <1>2, PTL DEF Spec

\* Every variable keeps its shape, for any forms, cards and bounds.
THEOREM TypeCorrect == Spec => []TypeOK
<1>1. IInv => TypeOK
  BY DEF IInv
<1> QED
  BY <1>1, Invariance, PTL

\* The gate counts exactly the parked forms and cards, and a running turn's clock
\* stands still just when there are any.
THEOREM GateIsCounted == Spec => []GateCountsParked
<1>1. IInv => GateCountsParked
  BY DEF IInv, GateIsExact, ParkedCalls, GateCountsParked
<1> QED
  BY <1>1, Invariance, PTL

\* No turn works past its budget, and none is ended before that but for time the
\* machine slept through.
THEOREM ClockIsHonest == Spec => []ClockMeasuresWork
<1>1. ASSUME IInv PROVE ClockMeasuresWork
  <2>1. /\ left \in Nat /\ left <= Budget /\ armedFor \in Nat /\ armedFor <= left
        /\ asleep \in Nat /\ worked \in Nat /\ slept \in Nat /\ Budget \in Nat
    BY <1>1 DEF IInv, TypeOK, ClockIsExact
  <2> QED
    BY <1>1, <2>1 DEF IInv, ClockIsExact, ClockMeasuresWork, ClockDue
<1> QED
  BY <1>1, Invariance, PTL

\* What a call is told is what its row says, and what the user decides reaches
\* the call whenever it still waits.
THEOREM CallsHearTheirRows == Spec => []HeardAsRecorded
<1>1. IInv => HeardAsRecorded
  BY DEF IInv
<1> QED
  BY <1>1, Invariance, PTL

\* Only a pending row is ever written again.
LEMMA OnlyOpenRowsChange ==
    ASSUME IInv, [Next]_vars, NEW x \in Calls, row[x] \in ByUser PROVE row'[x] = row[x]
<1> USE DEF IInv
<1>1. row[x] # "pending" /\ row[x] # "none" /\ row \in [Calls -> RowStatuses]
  BY DEF ByUser, TypeOK
<1>2. CASE User
  BY <1>1, <1>2 DEF User, Stop, Interrupt, ResolveAsk, ResolveCard, Settle, Open
<1>3. CASE \E a \in Asks : CallAsk(a) \/ AskParks(a) \/ AskExpires(a)
  BY <1>1, <1>3 DEF CallAsk, AskParks, AskExpires, Expired, Open, Unrecorded
<1>4. CASE \E c \in Cards : \/ CallCard(c) \/ CardParks(c) \/ CardAutoApproved(c)
                           \/ RecordFails(c) \/ CardReleases(c) \/ ReapCard(c)
  BY <1>1, <1>4 DEF CallCard, CardParks, CardAutoApproved, RecordFails, CardReleases, ReapCard,
                    Settle, Open, Unrecorded, waits, TypeOK
<1>5. CASE ReapAsks \/ ExpireCancelled \/ CrashAndReboot
  BY <1>1, <1>5 DEF ReapAsks, ExpireCancelled, CrashAndReboot, Expired, Open
<1>6. CASE Expire \/ StreamEnds \/ CancelAsks \/ Tick \/ Sleep \/ UNCHANGED vars
  BY <1>6 DEF Expire, Interrupt, StreamEnds, CancelAsks, Tick, Sleep, vars, waits
<1> QED
  BY <1>2, <1>3, <1>4, <1>5, <1>6 DEF Next

\* No timer, reaper, end of turn or boot overwrites what the user decided.
THEOREM DecisionsAreFinal == Spec => DecisionsStand
<1>1. IInv /\ [Next]_vars
      => [\A x \in Calls : row[x] \in ByUser => row'[x] = row[x]]_vars
  BY OnlyOpenRowsChange
<1> QED
  BY <1>1, Invariance, PTL DEF Spec, DecisionsStand

=============================================================================
