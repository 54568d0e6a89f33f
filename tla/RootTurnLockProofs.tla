------------------------- MODULE RootTurnLockProofs -------------------------
(***************************************************************************)
(* Theorems about RootTurnLock, for any calls and any mix of bounded and   *)
(* unbounded ones.                                                         *)
(***************************************************************************)
EXTENDS RootTurnLock, FiniteSetTheorems, TLAPS

\* The calls that have arrived are numbered one by one.
Numbered ==
    /\ \A c \in Calls : arrival[c] \in 0..arrivals
    /\ \A c \in Calls : arrival[c] = 0 <=> status[c] = "idle"
    /\ \A c, d \in Calls : arrival[c] # 0 /\ arrival[c] = arrival[d] => c = d

\* The promise chain in terms of the numbers: each call is behind the one
\* before it, and the tail is the last.
Chained ==
    /\ arrivals = 0 <=> tail = None
    /\ tail # None => arrival[tail] = arrivals
    /\ \A c \in Calls :
          arrival[c] # 0 =>
              IF behind[c] = None THEN arrival[c] = 1
              ELSE arrival[c] = arrival[behind[c]] + 1 /\ arrival[behind[c]] # 0

\* A turn that was skipped never ran, and a caller whose turn started awaits it.
CallersAgree ==
    \A c \in Calls :
        /\ status[c] = "idle" <=> caller[c] = "absent"
        /\ status[c] = "running" => caller[c] = "joined"
        /\ status[c] \in {"over", "settled"} => caller[c] \in {"joined", "refused"}

\* The types that the chain needs; that of `count' takes the size of the chain.
Shape ==
    /\ tail \in Calls \cup {None}
    /\ behind \in [Calls -> Calls \cup {None}]
    /\ arrival \in [Calls -> Nat]
    /\ arrivals \in Nat
    /\ status \in [Calls -> Statuses]
    /\ caller \in [Calls -> Callers]

IInv == Shape /\ Numbered /\ Chained /\ CallersAgree /\ StartInOrder

-----------------------------------------------------------------------------

LEMMA InitIInv == Init => IInv
<1> SUFFICES ASSUME Init PROVE IInv
  OBVIOUS
<1> USE DEF Init
<1>1. Shape
  BY DEF Shape, Statuses, Callers
<1>2. Numbered /\ Chained
  BY DEF Numbered, Chained
<1>3. CallersAgree /\ StartInOrder
  BY DEF CallersAgree, StartInOrder
<1> QED BY <1>1, <1>2, <1>3 DEF IInv

\* A place comes up only when every call before it has settled.
LEMMA EarlierHaveSettled ==
  ASSUME IInv, NEW c \in Calls, status[c] = "chained",
         behind[c] # None => status[behind[c]] = "settled",
         NEW d \in Calls, arrival[d] # 0, arrival[d] < arrival[c]
  PROVE  status[d] = "settled"
<1> USE NoneAssumption DEF IInv, Shape
<1>1. arrival[c] # 0
  BY DEF Numbered
<1>2. behind[c] # None
  BY <1>1 DEF Chained
<1>3. /\ behind[c] \in Calls /\ arrival[behind[c]] # 0
      /\ arrival[c] = arrival[behind[c]] + 1
  BY <1>1, <1>2 DEF Chained
<1>4. CASE arrival[d] = arrival[behind[c]]
  BY <1>2, <1>3, <1>4 DEF Numbered
<1>5. CASE arrival[d] < arrival[behind[c]]
  BY <1>2, <1>3, <1>5 DEF StartInOrder
<1> QED BY <1>3, <1>4, <1>5

LEMMA StepKeepsIInv == IInv /\ [Next]_vars => IInv'
<1> SUFFICES ASSUME IInv, [Next]_vars PROVE IInv'
  OBVIOUS
<1> USE NoneAssumption DEF IInv, Shape
<1>1. ASSUME NEW c \in Calls, Call(c) PROVE IInv'
  <2>1. /\ status[c] = "idle"
        /\ behind' = [behind EXCEPT ![c] = tail]
        /\ tail' = c
        /\ arrivals' = arrivals + 1
        /\ arrival' = [arrival EXCEPT ![c] = arrivals + 1]
        /\ status' = [status EXCEPT ![c] = "chained"]
        /\ \E w \in {"bounded", "joined"} : caller' = [caller EXCEPT ![c] = w]
    BY <1>1 DEF Call, ChainsBehind
  <2>2. Shape'
    BY <2>1 DEF Statuses, Callers
  <2>3. Numbered'
    BY <2>1 DEF Numbered
  <2>4. Chained'
    <3>1. arrival[c] = 0
      BY <2>1 DEF Numbered
    <3>2. tail # None => tail # c
      BY <3>1 DEF Chained
    <3>3. \A d \in Calls : arrival[d] # 0 => behind[d] # c
      BY <3>1 DEF Chained
    <3> QED BY <2>1, <3>1, <3>2, <3>3 DEF Chained
  <2>5. CallersAgree'
    BY <2>1 DEF CallersAgree
  <2>6. StartInOrder'
    <3>1. \A d \in Calls : arrival[d] < arrivals + 1
      BY DEF Numbered
    <3> QED BY <2>1, <3>1 DEF StartInOrder
  <2> QED BY <2>2, <2>3, <2>4, <2>5, <2>6
<1>2. ASSUME NEW c \in Calls, ComesUp(c) PROVE IInv'
  <2>1. /\ status[c] = "chained"
        /\ UNCHANGED <<tail, behind, arrival, arrivals>>
        /\ \/ /\ caller[c] = "refused" /\ caller' = caller
              /\ status' = [status EXCEPT ![c] = "over"]
           \/ /\ caller' = [caller EXCEPT ![c] = "joined"]
              /\ status' = [status EXCEPT ![c] = "running"]
    BY <1>2 DEF ComesUp, Abandoned
  <2>2. \A d \in Calls : arrival[d] # 0 /\ arrival[d] < arrival[c] => status[d] = "settled"
    BY <1>2, EarlierHaveSettled DEF ComesUp, SettledForNext
  <2>3. Shape'
    BY <2>1 DEF Statuses, Callers
  <2>4. Numbered' /\ Chained' /\ CallersAgree'
    BY <2>1 DEF Numbered, Chained, CallersAgree
  <2>5. StartInOrder'
    BY <2>1, <2>2 DEF StartInOrder
  <2> QED BY <2>3, <2>4, <2>5
<1>3. ASSUME NEW c \in Calls, TurnEnds(c) \/ Settle(c) PROVE IInv'
  <2>1. /\ UNCHANGED <<tail, behind, arrival, arrivals, caller>>
        /\ \/ status[c] = "running" /\ status' = [status EXCEPT ![c] = "over"]
           \/ status[c] = "over" /\ status' = [status EXCEPT ![c] = "settled"]
    BY <1>3 DEF TurnEnds, Settle
  <2>2. Shape'
    BY <2>1 DEF Statuses
  <2>3. Numbered' /\ Chained' /\ CallersAgree'
    BY <2>1 DEF Numbered, Chained, CallersAgree
  <2>4. StartInOrder'
    BY <2>1 DEF StartInOrder
  <2> QED BY <2>2, <2>3, <2>4
<1>4. ASSUME NEW c \in Calls, GiveUp(c) PROVE IInv'
  <2>1. /\ UNCHANGED <<tail, behind, arrival, arrivals, status>>
        /\ caller[c] = "bounded"
        /\ caller' = [caller EXCEPT ![c] = "refused"]
    BY <1>4 DEF GiveUp
  <2>2. Shape'
    BY <2>1 DEF Callers
  <2>3. Numbered' /\ Chained' /\ CallersAgree' /\ StartInOrder'
    BY <2>1 DEF Numbered, Chained, CallersAgree, StartInOrder
  <2> QED BY <2>2, <2>3
<1>5. CASE UNCHANGED vars
  BY <1>5 DEF vars, Numbered, Chained, CallersAgree, StartInOrder
<1> QED BY <1>1, <1>2, <1>3, <1>4, <1>5 DEF Next

LEMMA IInvHolds == Spec => []IInv
BY InitIInv, StepKeepsIInv, PTL DEF Spec

-----------------------------------------------------------------------------

LEMMA OrderExcludes == IInv => OneRootTurnAtATime
<1> SUFFICES ASSUME IInv, NEW c \in Calls, NEW d \in Calls,
                    status[c] = "running", status[d] = "running"
             PROVE  c = d
  BY DEF OneRootTurnAtATime
<1> USE DEF IInv, Shape
<1>1. arrival[c] # 0 /\ arrival[d] # 0
  BY DEF Numbered
<1>2. ~(arrival[c] < arrival[d]) /\ ~(arrival[d] < arrival[c])
  BY <1>1 DEF StartInOrder
<1> QED BY <1>1, <1>2 DEF Numbered

\* Turns start in the order of the calls, each after all earlier places have
\* settled: previousTail.then(guardedTurn, guardedTurn).
THEOREM TurnsStartInOrder == Spec => []StartInOrder
<1>1. IInv => StartInOrder
  BY DEF IInv
<1> QED BY <1>1, IInvHolds, PTL

\* So no two turns of one key run at once, whatever is abandoned in between.
THEOREM RootTurnsExclude == Spec => []OneRootTurnAtATime
BY OrderExcludes, IInvHolds, PTL

\* The busy count is the number of places not yet settled.
LEMMA CountStep ==
  IInv /\ IInv' /\ BusyCountsTheChain /\ [Next]_vars => BusyCountsTheChain'
<1> SUFFICES ASSUME IInv, IInv', BusyCountsTheChain, [Next]_vars
             PROVE  BusyCountsTheChain'
  OBVIOUS
<1> DEFINE Places == {c \in Calls : status[c] \in {"chained", "running", "over"}}
<1> USE DEF IInv, Shape
<1>0. IsFiniteSet(Places)
  BY BoundedCallsAssumption, FS_Subset
<1>1. ASSUME NEW c \in Calls, Call(c) PROVE BusyCountsTheChain'
  <2>1. count' = count + 1 /\ c \notin Places /\ Places' = Places \cup {c}
    BY <1>1 DEF Call
  <2> QED BY <1>0, <2>1, FS_AddElement DEF BusyCountsTheChain
<1>2. ASSUME NEW c \in Calls, ComesUp(c) \/ TurnEnds(c) PROVE BusyCountsTheChain'
  <2>1. count' = count /\ Places' = Places
    BY <1>2 DEF ComesUp, TurnEnds
  <2> QED BY <2>1 DEF BusyCountsTheChain
<1>3. ASSUME NEW c \in Calls, Settle(c) PROVE BusyCountsTheChain'
  <2>1. count' = count - 1 /\ c \in Places /\ Places' = Places \ {c}
    BY <1>3 DEF Settle, CountAfter
  <2>2. Cardinality(Places \ {c}) = Cardinality(Places) - 1
    BY <1>0, <2>1, FS_RemoveElement
  <2>3. Cardinality(Places') = Cardinality(Places) - 1
    BY <2>1, <2>2
  <2> QED BY <2>1, <2>3 DEF BusyCountsTheChain
<1>4. ASSUME NEW c \in Calls, GiveUp(c) PROVE BusyCountsTheChain'
  BY <1>4 DEF GiveUp, BusyCountsTheChain
<1>5. CASE UNCHANGED vars
  BY <1>5 DEF vars, BusyCountsTheChain
<1> QED BY <1>1, <1>2, <1>3, <1>4, <1>5 DEF Next

\* isRootTurnLockBusy tells exactly whether a turn runs or has a place in the
\* chain: an abandoned place counts until it has come up and settled.
THEOREM BusyIsExact == Spec => []BusyCountsTheChain
<1>1. Init => BusyCountsTheChain
  <2>1. ASSUME Init PROVE {c \in Calls : status[c] \in {"chained", "running", "over"}} = {}
    BY <2>1 DEF Init
  <2> QED BY <2>1, FS_EmptySet DEF Init, BusyCountsTheChain
<1> QED BY <1>1, CountStep, IInvHolds, PTL DEF Spec

\* Every variable keeps its shape; the count is a number because it is the size
\* of the chain.
THEOREM RootLockTypeCorrect == Spec => []TypeOK
<1>1. IInv /\ BusyCountsTheChain => TypeOK
  <2> SUFFICES ASSUME IInv, BusyCountsTheChain PROVE TypeOK
    OBVIOUS
  <2>1. IsFiniteSet({c \in Calls : status[c] \in {"chained", "running", "over"}})
    BY BoundedCallsAssumption, FS_Subset
  <2>2. count \in Nat
    BY <2>1, FS_CardinalityType DEF BusyCountsTheChain
  <2> QED BY <2>2 DEF IInv, Shape, TypeOK
<1> QED BY <1>1, IInvHolds, BusyIsExact, PTL

LEMMA StepKeepsPromise ==
  IInv /\ OneRootTurnAtATime' /\ [Next]_vars => [Promise!Next]_(Promise!vars)
<1> SUFFICES ASSUME IInv, OneRootTurnAtATime', [Next]_vars
             PROVE  [Promise!Next]_(Promise!vars)
  OBVIOUS
<1> USE DEF IInv, Shape, CallersAgree
<1>1. ASSUME NEW c \in Calls, Call(c) PROVE Promise!Ask(c)
  <2>1. PICK w \in {"bounded", "joined"} :
          /\ status[c] = "idle" /\ caller[c] = "absent"
          /\ status' = [status EXCEPT ![c] = "chained"]
          /\ caller' = [caller EXCEPT ![c] = w]
    BY <1>1 DEF Call
  <2> QED BY <2>1 DEF Promise!Ask
<1>2. ASSUME NEW c \in Calls, ComesUp(c) PROVE Promise!Admit(c) \/ UNCHANGED Promise!vars
  <2>1. CASE Abandoned(c)
    BY <1>2, <2>1 DEF ComesUp, Abandoned, Promise!vars
  <2>2. CASE ~Abandoned(c)
    <3>1. /\ status[c] = "chained" /\ caller[c] # "refused"
          /\ status' = [status EXCEPT ![c] = "running"]
          /\ caller' = [caller EXCEPT ![c] = "joined"]
      BY <1>2, <2>2 DEF ComesUp, Abandoned
    <3>2. {d \in Calls : status[d] = "running"} = {}
      <4> SUFFICES ASSUME NEW d \in Calls, status[d] = "running" PROVE FALSE
        OBVIOUS
      <4>1. d # c /\ status'[c] = "running" /\ status'[d] = "running"
        BY <3>1
      <4> QED BY <4>1 DEF OneRootTurnAtATime
    <3> QED BY <3>1, <3>2 DEF Promise!Admit
  <2> QED BY <2>1, <2>2
<1>3. ASSUME NEW c \in Calls, TurnEnds(c) PROVE Promise!Finish(c)
  BY <1>3 DEF TurnEnds, Promise!Finish
<1>4. ASSUME NEW c \in Calls, Settle(c) PROVE UNCHANGED Promise!vars
  BY <1>4 DEF Settle, Promise!vars
<1>5. ASSUME NEW c \in Calls, GiveUp(c) PROVE Promise!Refuse(c)
  <2>1. /\ status' = status /\ caller[c] = "bounded"
        /\ caller' = [caller EXCEPT ![c] = "refused"]
    BY <1>5 DEF GiveUp
  <2>2. status[c] = "chained"
    BY <2>1 DEF Statuses
  <2> QED BY <2>1, <2>2 DEF Promise!Refuse
<1>6. CASE UNCHANGED vars
  BY <1>6 DEF vars, Promise!vars
<1> QED BY <1>1, <1>2, <1>3, <1>4, <1>5, <1>6 DEF Next, Promise!Next

\* The chain implements TurnMutex: a turn is admitted alone, in or out of its
\* caller's patience, and a caller that was refused never sees its turn run.
THEOREM ChainKeepsPromise == Spec => KeepsPromise
<1>1. Init => Promise!Init
  BY DEF Init, Promise!Init
<1> QED BY <1>1, StepKeepsPromise, IInvHolds, RootTurnsExclude, PTL DEF Spec, KeepsPromise, Promise!Spec

=============================================================================
