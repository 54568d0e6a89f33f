------------------------- MODULE ChannelInboundProofs -------------------------
(***************************************************************************)
(* For any number of messages, overlapping polls, lost answers and crashes *)
(* of the daemon: no update that Telegram has dropped is lost, and no      *)
(* message starts two turns.                                               *)
(* The cursor may go back, but neither it nor what a tick asks from ever   *)
(* gets ahead of what is recorded.                                         *)
(***************************************************************************)
EXTENDS ChannelInbound, TLAPS

\* Every message before n is recorded.
RecordedTo(n) == \A m \in Msgs : m < n => Known(m)

CursorsAreBehind ==
    /\ RecordedTo(confirmed) /\ RecordedTo(cursor)
    /\ \A p \in Polls : RecordedTo(polls[p].from) /\ RecordedTo(polls[p].lo)

UnstartedUntilRouted ==
    \A m \in Msgs : inbound[m] \in {"none", "ignored", "pending"} => started[m] = 0

\* A running turn's message is routed.
RunningAreRouted == \A m \in running : inbound[m] = "routed"

IInv ==
    /\ TypeOK /\ CursorsAreBehind /\ UnstartedUntilRouted /\ OneTurnPerMessage
    /\ RunningAreRouted

PollStates == [stage : {"idle", "asked", "served"}, from : Nat, lo : Nat, upto : 0..MaxMsgs]

USE BoundsAssumption

\* The messages are numbers from 1.
LEMMA MsgsAreNumbers == Msgs \subseteq Nat /\ \A m \in Msgs : 1 <= m /\ m <= MaxMsgs
  BY DEF Msgs

\* Recording an answer, whole or in part, keeps everything that is recorded.
LEMMA RecordingKeeps ==
    ASSUME IInv, NEW p \in Polls, NEW n \in 0..MaxMsgs, NEW friends \in SUBSET Msgs,
           inbound' = Recorded(p, n, friends)
    PROVE  /\ inbound' \in [Msgs -> Statuses]
           /\ \A m \in Msgs : Known(m) => inbound'[m] = inbound[m]
           /\ \A m \in Msgs : inbound'[m] # inbound[m] => inbound'[m] \in {"pending", "ignored"}
           /\ \A m \in Msgs : polls[p].lo <= m /\ m <= n => Known(m)'
  BY DEF IInv, TypeOK, Statuses, Recorded, Known

\* An answer that is recorded leaves the turns alone.
LEMMA RecordingKeepsTurns ==
    ASSUME IInv, NEW p \in Polls, NEW n \in 0..MaxMsgs, NEW friends \in SUBSET Msgs,
           inbound' = Recorded(p, n, friends), UNCHANGED started
    PROVE  /\ UnstartedUntilRouted' /\ OneTurnPerMessage'
           /\ \A m \in Msgs : inbound[m] = "routed" => inbound'[m] = "routed"
<1>1. UnstartedUntilRouted'
  BY RecordingKeeps DEF IInv, TypeOK, UnstartedUntilRouted, Known
<1>2. OneTurnPerMessage'
  BY DEF IInv, OneTurnPerMessage
<1>3. \A m \in Msgs : inbound[m] = "routed" => inbound'[m] = "routed"
  BY RecordingKeeps DEF Known
<1> QED
  BY <1>1, <1>2, <1>3

LEMMA WriteKeeps == ASSUME IInv, Write PROVE IInv'
<1>1. TypeOK'
  BY DEF Write, turns, IInv, TypeOK
<1>2. CursorsAreBehind' /\ UnstartedUntilRouted' /\ OneTurnPerMessage'
  BY DEF Write, turns, IInv, CursorsAreBehind, RecordedTo, Known, UnstartedUntilRouted,
         OneTurnPerMessage
<1>3. RunningAreRouted'
  BY DEF Write, turns, IInv, RunningAreRouted
<1> QED
  BY <1>1, <1>2, <1>3 DEF IInv

\* A step of a poll that records nothing.
LEMMA PollStepKeeps ==
    ASSUME IInv, NEW p \in Polls, NEW state \in PollStates,
           RecordedTo(state.from) /\ RecordedTo(state.lo),
           polls' = [polls EXCEPT ![p] = state],
           confirmed' \in Nat, RecordedTo(confirmed'),
           UNCHANGED <<written, cursor, inbound, turns, crashes>>
    PROVE  IInv'
<1>1. TypeOK'
  BY DEF turns, IInv, TypeOK, PollStates
<1>2. CursorsAreBehind'
  BY DEF IInv, TypeOK, CursorsAreBehind, RecordedTo, Known
<1>3. UnstartedUntilRouted' /\ OneTurnPerMessage' /\ RunningAreRouted'
  BY DEF turns, IInv, UnstartedUntilRouted, OneTurnPerMessage, RunningAreRouted
<1> QED
  BY <1>1, <1>2, <1>3 DEF IInv

LEMMA IdleIsFine == Idle \in PollStates /\ RecordedTo(Idle.from) /\ RecordedTo(Idle.lo)
  BY MsgsAreNumbers DEF Idle, PollStates, RecordedTo

LEMMA PollAsksKeeps == ASSUME IInv, NEW p \in Polls, PollAsks(p) PROVE IInv'
<1> DEFINE state == [stage |-> "asked", from |-> cursor, lo |-> Idle.lo, upto |-> 0]
<1>1. state \in PollStates /\ state.from = cursor /\ state.lo = Idle.lo
  BY DEF Idle, PollStates, IInv, TypeOK
<1>2. RecordedTo(state.from) /\ RecordedTo(state.lo)
  BY <1>1, IdleIsFine DEF IInv, CursorsAreBehind
<1>3. polls' = [polls EXCEPT ![p] = state] /\ confirmed' = confirmed
  BY DEF PollAsks, service
<1>4. UNCHANGED <<written, cursor, inbound, turns, crashes>>
  BY DEF PollAsks, service
<1>5. confirmed' \in Nat /\ RecordedTo(confirmed')
  BY <1>3 DEF IInv, TypeOK, CursorsAreBehind
<1> HIDE DEF state, IInv
<1> QED
  BY <1>1, <1>2, <1>3, <1>4, <1>5, PollStepKeeps

LEMMA ServiceAnswersKeeps == ASSUME IInv, NEW p \in Polls, ServiceAnswers(p) PROVE IInv'
<1> DEFINE state == [stage |-> "served", from |-> polls[p].from,
                     lo |-> confirmed', upto |-> written]
<1>1. polls[p].from \in Nat /\ confirmed \in Nat /\ written \in 0..MaxMsgs
  BY DEF IInv, TypeOK
<1>2. confirmed' \in {confirmed, polls[p].from}
  BY DEF ServiceAnswers, Max2
<1>3. confirmed' \in Nat /\ RecordedTo(confirmed')
  BY <1>1, <1>2 DEF IInv, CursorsAreBehind
<1>4. state \in PollStates
  BY <1>1, <1>3 DEF PollStates
<1>5. RecordedTo(state.from) /\ RecordedTo(state.lo)
  BY <1>3 DEF IInv, CursorsAreBehind
<1>6. /\ polls' = [polls EXCEPT ![p] = state]
      /\ UNCHANGED <<written, cursor, inbound, turns, crashes>>
  BY DEF ServiceAnswers
<1> HIDE DEF state, IInv
<1> QED
  BY <1>3, <1>4, <1>5, <1>6, PollStepKeeps

LEMMA PollFailsKeeps == ASSUME IInv, NEW p \in Polls, PollFails(p) PROVE IInv'
<1>1. /\ polls' = [polls EXCEPT ![p] = Idle] /\ confirmed' = confirmed
      /\ UNCHANGED <<written, cursor, inbound, turns, crashes>>
  BY DEF PollFails, service
<1>2. confirmed' \in Nat /\ RecordedTo(confirmed')
  BY <1>1 DEF IInv, TypeOK, CursorsAreBehind
<1> HIDE DEF IInv
<1> QED
  BY <1>1, <1>2, IdleIsFine, PollStepKeeps

LEMMA PollAppliesKeeps == ASSUME IInv, NEW p \in Polls, PollApplies(p) PROVE IInv'
<1>1. PICK friends \in SUBSET Msgs : inbound' = Recorded(p, polls[p].upto, friends)
  BY DEF PollApplies
<1>2. /\ polls' = [polls EXCEPT ![p] = Idle] /\ cursor' = NextCursor(p)
      /\ UNCHANGED <<written, confirmed, running, before, queued, started, crashes>>
  BY DEF PollApplies, service, turns
<1>3. polls[p].upto \in 0..MaxMsgs /\ polls[p].from \in Nat /\ polls[p].lo \in Nat
  BY DEF IInv, TypeOK
<1>4. /\ inbound' \in [Msgs -> Statuses]
      /\ \A m \in Msgs : Known(m) => Known(m)'
      /\ \A m \in Msgs : polls[p].lo <= m /\ m <= polls[p].upto => Known(m)'
  BY <1>1, <1>3, RecordingKeeps DEF Known
<1>5. TypeOK'
  <2>1. NextCursor(p) \in Nat
    BY <1>3 DEF NextCursor
  <2>2. polls' \in [Polls -> PollStates]
    BY <1>2, IdleIsFine DEF IInv, TypeOK, PollStates
  <2> QED
    BY <1>2, <1>4, <2>1, <2>2 DEF IInv, TypeOK, PollStates
<1>6. CursorsAreBehind'
  <2>1. \A n \in Nat : RecordedTo(n) => RecordedTo(n)'
    BY <1>4 DEF RecordedTo
  <2>2. RecordedTo(polls[p].from) /\ RecordedTo(polls[p].lo)
    BY DEF IInv, CursorsAreBehind
  <2>3. RecordedTo(cursor)'
    <3>1. CASE cursor' = polls[p].from
      BY <1>3, <2>1, <2>2, <3>1
    <3>2. CASE cursor' = polls[p].upto + 1
      <4> SUFFICES ASSUME NEW m \in Msgs, m < polls[p].upto + 1 PROVE Known(m)'
        BY <3>2 DEF RecordedTo
      <4>1. CASE m < polls[p].lo
        BY <1>4, <2>2, <4>1 DEF RecordedTo
      <4>2. CASE ~(m < polls[p].lo)
        BY <1>3, <1>4, <4>2, MsgsAreNumbers
      <4> QED
        BY <4>1, <4>2
    <3> QED
      BY <1>2, <3>1, <3>2 DEF NextCursor
  <2>4. \A q \in Polls : RecordedTo(polls[q].from)' /\ RecordedTo(polls[q].lo)'
    BY <1>2, <1>4, IdleIsFine DEF IInv, TypeOK, CursorsAreBehind, RecordedTo
  <2>5. RecordedTo(confirmed)'
    BY <1>2, <1>4 DEF IInv, CursorsAreBehind, RecordedTo
  <2> QED
    BY <2>3, <2>4, <2>5 DEF CursorsAreBehind
<1>7. UnstartedUntilRouted' /\ OneTurnPerMessage'
  BY <1>1, <1>2, <1>3, RecordingKeepsTurns
<1>8. RunningAreRouted'
  <2>1. running \subseteq Msgs
    BY DEF IInv, TypeOK
  <2> QED
    BY <1>1, <1>2, <1>3, <2>1, RecordingKeepsTurns DEF IInv, RunningAreRouted
<1> QED
  BY <1>5, <1>6, <1>7, <1>8 DEF IInv

\* A step of the turns that keeps every message known, and the polls as they are.
LEMMA CursorsStay ==
    ASSUME IInv, UNCHANGED <<service, cursor, polls>>,
           \A m \in Msgs : Known(m) => Known(m)'
    PROVE  CursorsAreBehind'
  BY DEF service, IInv, CursorsAreBehind, RecordedTo

LEMMA StartTurnsKeeps == ASSUME IInv, StartTurns PROVE IInv'
<1> DEFINE taken == {m \in Msgs : inbound[m] = "pending"}
<1>1. /\ inbound' = [m \in Msgs |-> IF m \in taken THEN "routed" ELSE inbound[m]]
      /\ running' = running \cup taken
      /\ before' = [m \in Msgs |-> IF m \in taken THEN queued ELSE before[m]]
      /\ started' = [m \in Msgs |-> IF m \in taken THEN started[m] + 1 ELSE started[m]]
      /\ UNCHANGED <<service, cursor, polls, queued, crashes>>
  BY DEF StartTurns
<1>2. TypeOK'
  BY <1>1 DEF service, IInv, TypeOK, Statuses
<1>3. CursorsAreBehind'
  BY <1>1, CursorsStay DEF Known
<1>4. UnstartedUntilRouted' /\ OneTurnPerMessage'
  BY <1>1 DEF IInv, TypeOK, UnstartedUntilRouted, OneTurnPerMessage
<1>5. RunningAreRouted'
  BY <1>1 DEF IInv, TypeOK, RunningAreRouted
<1> QED
  BY <1>2, <1>3, <1>4, <1>5 DEF IInv

\* A row is queued.
LEMMA QueueKeeps ==
    ASSUME IInv, NEW row \in Rows,
           queued' = queued \cup {row},
           UNCHANGED <<service, cursor, polls, inbound, running, before, started, crashes>>
    PROVE  IInv'
<1>1. TypeOK'
  BY DEF service, IInv, TypeOK
<1>2. CursorsAreBehind'
  BY CursorsStay DEF Known
<1>3. UnstartedUntilRouted' /\ OneTurnPerMessage' /\ RunningAreRouted'
  BY DEF IInv, UnstartedUntilRouted, OneTurnPerMessage, RunningAreRouted
<1> QED
  BY <1>1, <1>2, <1>3 DEF IInv

LEMMA TurnSpeaksKeeps == ASSUME IInv, NEW m \in Msgs, Reply(m) \/ Card(m) PROVE IInv'
<1>1. Row(m, "reply") \in Rows /\ Row(m, "card") \in Rows
  BY DEF Row, Rows
<1> HIDE DEF IInv
<1>2. CASE Reply(m)
  BY <1>1, <1>2, QueueKeeps DEF Reply
<1>3. CASE Card(m)
  BY <1>1, <1>3, QueueKeeps DEF Card
<1> QED
  BY <1>2, <1>3

LEMMA PushKeeps == ASSUME IInv, NEW p \in Pushes, Push(p) PROVE IInv'
<1>1. Row(0, p) \in Rows
  BY DEF Row, Rows
<1> HIDE DEF IInv
<1> QED
  BY <1>1, QueueKeeps DEF Push

LEMMA SettleKeeps ==
    ASSUME IInv, NEW m \in running, NEW status \in {"completed", "failed"},
           NEW rows \in SUBSET {Row(m, "line"), Row(m, "status")}, Settle(m, status, rows)
    PROVE  IInv'
<1>1. m \in Msgs /\ inbound[m] = "routed" /\ rows \subseteq Rows
  BY DEF IInv, TypeOK, RunningAreRouted, Rows
<1>2. /\ inbound' = [inbound EXCEPT ![m] = status]
      /\ running' = running \ {m} /\ before' = [before EXCEPT ![m] = {}]
      /\ queued' = queued \cup rows
      /\ UNCHANGED <<service, cursor, polls, started, crashes>>
  BY DEF Settle
<1>3. TypeOK'
  BY <1>1, <1>2 DEF service, IInv, TypeOK, Statuses
<1>4. CursorsAreBehind'
  BY <1>1, <1>2, CursorsStay DEF Known, IInv, TypeOK
<1>5. UnstartedUntilRouted' /\ OneTurnPerMessage' /\ RunningAreRouted'
  BY <1>1, <1>2 DEF IInv, TypeOK, UnstartedUntilRouted, OneTurnPerMessage, RunningAreRouted
<1> QED
  BY <1>3, <1>4, <1>5 DEF IInv

LEMMA TurnOverKeeps ==
    ASSUME IInv, NEW m \in Msgs, TurnEnds(m) \/ TurnFails(m) \/ ApprovalEnds(m)
    PROVE  IInv'
<1> HIDE DEF IInv
<1>1. CASE TurnEnds(m)
  BY <1>1, SettleKeeps DEF TurnEnds
<1>2. CASE TurnFails(m)
  BY <1>2, SettleKeeps DEF TurnFails
<1>3. CASE ApprovalEnds(m)
  BY <1>3, SettleKeeps DEF ApprovalEnds
<1> QED
  BY <1>1, <1>2, <1>3

LEMMA CrashKeeps == ASSUME IInv, CrashAndReboot PROVE IInv'
<1>1. /\ polls' = [p \in Polls |-> Idle] /\ running' = {}
      /\ before' = [m \in Msgs |-> {}]
      /\ UNCHANGED <<service, cursor, queued, started>>
      /\ crashes' \in 0..MaxCrashes
  BY DEF CrashAndReboot, IInv, TypeOK
<1>2. /\ inbound' \in [Msgs -> Statuses] /\ \A m \in Msgs : Known(m) => Known(m)'
      /\ UnstartedUntilRouted' /\ OneTurnPerMessage'
  <2>1. CASE UNCHANGED inbound
    BY <1>1, <2>1 DEF IInv, TypeOK, Known, UnstartedUntilRouted, OneTurnPerMessage
  <2>2. ASSUME NEW p \in Polls, NEW n \in Msgs, NEW friends \in SUBSET Msgs,
               inbound' = Recorded(p, n, friends)
        PROVE  /\ inbound' \in [Msgs -> Statuses] /\ \A m \in Msgs : Known(m) => Known(m)'
               /\ UnstartedUntilRouted' /\ OneTurnPerMessage'
    <3>1. n \in 0..MaxMsgs
      BY MsgsAreNumbers
    <3>2. inbound' \in [Msgs -> Statuses] /\ \A m \in Msgs : Known(m) => Known(m)'
      BY <2>2, <3>1, RecordingKeeps DEF Known
    <3> QED
      BY <1>1, <2>2, <3>1, <3>2, RecordingKeepsTurns
  <2> QED
    BY <2>1, <2>2 DEF CrashAndReboot
<1>3. TypeOK'
  BY <1>1, <1>2, IdleIsFine DEF service, IInv, TypeOK, PollStates
<1>4. CursorsAreBehind'
  BY <1>1, <1>2, IdleIsFine DEF service, IInv, CursorsAreBehind, RecordedTo
<1>5. RunningAreRouted'
  BY <1>1, <1>2 DEF RunningAreRouted
<1> QED
  BY <1>2, <1>3, <1>4, <1>5 DEF IInv

LEMMA InitIInv == Init => IInv
<1> SUFFICES ASSUME Init PROVE IInv
  OBVIOUS
<1>1. TypeOK
  BY IdleIsFine DEF Init, TypeOK, Statuses, PollStates
<1>2. CursorsAreBehind
  BY MsgsAreNumbers, IdleIsFine DEF Init, CursorsAreBehind, RecordedTo
<1>3. UnstartedUntilRouted /\ OneTurnPerMessage /\ RunningAreRouted
  BY DEF Init, UnstartedUntilRouted, OneTurnPerMessage, RunningAreRouted
<1> QED
  BY <1>1, <1>2, <1>3 DEF IInv

LEMMA StepKeeps == IInv /\ [Next]_vars => IInv'
<1> SUFFICES ASSUME IInv, [Next]_vars PROVE IInv'
  OBVIOUS
<1>1. CASE Write \/ StartTurns \/ CrashAndReboot
  BY <1>1, WriteKeeps, StartTurnsKeeps, CrashKeeps
<1>2. CASE \E p \in Polls : PollAsks(p) \/ ServiceAnswers(p) \/ PollFails(p) \/ PollApplies(p)
  BY <1>2, PollAsksKeeps, ServiceAnswersKeeps, PollFailsKeeps, PollAppliesKeeps
<1>3. CASE \E m \in Msgs : Reply(m) \/ Card(m) \/ TurnEnds(m) \/ TurnFails(m) \/ ApprovalEnds(m)
  BY <1>3, TurnSpeaksKeeps, TurnOverKeeps
<1>4. CASE \E p \in Pushes : Push(p)
  BY <1>4, PushKeeps
<1>5. CASE UNCHANGED vars
  <2>1. TypeOK'
    BY <1>5 DEF vars, service, turns, IInv, TypeOK
  <2> QED
    BY <1>5, <2>1 DEF vars, service, turns, IInv, CursorsAreBehind, RecordedTo, Known,
       UnstartedUntilRouted, OneTurnPerMessage, RunningAreRouted
<1> QED
  BY <1>1, <1>2, <1>3, <1>4, <1>5 DEF Next

LEMMA IInvHolds == Spec => []IInv
<1> QED
  BY InitIInv, StepKeeps, PTL DEF Spec

-----------------------------------------------------------------------------

\* The two ends of a chat keep their shape: cursors are numbers, and a turn that
\* runs is that of a message.
THEOREM TypeCorrect == Spec => []TypeOK
<1>1. IInv => TypeOK
  BY DEF IInv
<1> QED
  BY <1>1, IInvHolds, PTL

\* No update that Telegram has dropped is missing from the inbound table,
\* however polls overlap, fail or are cut off.
THEOREM NothingIsLost == Spec => []NothingDroppedIsLost
<1>1. IInv => NothingDroppedIsLost
  BY DEF IInv, CursorsAreBehind, RecordedTo, Known, NothingDroppedIsLost
<1> QED
  BY <1>1, IInvHolds, PTL

\* A message starts one turn at most, however often it is delivered.
THEOREM MessagesStartOneTurn == Spec => []OneTurnPerMessage
<1>1. IInv => OneTurnPerMessage
  BY DEF IInv
<1> QED
  BY <1>1, IInvHolds, PTL

=============================================================================
