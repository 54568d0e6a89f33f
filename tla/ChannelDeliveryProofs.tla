------------------------ MODULE ChannelDeliveryProofs ------------------------
(***************************************************************************)
(* For any number of rows, channels and overlapping ticks, any batch size  *)
(* and any number of attempts: a row is given up only once it has been     *)
(* sent that many times. The counts that overlapping ticks write may fall, *)
(* but neither a count nor what a tick has listed ever runs ahead of the   *)
(* sends.                                                                  *)
(***************************************************************************)
EXTENDS ChannelDelivery, SequenceTheorems, WellFoundedInduction, TLAPS

\* So many attempts have been made on the row, as far as the cap can tell.
Made(r, n) == sends[r] = MaxAttempts \/ n <= sends[r]

CountsAreMade == \A r \in Rows : Made(r, count[r])

\* What a tick has listed has been made, and the attempt it awaits too.
ListedAreMade ==
    \A t \in Ticks : \A i \in DOMAIN ticks[t] :
        /\ Made(ticks[t][i].row, ticks[t][i].listed)
        /\ i = 1 => Made(ticks[t][i].row, ticks[t][i].listed + 1)

IInv == TypeOK /\ CountsAreMade /\ ListedAreMade /\ GivenUpOnlyWhenExhausted

Entries == [row : Rows, listed : Nat]

USE ConstantsAssumption

\* A set of naturals that is not empty has a least element.
LEMMA LeastIsAMember ==
    ASSUME NEW I \in SUBSET Nat, I # {}
    PROVE  Min(I) \in I
<1>1. PICK i \in I : \A j \in I : <<j, i>> \notin OpToRel(<, Nat)
  BY NatLessThanWellFounded, WFMin
<1>2. OpToRel(<, Nat) = {p \in Nat \X Nat : p[1] < p[2]}
  BY Zenon DEF OpToRel
<1>3. \A j \in I : i <= j
  <2> SUFFICES ASSUME NEW j \in I PROVE ~(j < i)
    OBVIOUS
  <2>1. <<j, i>> \in Nat \X Nat /\ <<j, i>>[1] = j /\ <<j, i>>[2] = i
    OBVIOUS
  <2>2. j < i => <<j, i>> \in {p \in Nat \X Nat : p[1] < p[2]}
    BY <2>1
  <2> QED
    BY <1>1, <1>2, <2>2
<1> QED
  BY <1>3 DEF Min

\* Taking a row off the line leaves a sequence.
LEMMA RemovedIsASequence ==
    ASSUME NEW S, NEW s \in Seq(S), NEW e
    PROVE  RemoveFirst(s, e) \in Seq(S)
<1>1. CASE ~\E i \in 1..Len(s) : s[i] = e
  BY <1>1 DEF RemoveFirst
<1>2. CASE \E i \in 1..Len(s) : s[i] = e
  <2> DEFINE I == {i \in 1..Len(s) : s[i] = e}
             k == SelectInSeq(s, LAMBDA v : v = e)
  <2>1. RemoveFirst(s, e) = SubSeq(s, 1, k - 1) \o SubSeq(s, k + 1, Len(s))
    BY <1>2 DEF RemoveFirst, RemoveAt
  <2>2. k = Min(I)
    BY <1>2 DEF SelectInSeq
  <2>3. k \in I
    <3> HIDE DEF k, I
    <3>1. I \in SUBSET Nat /\ I # {}
      BY <1>2 DEF I
    <3> QED
      BY <2>2, <3>1, LeastIsAMember
  <2>4. SubSeq(s, 1, k - 1) \in Seq(S)
    <3> HIDE DEF k
    <3> QED
      BY <2>3, SubSeqProperties
  <2>5. SubSeq(s, k + 1, Len(s)) \in Seq(S)
    <3> HIDE DEF k
    <3> QED
      BY <2>3, SubSeqProperties
  <2> HIDE DEF k, I
  <2> QED
    BY <2>1, <2>4, <2>5
<1> QED
  BY <1>1, <1>2

\* Passing over rows leaves a part of what was listed.
LEMMA SkippedIsAPart ==
    ASSUME NEW todo \in Seq(Entries)
    PROVE  /\ Skipped(todo) \in Seq(Entries)
           /\ \A i \in DOMAIN Skipped(todo) :
                 \E j \in DOMAIN todo : Skipped(todo)[i] = todo[j]
<1> DEFINE live == {i \in DOMAIN todo : enabled[ChannelOf[todo[i].row]]}
<1>1. CASE live = {}
  BY <1>1 DEF Skipped
<1>2. CASE live # {}
  <2> DEFINE k == Min(live)
  <2>1. k \in live
    <3> HIDE DEF live
    <3>1. live \in SUBSET Nat
      BY DEF live
    <3> QED
      BY <1>2, <3>1, LeastIsAMember
  <2>2. k \in 1..Len(todo)
    <3> HIDE DEF k
    <3> QED
      BY <2>1
  <2>3. Skipped(todo) = SubSeq(todo, k, Len(todo))
    BY <1>2 DEF Skipped
  <2> HIDE DEF k, live
  <2>4. \A i \in k..Len(todo) : todo[i] \in Entries
    BY <2>2
  <2>5. /\ SubSeq(todo, k, Len(todo)) \in Seq(Entries)
        /\ Len(SubSeq(todo, k, Len(todo))) = Len(todo) - k + 1
        /\ \A i \in 1..(Len(todo) - k + 1) :
              SubSeq(todo, k, Len(todo))[i] = todo[k + i - 1]
    BY <2>2, <2>4, SubSeqProperties
  <2>6. ASSUME NEW i \in 1..(Len(todo) - k + 1)
        PROVE  \E j \in DOMAIN todo : SubSeq(todo, k, Len(todo))[i] = todo[j]
    <3>1. k + i - 1 \in DOMAIN todo
      BY <2>2
    <3> QED
      BY <2>5, <3>1
  <2> DEFINE part == SubSeq(todo, k, Len(todo))
  <2>7. part \in Seq(Entries) /\ DOMAIN part = 1..(Len(todo) - k + 1)
    <3> HIDE DEF part
    <3>1. part \in Seq(Entries) /\ Len(part) = Len(todo) - k + 1
      BY <2>5 DEF part
    <3> QED
      BY <3>1
  <2> QED
    BY <2>3, <2>6, <2>7
<1> QED
  BY <1>1, <1>2

\* A tick lists rows with the counts they have.
LEMMA BatchIsMade ==
    ASSUME TypeOK, CountsAreMade
    PROVE  /\ Batch \in Seq(Entries)
           /\ \A i \in DOMAIN Batch : Made(Batch[i].row, Batch[i].listed)
<1> DEFINE n == IF Len(line) < Limit THEN Len(line) ELSE Limit
<1>1. n \in 0..Len(line) /\ \A i \in 1..n : line[i] \in Rows /\ count[line[i]] \in Nat
  BY DEF TypeOK
<1>2. Batch = [i \in 1..n |-> [row |-> line[i], listed |-> count[line[i]]]]
  BY DEF Batch
<1> HIDE DEF n
<1>3. Batch \in Seq(Entries)
  BY <1>1, <1>2, IsASeq DEF Entries
<1>4. \A i \in DOMAIN Batch : Made(Batch[i].row, Batch[i].listed)
  BY <1>1, <1>2 DEF CountsAreMade
<1> QED
  BY <1>3, <1>4

\* A tick that goes on, after it has settled its row, keeps the invariant.
LEMMA GoesOnKeeps ==
    ASSUME IInv, NEW t \in Ticks, NEW todo \in Seq(Entries),
           \A i \in DOMAIN todo : Made(todo[i].row, todo[i].listed),
           NEW settled \in [Rows -> Statuses],
           \A r \in Rows : settled[r] = "failed-give-up" => sends[r] = MaxAttempts,
           NEW due \in Seq(Rows), GoesOn(t, todo, settled, due)
    PROVE  IInv'
<1> DEFINE rest == Skipped(todo)
<1>1. /\ rest \in Seq(Entries)
      /\ \A i \in DOMAIN rest : Made(rest[i].row, rest[i].listed)
  BY SkippedIsAPart
<1>2. ticks' = [ticks EXCEPT ![t] = rest] /\ UNCHANGED <<enabled, troubles>>
  BY DEF GoesOn
<1>3. ticks' \in [Ticks -> Seq(Entries)]
  BY <1>1, <1>2 DEF IInv, TypeOK, Entries
<1>4. CASE rest = <<>>
  <2>1. status' = settled /\ line' = due /\ UNCHANGED <<count, sends>>
    BY <1>4 DEF GoesOn
  <2>2. TypeOK'
    BY <1>2, <1>3, <2>1 DEF IInv, TypeOK, Entries
  <2>3. CountsAreMade' /\ GivenUpOnlyWhenExhausted'
    BY <2>1 DEF IInv, CountsAreMade, GivenUpOnlyWhenExhausted, Made
  <2>4. ListedAreMade'
    BY <1>2, <1>4, <2>1 DEF IInv, TypeOK, ListedAreMade, Made
  <2> QED
    BY <2>2, <2>3, <2>4 DEF IInv
<1>5. CASE rest # <<>>
  <2> DEFINE r == rest[1].row
             n == rest[1].listed
  <2>1. r \in Rows /\ n \in Nat /\ Head(rest) = rest[1] /\ 1 \in DOMAIN rest
    <3> HIDE DEF rest
    <3>1. 1 \in DOMAIN rest /\ rest[1] \in Entries /\ Head(rest) = rest[1]
      BY <1>1, <1>5
    <3> QED
      BY <3>1 DEF Entries
  <2>2. /\ status' = [settled EXCEPT ![r] = "sending"]
        /\ line' = RemoveFirst(due, r)
        /\ count' = [count EXCEPT ![r] = n + 1]
        /\ sends' = [sends EXCEPT ![r] = IF @ < MaxAttempts THEN @ + 1 ELSE @]
    BY <1>5, <2>1 DEF GoesOn
  <2>3. Made(r, n)
    BY <1>1, <2>1
  <2> HIDE DEF rest, r, n
  <2>4. TypeOK'
    BY <1>2, <1>3, <2>1, <2>2, RemovedIsASequence DEF IInv, TypeOK, Entries, Statuses
  <2>5. /\ sends' \in [Rows -> 0..MaxAttempts] /\ sends \in [Rows -> 0..MaxAttempts]
        /\ \A q \in Rows : sends[q] <= sends'[q]
    BY <2>1, <2>2, <2>4 DEF IInv, TypeOK
  <2> DEFINE MadeNow(q, m) == sends'[q] = MaxAttempts \/ m <= sends'[q]
  <2>6. \A q \in Rows, m \in Nat : Made(q, m) => MadeNow(q, m)
    BY <2>5 DEF Made
  <2>7. MadeNow(r, n + 1)
    BY <2>1, <2>2, <2>3, <2>5 DEF Made
  <2>8. CountsAreMade'
    <3> SUFFICES ASSUME NEW q \in Rows PROVE Made(q, count[q])'
      BY DEF CountsAreMade
    <3>1. CASE q = r
      BY <2>1, <2>2, <2>7, <3>1 DEF IInv, TypeOK, Made
    <3>2. CASE q # r
      BY <2>1, <2>2, <2>6, <3>2 DEF IInv, TypeOK, CountsAreMade, Made
    <3> QED
      BY <3>1, <3>2
  <2>9. GivenUpOnlyWhenExhausted'
    BY <2>1, <2>2, <2>5 DEF IInv, GivenUpOnlyWhenExhausted
  <2>10. ListedAreMade'
    <3> SUFFICES ASSUME NEW u \in Ticks, NEW i \in DOMAIN ticks'[u]
                 PROVE  /\ MadeNow(ticks'[u][i].row, ticks'[u][i].listed)
                        /\ i = 1 => MadeNow(ticks'[u][i].row, ticks'[u][i].listed + 1)
      BY DEF ListedAreMade, Made
    <3>1. ticks'[u][i].row \in Rows /\ ticks'[u][i].listed \in Nat
      <4>1. ticks'[u] \in Seq(Entries)
        BY <1>3
      <4>2. ticks'[u][i] \in Entries
        BY <4>1
      <4> QED
        BY <4>2 DEF Entries
    <3> HIDE DEF MadeNow
    <3>2. CASE u = t
      <4>1. ticks'[u] = rest /\ i \in DOMAIN rest
        BY <1>2, <3>2 DEF IInv, TypeOK
      <4>2. Made(rest[i].row, rest[i].listed)
        BY <1>1, <4>1
      <4>3. i = 1 => rest[i].row = r /\ rest[i].listed = n
        BY DEF r, n
      <4> QED
        BY <2>6, <2>7, <3>1, <4>1, <4>2, <4>3
    <3>3. CASE u # t
      <4>1. ticks'[u] = ticks[u]
        BY <1>2, <3>3 DEF IInv, TypeOK
      <4>2. /\ Made(ticks[u][i].row, ticks[u][i].listed)
            /\ i = 1 => Made(ticks[u][i].row, ticks[u][i].listed + 1)
        BY <4>1 DEF IInv, ListedAreMade
      <4>3. ticks[u][i].listed + 1 \in Nat
        BY <3>1, <4>1
      <4> QED
        BY <2>6, <3>1, <4>1, <4>2, <4>3
    <3> QED
      BY <3>2, <3>3
  <2> QED
    BY <2>4, <2>8, <2>9, <2>10 DEF IInv
<1> QED
  BY <1>4, <1>5

LEMMA EnqueueKeeps == ASSUME IInv, NEW r \in Rows, Enqueue(r) PROVE IInv'
<1>1. TypeOK'
  <2>1. Append(line, r) \in Seq(Rows)
    BY DEF IInv, TypeOK
  <2> QED
    BY <2>1 DEF Enqueue, IInv, TypeOK, Statuses
<1>2. CountsAreMade' /\ ListedAreMade'
  BY DEF Enqueue, IInv, CountsAreMade, ListedAreMade, Made
<1>3. GivenUpOnlyWhenExhausted'
  BY DEF Enqueue, IInv, TypeOK, GivenUpOnlyWhenExhausted
<1> QED
  BY <1>1, <1>2, <1>3 DEF IInv

LEMMA BackoffEndsKeeps == ASSUME IInv, NEW r \in Rows, BackoffEnds(r) PROVE IInv'
<1>1. TypeOK'
  <2>1. Append(line, r) \in Seq(Rows)
    BY DEF IInv, TypeOK
  <2> QED
    BY <2>1 DEF BackoffEnds, IInv, TypeOK
<1>2. CountsAreMade' /\ ListedAreMade' /\ GivenUpOnlyWhenExhausted'
  BY DEF BackoffEnds, IInv, CountsAreMade, ListedAreMade, GivenUpOnlyWhenExhausted, Made
<1> QED
  BY <1>1, <1>2 DEF IInv

LEMMA TickStartsKeeps == ASSUME IInv, NEW t \in Ticks, TickStarts(t) PROVE IInv'
<1>1. GoesOn(t, Batch, status, line)
  BY DEF TickStarts
<1>2. /\ status \in [Rows -> Statuses] /\ line \in Seq(Rows)
      /\ \A r \in Rows : status[r] = "failed-give-up" => sends[r] = MaxAttempts
  BY DEF IInv, TypeOK, GivenUpOnlyWhenExhausted
<1>3. /\ Batch \in Seq(Entries)
      /\ \A i \in DOMAIN Batch : Made(Batch[i].row, Batch[i].listed)
  BY BatchIsMade DEF IInv
<1> HIDE DEF IInv
<1> QED
  BY <1>1, <1>2, <1>3, GoesOnKeeps

\* What a tick has left when its first send is over.
LEMMA RestIsMade ==
    ASSUME IInv, NEW t \in Ticks, ticks[t] # <<>>
    PROVE  /\ Head(ticks[t]) = ticks[t][1] /\ 1 \in DOMAIN ticks[t]
           /\ Head(ticks[t]).row \in Rows /\ Head(ticks[t]).listed \in Nat
           /\ Tail(ticks[t]) \in Seq(Entries)
           /\ \A i \in DOMAIN Tail(ticks[t]) :
                 Made(Tail(ticks[t])[i].row, Tail(ticks[t])[i].listed)
<1>1. ticks[t] \in Seq(Entries)
  BY DEF IInv, TypeOK, Entries
<1>2. Head(ticks[t]) = ticks[t][1] /\ 1 \in DOMAIN ticks[t] /\ Head(ticks[t]) \in Entries
  BY <1>1
<1>3. /\ Tail(ticks[t]) \in Seq(Entries)
      /\ \A i \in DOMAIN Tail(ticks[t]) :
            Tail(ticks[t])[i] = ticks[t][i + 1] /\ i + 1 \in DOMAIN ticks[t]
  BY <1>1
<1>4. \A i \in DOMAIN Tail(ticks[t]) :
        Made(Tail(ticks[t])[i].row, Tail(ticks[t])[i].listed)
  BY <1>3 DEF IInv, ListedAreMade
<1> QED
  BY <1>2, <1>3, <1>4 DEF Entries

LEMMA SendEndsKeeps ==
    ASSUME IInv, NEW t \in Ticks, ticks[t] # <<>>,
           NEW outcome \in {"sent", "failed-retry", "failed-give-up"},
           outcome = "failed-give-up" => LastAttempt(t),
           SendEnds(t, outcome)
    PROVE  IInv'
<1> DEFINE r == Head(ticks[t]).row
           settled == [status EXCEPT ![r] = outcome]
<1>1. r \in Rows
  BY RestIsMade
<1>2. RemoveFirst(line, r) \in Seq(Rows)
  BY RemovedIsASequence DEF IInv, TypeOK
<1>3. settled \in [Rows -> Statuses]
  BY <1>1 DEF IInv, TypeOK, Statuses
<1>4. LastAttempt(t) => sends[r] = MaxAttempts
  <2>1. Made(r, Attempt(t))
    BY RestIsMade DEF IInv, ListedAreMade, Attempt
  <2>2. Attempt(t) \in Nat
    BY RestIsMade DEF Attempt
  <2>3. sends[r] \in 0..MaxAttempts
    BY <1>1 DEF IInv, TypeOK
  <2> HIDE DEF r
  <2> QED
    BY <2>1, <2>2, <2>3 DEF Made, LastAttempt
<1>5. \A q \in Rows : settled[q] = "failed-give-up" => sends[q] = MaxAttempts
  BY <1>1, <1>4 DEF IInv, TypeOK, GivenUpOnlyWhenExhausted
<1>6. GoesOn(t, Tail(ticks[t]), settled, RemoveFirst(line, r))
  BY DEF SendEnds
<1> HIDE DEF r, settled, IInv
<1> QED
  BY <1>2, <1>3, <1>5, <1>6, RestIsMade, GoesOnKeeps

LEMMA SwitchKeeps == ASSUME IInv, NEW c \in Channels, Switch(c) PROVE IInv'
<1>1. TypeOK'
  <2>1. troubles' \in 0..MaxTroubles
    BY DEF Switch, IInv, TypeOK
  <2>2. enabled' \in [Channels -> BOOLEAN]
    BY Zenon DEF Switch, IInv, TypeOK
  <2> QED
    BY <2>1, <2>2 DEF Switch, table, IInv, TypeOK
<1>2. CountsAreMade' /\ ListedAreMade' /\ GivenUpOnlyWhenExhausted'
  BY DEF Switch, table, IInv, CountsAreMade, ListedAreMade, GivenUpOnlyWhenExhausted, Made
<1> QED
  BY <1>1, <1>2 DEF IInv

LEMMA CrashKeeps == ASSUME IInv, CrashAndReboot PROVE IInv'
<1>1. TypeOK'
  BY DEF CrashAndReboot, table, IInv, TypeOK
<1>2. CountsAreMade' /\ ListedAreMade' /\ GivenUpOnlyWhenExhausted'
  BY DEF CrashAndReboot, table, IInv, CountsAreMade, ListedAreMade,
         GivenUpOnlyWhenExhausted, Made
<1> QED
  BY <1>1, <1>2 DEF IInv

LEMMA InitIInv == Init => IInv
<1> SUFFICES ASSUME Init PROVE IInv
  OBVIOUS
<1>1. TypeOK
  BY DEF Init, TypeOK, Statuses
<1>2. CountsAreMade /\ ListedAreMade /\ GivenUpOnlyWhenExhausted
  BY DEF Init, CountsAreMade, ListedAreMade, GivenUpOnlyWhenExhausted, Made
<1> QED
  BY <1>1, <1>2 DEF IInv

LEMMA StepKeeps == IInv /\ [Next]_vars => IInv'
<1> SUFFICES ASSUME IInv, [Next]_vars PROVE IInv'
  OBVIOUS
<1>1. CASE \E r \in Rows : Enqueue(r) \/ BackoffEnds(r)
  BY <1>1, EnqueueKeeps, BackoffEndsKeeps
<1>2. CASE \E t \in Ticks : TickStarts(t)
  BY <1>2, TickStartsKeeps
<1>3. CASE \E t \in Ticks : SendSucceeds(t)
  BY <1>3, SendEndsKeeps DEF SendSucceeds
<1>4. CASE \E t \in Ticks : SendFails(t)
  BY <1>4, SendEndsKeeps DEF SendFails
<1>5. CASE \E c \in Channels : Switch(c)
  BY <1>5, SwitchKeeps
<1>6. CASE CrashAndReboot
  BY <1>6, CrashKeeps
<1>7. CASE UNCHANGED vars
  BY <1>7 DEF vars, table, IInv, TypeOK, CountsAreMade, ListedAreMade,
              GivenUpOnlyWhenExhausted, Made
<1> QED
  BY <1>1, <1>2, <1>3, <1>4, <1>5, <1>6, <1>7 DEF Next

LEMMA IInvHolds == Spec => []IInv
<1> QED
  BY InitIInv, StepKeeps, PTL DEF Spec

\* The queue keeps its shape: a row's status is one of the six, and the line and
\* the ticks name rows of the queue.
THEOREM TypeCorrect == Spec => []TypeOK
<1>1. IInv => TypeOK
  BY DEF IInv
<1> QED
  BY <1>1, IInvHolds, PTL

\* A row that is given up has been sent MaxAttempts times, however the ticks that
\* work on it overlap and whatever the counts they write.
THEOREM RowsGetTheirAttempts == Spec => []GivenUpOnlyWhenExhausted
<1>1. IInv => GivenUpOnlyWhenExhausted
  BY DEF IInv
<1> QED
  BY <1>1, IInvHolds, PTL

=============================================================================
