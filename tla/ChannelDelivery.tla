-------------------------- MODULE ChannelDelivery --------------------------
(***************************************************************************)
(* The outbound queue of the messaging channels. A delivery tick lists a   *)
(* batch of the rows that are due, oldest first, and sends them one by one *)
(* through the channel's adapter. The timer that starts ticks does not     *)
(* wait for the last one, so ticks overlap, and each works from the rows   *)
(* as it listed them.                                                      *)
(***************************************************************************)
EXTENDS Naturals, Sequences, SequencesExt

CONSTANTS
    Rows,         \* (bound) rows of channel_message_queue
    Channels,
    ChannelOf,    \* the channel of a row
    Ticks,        \* (bound) delivery ticks under way at once
    MaxAttempts,  \* MAX_ATTEMPTS
    Limit,        \* rows a tick lists at most
    MaxTroubles   \* (bound) crashes, and times a channel is disabled

ASSUME ConstantsAssumption ==
    /\ ChannelOf \in [Rows -> Channels]
    /\ MaxAttempts \in Nat \ {0} /\ Limit \in Nat \ {0}
    /\ MaxTroubles \in Nat

VARIABLES
    status,   \* the row's status column
    count,    \* its attemptCount
    line,     \* the rows to list whose nextAttemptAt has passed, earliest first
    enabled,  \* isEnabled of each channel
    ticks,    \* per tick: the rows it still has to do, as it listed them; it awaits
              \* the send of the first
    troubles, \* crashes, and times a channel was disabled, so far
    sends     \* history: sends of a row, counted up to MaxAttempts

table == <<status, count, line>>
vars  == <<table, enabled, ticks, troubles, sends>>

Init ==
    /\ status = [r \in Rows |-> "none"] /\ count = [r \in Rows |-> 0] /\ line = <<>>
    /\ enabled = [c \in Channels |-> TRUE]
    /\ ticks = [t \in Ticks |-> <<>>]
    /\ troubles = 0
    /\ sends = [r \in Rows |-> 0]

Enqueue(r) ==
    /\ status[r] = "none"
    /\ status' = [status EXCEPT ![r] = "pending"]
    /\ line' = Append(line, r)
    /\ UNCHANGED <<count, enabled, ticks, troubles, sends>>

\* A failed row's nextAttemptAt passes.
BackoffEnds(r) ==
    /\ status[r] = "failed-retry" /\ ~Contains(line, r)
    /\ line' = Append(line, r)
    /\ UNCHANGED <<status, count, enabled, ticks, troubles, sends>>

Batch ==
    [i \in 1..(IF Len(line) < Limit THEN Len(line) ELSE Limit) |->
        [row |-> line[i], listed |-> count[line[i]]]]

\* Mutant: a disabled channel's row ends the tick.
SkippedToEnd(todo) ==
    IF todo # <<>> /\ enabled[ChannelOf[todo[1].row]] THEN todo ELSE <<>>

\* From the first row whose channel is enabled: the others are left as they are.
Skipped(todo) ==
    LET live == {i \in DOMAIN todo : enabled[ChannelOf[todo[i].row]]} IN
    IF live = {} THEN <<>>
    ELSE SubSeq(todo, Min(live), Len(todo))

Attempt(t) == Head(ticks[t]).listed + 1

\* The tick goes on to its next row, marks it as sending, one attempt after the
\* count it listed and whatever has become of the row since, and awaits the send.
\* `settled' and `due' are the status column and the line when the row before is
\* settled.
GoesOn(t, todo, settled, due) ==
    LET rest == Skipped(todo) IN
    /\ ticks' = [ticks EXCEPT ![t] = rest]
    /\ IF rest = <<>>
       THEN status' = settled /\ line' = due /\ UNCHANGED <<count, sends>>
       ELSE LET r == Head(rest).row IN
            /\ status' = [settled EXCEPT ![r] = "sending"]
            /\ line' = RemoveFirst(due, r)
            /\ count' = [count EXCEPT ![r] = Head(rest).listed + 1]
            /\ sends' = [sends EXCEPT ![r] = IF @ < MaxAttempts THEN @ + 1 ELSE @]
    /\ UNCHANGED <<enabled, troubles>>

TickStarts(t) ==
    /\ ticks[t] = <<>>
    /\ GoesOn(t, Batch, status, line)

\* The send is over: its row is sent, given up, or due again later.
SendEnds(t, outcome) ==
    LET r == Head(ticks[t]).row IN
    GoesOn(t, Tail(ticks[t]), [status EXCEPT ![r] = outcome], RemoveFirst(line, r))

SendSucceeds(t) == ticks[t] # <<>> /\ SendEnds(t, "sent")

\* Mutant: the cap is one attempt early.
LastButOne(t) == Attempt(t) + 1 >= MaxAttempts

LastAttempt(t) == Attempt(t) >= MaxAttempts

SendFails(t) ==
    /\ ticks[t] # <<>>
    /\ SendEnds(t, IF LastAttempt(t) THEN "failed-give-up" ELSE "failed-retry")

\* The user disables or enables a channel.
Switch(c) ==
    /\ enabled[c] => troubles < MaxTroubles
    /\ enabled' = [enabled EXCEPT ![c] = ~@]
    /\ troubles' = IF enabled[c] THEN troubles + 1 ELSE troubles
    /\ UNCHANGED <<table, ticks, sends>>

\* The process dies and starts again: the rows stay as they are.
CrashAndReboot ==
    /\ troubles < MaxTroubles
    /\ troubles' = troubles + 1
    /\ ticks' = [t \in Ticks |-> <<>>]
    /\ UNCHANGED <<table, enabled, sends>>

Next ==
    \/ \E r \in Rows : Enqueue(r) \/ BackoffEnds(r)
    \/ \E t \in Ticks : TickStarts(t) \/ SendSucceeds(t) \/ SendFails(t)
    \/ \E c \in Channels : Switch(c)
    \/ CrashAndReboot

Spec == Init /\ [][Next]_vars

\* The timer ticks, a send ends one way or the other (the adapter bounds it), and
\* time passes.
FairSpec ==
    /\ Spec
    /\ \A t \in Ticks : /\ WF_vars(TickStarts(t))
                        /\ WF_vars(SendSucceeds(t) \/ SendFails(t))
    /\ \A r \in Rows : WF_vars(BackoffEnds(r))

-----------------------------------------------------------------------------

Statuses == {"none", "pending", "sending", "sent", "failed-retry", "failed-give-up"}

\* Every variable keeps its shape.
TypeOK ==
    /\ status \in [Rows -> Statuses]
    /\ count \in [Rows -> Nat]
    /\ line \in Seq(Rows)
    /\ enabled \in [Channels -> BOOLEAN]
    /\ ticks \in [Ticks -> Seq([row : Rows, listed : Nat])]
    /\ troubles \in 0..MaxTroubles
    /\ sends \in [Rows -> 0..MaxAttempts]

\* "then failed-give-up after the 6th attempt": a row is given up only once it has
\* been sent that many times, whatever counts the ticks that share it work from.
GivenUpOnlyWhenExhausted ==
    \A r \in Rows : status[r] = "failed-give-up" => sends[r] = MaxAttempts

\* A row that a crash left in sending, which no tick lists.
Stranded(r) ==
    status[r] = "sending" /\ \A t \in Ticks : ticks[t] # <<>> => Head(ticks[t]).row # r

\* Disabled channels have a whole batch of rows due.
Blocked ==
    Len(SelectSeq(line, LAMBDA q : ~enabled[ChannelOf[q]])) >= Limit

\* Every row is sent, or given up, in the end, unless a crash strands it, its own
\* channel is disabled, or rows of disabled channels fill the batch.
EveryRowLeaves ==
    \A r \in Rows :
        status[r] \in {"pending", "failed-retry"}
        ~> \/ status[r] \in {"sent", "failed-give-up"} \/ Stranded(r)
           \/ ~enabled[ChannelOf[r]] \/ Blocked

=============================================================================
