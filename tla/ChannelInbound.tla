--------------------------- MODULE ChannelInbound ---------------------------
(***************************************************************************)
(* One Telegram chat, on the way in: the daemon polls the service for what *)
(* people wrote and runs a turn for each message, and each turn owes the   *)
(* chat an answer. Polls are ticks of an interval timer that await the     *)
(* network and so overlap; each works from the channel row it read when it *)
(* began. Telegram keeps an update until a poll asks for a later one; Zoom *)
(* keeps none, and its polls are not modelled. What is queued in reply is  *)
(* ChannelDelivery's. A channel may be disabled: nothing is polled and no  *)
(* reply or push queued then, which no action here is obliged to do.       *)
(***************************************************************************)
EXTENDS Naturals

CONSTANTS
    MaxMsgs,      \* (bound) messages people write
    Polls,        \* (bound) polling ticks under way at once
    Pushes,       \* (bound) proactive sends
    MaxCrashes    \* (bound)

Msgs  == 1..MaxMsgs

ASSUME BoundsAssumption == MaxMsgs \in Nat /\ MaxCrashes \in Nat

\* What may be queued: a turn's reply (bound: one through the tool) and its closing
\* line, which carry its key; status rows and cards (bound: one of each), which
\* carry none; and pushes, which are of no turn.
Row(m, part) == [of |-> m, part |-> part]
Rows == {Row(m, part) : m \in Msgs, part \in {"reply", "line", "status", "card"}}
          \cup {Row(0, p) : p \in Pushes}

\* payloadKind = 'chat-stream-final'
Final(row) == row.part \notin {"status", "card"}

VARIABLES
    written,    \* updates 1..written exist
    confirmed,  \* the service has dropped those below
    cursor,     \* lastPolledCursor; 0 before the first poll
    polls,      \* polling ticks: what they asked from and what they were served
    inbound,    \* channel_inbound_messages
    running,    \* messages with a turn under way
    before,     \* the rows queued before a running turn began: its turnStartedAt
    queued,     \* rows of channel_message_queue
    crashes,    \* so far
    started     \* history: turns started for a message

service == <<written, confirmed>>
turns   == <<running, before, queued, started>>
vars    == <<service, cursor, polls, inbound, turns, crashes>>

Idle     == [stage |-> "idle", from |-> 0, lo |-> 1, upto |-> 0]
Statuses == {"none", "ignored", "pending", "routed", "completed", "failed"}

Max2(m, n) == IF m >= n THEN m ELSE n

Init ==
    /\ written = 0 /\ confirmed = 0 /\ cursor = 0
    /\ polls = [p \in Polls |-> Idle]
    /\ inbound = [m \in Msgs |-> "none"]
    /\ running = {} /\ before = [m \in Msgs |-> {}] /\ queued = {}
    /\ started = [m \in Msgs |-> 0]
    /\ crashes = 0

-----------------------------------------------------------------------------
\* Polling.

Write ==
    /\ written < MaxMsgs
    /\ written' = written + 1
    /\ UNCHANGED <<confirmed, cursor, polls, inbound, turns, crashes>>

\* A tick reads the channel's row and asks for what follows its cursor.
PollAsks(p) ==
    /\ polls[p] = Idle
    /\ polls' = [polls EXCEPT ![p] = [stage |-> "asked", from |-> cursor,
                                      lo |-> Idle.lo, upto |-> 0]]
    /\ UNCHANGED <<service, cursor, inbound, turns, crashes>>

\* Telegram serves what it has from there on, and drops what lies before.
ServiceAnswers(p) ==
    /\ polls[p].stage = "asked"
    /\ confirmed' = Max2(confirmed, polls[p].from)
    /\ polls' = [polls EXCEPT ![p] = [stage |-> "served", from |-> polls[p].from,
                                      lo |-> confirmed', upto |-> written]]
    /\ UNCHANGED <<written, cursor, inbound, turns, crashes>>

\* The request or its answer is lost; only the channel's status changes.
PollFails(p) ==
    /\ polls[p] # Idle
    /\ polls' = [polls EXCEPT ![p] = Idle]
    /\ UNCHANGED <<service, cursor, inbound, turns, crashes>>

\* Mutant: only a message in progress is recognised.
KnownInProgress(m) == inbound[m] \in {"pending", "routed"}

\* A message is taken in once: services redeliver.
Known(m) == inbound[m] # "none"

\* The messages served, up to n, are recorded, those of strangers as ignored.
Recorded(p, n, friends) ==
    [m \in Msgs |-> IF polls[p].lo <= m /\ m <= n /\ ~Known(m)
                    THEN (IF m \in friends THEN "pending" ELSE "ignored")
                    ELSE inbound[m]]

\* Mutant: the cursor skips to the newest update there is.
NewestCursor(p) == written + 1

\* Telegram's: beyond the highest update served; else what the tick asked from,
\* however old.
NextCursor(p) == IF polls[p].lo <= polls[p].upto THEN polls[p].upto + 1 ELSE polls[p].from

\* The answer is recorded message by message, then the cursor is written.
PollApplies(p) ==
    /\ polls[p].stage = "served"
    /\ \E friends \in SUBSET Msgs : inbound' = Recorded(p, polls[p].upto, friends)
    /\ cursor' = NextCursor(p)
    /\ polls' = [polls EXCEPT ![p] = Idle]
    /\ UNCHANGED <<service, turns, crashes>>

-----------------------------------------------------------------------------
\* Processing.

\* The processing timer claims the pending messages and starts their turns.
StartTurns ==
    LET taken == {m \in Msgs : inbound[m] = "pending"} IN
    /\ taken # {}
    /\ inbound' = [m \in Msgs |-> IF m \in taken THEN "routed" ELSE inbound[m]]
    /\ running' = running \cup taken
    /\ before' = [m \in Msgs |-> IF m \in taken THEN queued ELSE before[m]]
    /\ started' = [m \in Msgs |-> IF m \in taken THEN started[m] + 1 ELSE started[m]]
    /\ UNCHANGED <<service, cursor, polls, queued, crashes>>

\* The turn speaks through reply_to_channel; the row carries its key.
Reply(m) ==
    /\ m \in running
    /\ Row(m, "reply") \notin queued
    /\ queued' = queued \cup {Row(m, "reply")}
    /\ UNCHANGED <<service, cursor, polls, inbound, running, before, started, crashes>>

\* The turn parks at an approval card or an ask, which is shown in the chat.
Card(m) ==
    /\ m \in running
    /\ queued' = queued \cup {Row(m, "card")}
    /\ UNCHANGED <<service, cursor, polls, inbound, running, before, started, crashes>>

\* A proactive send_to_channel claims no turn.
Push(p) ==
    /\ Row(0, p) \notin queued
    /\ queued' = queued \cup {Row(0, p)}
    /\ UNCHANGED <<service, cursor, polls, inbound, running, before, started, crashes>>

\* Mutant: a sibling turn's reply in the same chat counts.
AnyReply(m) == {row \in queued \ before[m] : Final(row)}

\* The replies queued since the turn began that carry its key or none.
RepliesOf(m) == {row \in queued \ before[m] : Final(row) /\ row.of \in {m, 0}}

\* The turn is over, with the rows it leaves.
Settle(m, status, rows) ==
    /\ inbound' = [inbound EXCEPT ![m] = status]
    /\ running' = running \ {m}
    /\ before' = [before EXCEPT ![m] = {}]
    /\ queued' = queued \cup rows
    /\ UNCHANGED <<service, cursor, polls, started, crashes>>

\* A turn that queued no reply ships the fallback line.
TurnEnds(m) ==
    /\ m \in running
    /\ Settle(m, "completed", IF RepliesOf(m) # {} THEN {} ELSE {Row(m, "line")})

\* A turn that fails apologises, whatever it has said; what throws before it has
\* begun does not.
TurnFails(m) ==
    /\ m \in running
    /\ \/ Settle(m, "failed", {Row(m, "status")})
       \/ Settle(m, "failed", {})

\* Nothing has been queued on account of the message.
Unspoken(m) == \A row \in queued : row.of # m

\* The message is the answer to an approval card, and no turn is run for it: it is
\* confirmed or refused in words; an error of the approval itself fails the
\* message without any.
ApprovalEnds(m) ==
    /\ m \in running /\ Unspoken(m)
    /\ \/ Settle(m, "completed", {Row(m, "status")})
       \/ Settle(m, "failed", {})

-----------------------------------------------------------------------------

\* The process dies and starts again, perhaps between two messages that a poll
\* records. Nothing looks at a routed message afterwards.
CrashAndReboot ==
    /\ crashes < MaxCrashes /\ crashes' = crashes + 1
    /\ \/ UNCHANGED inbound
       \/ \E p \in Polls, n \in Msgs, friends \in SUBSET Msgs :
             /\ polls[p].stage = "served" /\ n <= polls[p].upto
             /\ inbound' = Recorded(p, n, friends)
    /\ polls' = [p \in Polls |-> Idle]
    /\ running' = {} /\ before' = [m \in Msgs |-> {}]
    /\ UNCHANGED <<service, cursor, queued, started>>

Next ==
    \/ Write \/ StartTurns \/ CrashAndReboot
    \/ \E p \in Polls : PollAsks(p) \/ ServiceAnswers(p) \/ PollFails(p) \/ PollApplies(p)
    \/ \E m \in Msgs : Reply(m) \/ Card(m) \/ TurnEnds(m) \/ TurnFails(m) \/ ApprovalEnds(m)
    \/ \E p \in Pushes : Push(p)

Spec == Init /\ [][Next]_vars

\* The processing timer keeps firing, and turns end: their wall clock ends those
\* that do not end by themselves.
FairSpec ==
    /\ Spec /\ WF_vars(StartTurns)
    /\ \A m \in Msgs : WF_vars(TurnEnds(m) \/ TurnFails(m) \/ ApprovalEnds(m))

-----------------------------------------------------------------------------

\* Every variable keeps its shape.
TypeOK ==
    /\ written \in 0..MaxMsgs /\ confirmed \in Nat /\ cursor \in Nat
    /\ polls \in [Polls -> [stage : {"idle", "asked", "served"},
                           from : Nat, lo : Nat, upto : 0..MaxMsgs]]
    /\ inbound \in [Msgs -> Statuses]
    /\ running \subseteq Msgs /\ before \in [Msgs -> SUBSET Rows] /\ queued \subseteq Rows
    /\ started \in [Msgs -> Nat]
    /\ crashes \in 0..MaxCrashes

\* What Telegram has dropped is recorded: no overlap of polls, cursor that goes
\* back, lost answer or crash loses a message it had accepted.
NothingDroppedIsLost == \A m \in Msgs : m < confirmed => inbound[m] # "none"

\* A message starts one turn at most, however often it is delivered and
\* whatever had become of it.
OneTurnPerMessage == \A m \in Msgs : started[m] <= 1

\* "shipped the fallback line so the sender is not left silent": a message that is
\* taken in gets a reply or line of its own turn, or a push while its turn runs,
\* whatever is said meanwhile to others in the same chat; or a status line, if it
\* answers a card; unless its turn fails or dies with the process.
SendersAreAnswered ==
    \A m \in Msgs :
        inbound[m] = "pending"
        ~> \/ \E row \in queued : row.of = m /\ row.part # "card"
           \/ m \in running /\ \E p \in Pushes : Row(0, p) \in queued \ before[m]
           \/ inbound[m] = "failed"
           \/ inbound[m] = "routed" /\ m \notin running

=============================================================================
