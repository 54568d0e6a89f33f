----------------------------- MODULE TurnMutex -----------------------------
(***************************************************************************)
(* What a conversation's lock promises: of the calls that ask for a turn,  *)
(* one at a time is admitted, and each is admitted or refused, not both.   *)
(***************************************************************************)

CONSTANT Calls

VARIABLES
    asking,   \* calls that asked and know nothing yet
    inTurn,   \* calls whose turn is running
    answered  \* calls that were refused or whose turn is over

vars == <<asking, inTurn, answered>>

Init == asking = {} /\ inTurn = {} /\ answered = {}

Ask(c) ==
    /\ c \notin asking \cup inTurn \cup answered
    /\ asking' = asking \cup {c}
    /\ UNCHANGED <<inTurn, answered>>

Admit(c) ==
    /\ c \in asking /\ inTurn = {}
    /\ asking' = asking \ {c}
    /\ inTurn' = {c}
    /\ UNCHANGED answered

Refuse(c) ==
    /\ c \in asking
    /\ asking' = asking \ {c}
    /\ answered' = answered \cup {c}
    /\ UNCHANGED inTurn

Finish(c) ==
    /\ c \in inTurn
    /\ inTurn' = inTurn \ {c}
    /\ answered' = answered \cup {c}
    /\ UNCHANGED asking

Next == \E c \in Calls : Ask(c) \/ Admit(c) \/ Refuse(c) \/ Finish(c)

Spec == Init /\ [][Next]_vars

=============================================================================
