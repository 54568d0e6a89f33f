------------------------ MODULE MCSessionTargetLocks ------------------------
EXTENDS SessionTargetLocks

CONSTANTS c1, c2, c3, c4

MCCalls == {c1, c2, c3, c4}

\* Three interactive calls and one of the pool or a schedule.
MCBounded == {c1, c2, c3}

\* One of the signals may be aborted between a hand-over and its reactions.
MCLate == {c3}

=============================================================================
