--------------------------- MODULE MCRootTurnLock ---------------------------
EXTENDS RootTurnLock

CONSTANTS c1, c2, c3, c4

MCCalls == {c1, c2, c3, c4}

\* Three interactive turns and one of a channel or a delivery.
MCBounded == {c1, c2, c3}

=============================================================================
