---------------------------- MODULE MCTurnParks ----------------------------
\* One form and one approval card: each can park the turn alone, or both at once.
EXTENDS TurnParks

CONSTANTS a1, k1

MCAsks == {a1}
MCCards == {k1}

=============================================================================
