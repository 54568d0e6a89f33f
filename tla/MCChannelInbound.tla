-------------------------- MODULE MCChannelInbound --------------------------
\* Two messages of one chat, either of which may be the answer to a card.
EXTENDS ChannelInbound

CONSTANTS p1, p2, s1

MCPolls == {p1, p2}
MCPushes == {s1}

=============================================================================
