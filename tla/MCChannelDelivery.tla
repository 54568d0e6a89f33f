-------------------------- MODULE MCChannelDelivery --------------------------
\* Two rows of one channel and one of another, and batches of two.
EXTENDS ChannelDelivery

CONSTANTS r1, r2, r3, c1, c2, t1, t2

MCRows == {r1, r2, r3}
MCChannels == {c1, c2}
MCChannelOf == [r \in MCRows |-> IF r = r3 THEN c2 ELSE c1]
MCTicks == {t1, t2}

=============================================================================
