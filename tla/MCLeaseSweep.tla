---------------------------- MODULE MCLeaseSweep ----------------------------
\* The default timing in units of 30 s; a suspension lasts up to seven, longer
\* than a lease.
EXTENDS LeaseSweep

CONSTANTS r1, r2

MCRuns == {r1, r2}

=============================================================================
