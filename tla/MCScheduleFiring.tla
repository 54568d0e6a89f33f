-------------------------- MODULE MCScheduleFiring --------------------------
EXTENDS ScheduleFiring, TLC

CONSTANTS s1, s2

MCSchedules == {s1, s2}

\* s1 reminds once, at minute 1; s2 recurs every minute, or every other one.
MCCrons == {{1}, {1, 2, 3, 4}, {2, 4}}
MCFirstCron == (s1 :> {1}) @@ (s2 :> {1, 2, 3, 4})

=============================================================================
