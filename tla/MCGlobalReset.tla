---------------------------- MODULE MCGlobalReset ---------------------------
\* Instances of GlobalReset for TLC: a day of six units, a minute of one.
EXTENDS GlobalReset

MCDelay == <<4, 3, 2, 1>>
MCPeriod == [p \in {"heroic", "raid"} |-> IF p = "heroic" THEN 6 ELSE 12]

=============================================================================
