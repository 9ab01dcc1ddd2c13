--------------------------- MODULE MCEventDelivery ---------------------------
EXTENDS EventDelivery

\* One frame of a history meets two of a whole state, and one of each after a restart.
Mixed == [l \in 1 .. MaxLaunches |-> [c \in Channels |-> IF l = 1 /\ c \in LatestOnly THEN 2 ELSE 1]]
=============================================================================
