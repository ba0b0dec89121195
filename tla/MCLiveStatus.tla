------------------------------ MODULE MCLiveStatus ------------------------------
\* Two requests in flight, so that the answers of two polls can swap.
EXTENDS LiveStatus
MCSlots == 1..2
=============================================================================
