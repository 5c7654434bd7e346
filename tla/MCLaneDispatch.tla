--------------------------- MODULE MCLaneDispatch ---------------------------
\* The lane of LaneDispatch for TLC: the constants are numbers and Booleans, so
\* the configurations give them values directly.
EXTENDS LaneDispatch
=============================================================================
