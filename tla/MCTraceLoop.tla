----------------------------- MODULE MCTraceLoop -----------------------------
EXTENDS TraceLoop

\* Below, at, between and above the two thresholds 1 and 3.
MCTime == {1, 2, 3}
=============================================================================
