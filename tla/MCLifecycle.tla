---------------------------- MODULE MCLifecycle -----------------------------
EXTENDS Lifecycle, TLC

\* Neighbouring families differ in size, so that a counter left over from one loop is
\* wrong for the next.
MCCount == "l3" :> 2 @@ "l2" :> 1 @@ "l1" :> 2 @@ "config" :> 1
=============================================================================
