----------------------------- MODULE MCSession ------------------------------
EXTENDS Session, TLC

CONSTANTS p0, p1, L1, L2

\* No option, and the pairs in which one depends on what another has left online.
MCInis == {{}, {"ht", "prefetch"}, {"ht", "freq"}, {"prefetch", "turbo"}}

MCFirstSet == L1 :> 4 @@ L2 :> 7
=============================================================================
