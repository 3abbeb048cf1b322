----------------------------- MODULE MCAcceptUdp -----------------------------
EXTENDS AcceptUdp

\* Two and a half windows.
MCTimes == 0..((5 * Window) \div 2)
=============================================================================
