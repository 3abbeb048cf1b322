--------------------------- MODULE MCTcpLifecycle ---------------------------
EXTENDS TcpLifecycle
=============================================================================
