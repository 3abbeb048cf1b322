------------------------------ MODULE MCTcpMux ------------------------------
EXTENDS TcpMux
=============================================================================
