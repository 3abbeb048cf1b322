--------------------------- MODULE MCTcpMuxControl ---------------------------
EXTENDS TcpMuxControl
=============================================================================
