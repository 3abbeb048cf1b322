------------------------------ MODULE MCTcpPool ------------------------------
EXTENDS TcpPool
=============================================================================
