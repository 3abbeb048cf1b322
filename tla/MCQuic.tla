------------------------------- MODULE MCQuic --------------------------------
EXTENDS Quic
=============================================================================
