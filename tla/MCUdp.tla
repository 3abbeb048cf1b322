-------------------------------- MODULE MCUdp --------------------------------
(* An instance of Udp; addresses, flows and ports are interchangeable.     *)
EXTENDS Udp, TLC

Symmetry == Permutations(Addrs) \cup Permutations(Flows) \cup Permutations(Socks)
=============================================================================
