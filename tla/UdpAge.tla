-------------------------------- MODULE UdpAge --------------------------------
(***************************************************************************)
(* How accept_udp tells that a tunnel connection is congested: the client  *)
(* stamps every packet with the time modulo ten minutes, and the server    *)
(* compares the stamp with its own clock.  Pure operators over times in    *)
(* ticks of the server's clock.                                            *)
(*                                                                         *)
(*   client   internal/client/transport/accept_udp.go: udpToTCP            *)
(*   server   internal/server/transport/accept_udp.go: tcpToUDP,           *)
(*            UDPConnectionHandler                                         *)
(***************************************************************************)
EXTENDS Integers

CONSTANTS
    Window,     \* 10 minutes, in ticks
    DefaultRtt, \* 100 ms, in ticks
    Skew,       \* how far the client's clock is ahead of the server's
    Times,      \* when packets are sent and read
    Rtts        \* round-trip times that are measured, 0 for none

ASSUME AgeAssumption ==
    /\ Window \in Nat \ {0} /\ DefaultRtt \in Nat \ {0} /\ Skew \in Nat
    /\ Times \subseteq Nat /\ Rtts \subseteq Nat

\* udpToTCP of the client: lastMillis of a packet that is sent at this time.
Stamp(sent) == (sent + Skew) % Window

\* Mutant: the server compares with its whole clock.
PacketAgeUnwrapped(now, stamp) == now - stamp

\* tcpToUDP of the server.
PacketAge(now, stamp) == (now % Window) - stamp

\* UDPConnectionHandler: a round-trip time of 0 was not measured.
Threshold(rtt) == 3 * (IF rtt = 0 THEN DefaultRtt ELSE rtt)

IsCongested(sent, now, rtt) == PacketAge(now, Stamp(sent)) > Threshold(rtt)

-----------------------------------------------------------------------------
\* Whether a packet is too old.  One on whose way a window ended may seem younger
\* than it is, so it is late only if the server notices.
IsLate(sent, now, rtt) ==
    /\ now - sent > Threshold(rtt)
    /\ now \div Window = sent \div Window \/ IsCongested(sent, now, rtt)

\* What the server makes of the packets it may read, and what they are.
Verdicts ==
    {[congested |-> IF IsCongested(p.sent, p.now, p.rtt) THEN "yes" ELSE "no",
      late      |-> IF IsLate(p.sent, p.now, p.rtt) THEN "yes" ELSE "no"] :
        p \in {q \in [sent : Times, now : Times, rtt : Rtts] : q.sent <= q.now}}
===============================================================================
