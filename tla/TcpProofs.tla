------------------------------ MODULE TcpProofs ------------------------------
(***************************************************************************)
(* Proofs about the two models of the tcp transport:                       *)
(*                                                                         *)
(*   TcpLifecycle, for every number of connections and faults and every    *)
(*   channel size;                                                         *)
(*                                                                         *)
(*   TcpPool, for every pool, every channel size and any number of         *)
(*   listeners and handle loops.                                           *)
(***************************************************************************)
EXTENDS TcpLifecycle, TcpPool, FiniteSetTheorems, TLAPS

\* Which phases refer to which connections.
PhaseInv ==
    /\ IF sPhase = "handshake" THEN sControl = 0 ELSE sControl # 0 /\ sReading = 0
    /\ IF cPhase = "await" THEN cConn # 0 ELSE cConn = 0
    /\ IF cPhase \in {"up", "sleep"} THEN cControl # 0 ELSE cControl = 0

\* The connections of tunnelChannel are distinct, unanswered, and not in use.
QueueInv ==
    /\ \A j, k \in 1..Len(tunnelQ) : tunnelQ[j] = tunnelQ[k] => j = k
    /\ \A k \in 1..Len(tunnelQ) : /\ tunnelQ[k] \notin {sControl, sReading}
                                   /\ conn[tunnelQ[k]].down = "none"
    /\ sReading # 0 => conn[sReading].down = "none"

\* The token was sent over connections that channelDialer made, and the only
\* one of them the server still holds open is its current control channel.
TokenInv ==
    /\ \A i \in Slots : conn[i].up = "token" => conn[i].kind = "ctl"
    /\ \A i \in Slots : conn[i].down = "token" /\ "server" \in conn[i].ends =>
                            sPhase = "up" /\ sControl = i
    /\ cPhase = "up" => conn[cControl].down = "token"

Inv == TypeOK /\ PhaseInv /\ QueueInv /\ TokenInv /\ ControlIsControl

-----------------------------------------------------------------------------
(* What changing one field of one connection does to all of them.          *)

\* No connection is opened, and what each one is and carried stays.
ConnKept ==
    /\ conn' \in [Slots -> Connection]
    /\ \A j \in Slots : /\ conn'[j].kind = conn[j].kind
                        /\ conn'[j].up = conn[j].up
                        /\ conn'[j].down = conn[j].down
                        /\ conn'[j].ends \subseteq conn[j].ends

\* Closing the server's end does that.
LEMMA ServerClosesKeeps ==
  ASSUME NEW i \in Slots, conn \in [Slots -> Connection], conn' = ServerCloses(i)
  PROVE  ConnKept /\ "server" \notin conn'[i].ends
BY DEF ConnKept, ServerCloses, Connection

\* So does closing the client's end.
LEMMA ClientClosesKeeps ==
  ASSUME NEW i \in Slots, conn \in [Slots -> Connection], conn' = ClientCloses(i)
  PROVE  ConnKept
BY DEF ConnKept, ClientCloses, Connection

\* Where the queue stays, so does what is true of its connections.
LEMMA QueueKept ==
  ASSUME Inv, ConnKept, UNCHANGED <<tunnelQ, sControl>>, sReading' \in {sReading, 0}
  PROVE  QueueInv'
<1>1. \A k \in 1..Len(tunnelQ) : tunnelQ[k] \in Slots
  BY DEF Inv, TypeOK
<1>2. sReading # 0 => sReading \in Slots
  BY DEF Inv, TypeOK, Slots
<1>3. \A k \in 1..Len(tunnelQ) : conn'[tunnelQ[k]].down = "none"
  BY <1>1 DEF ConnKept, Inv, QueueInv
<1>4. \A k \in 1..Len(tunnelQ) : tunnelQ[k] # 0
  BY <1>1 DEF Slots
<1>5. \A k \in 1..Len(tunnelQ) : tunnelQ[k] \notin {sControl, sReading, 0}
  BY <1>4 DEF Inv, QueueInv
<1>6. sReading' # 0 => conn'[sReading].down = "none"
  BY <1>2 DEF ConnKept, Inv, QueueInv
<1> QED
  BY <1>3, <1>5, <1>6 DEF Inv, QueueInv

\* Where the server stays up, tokens stay where they are.
LEMMA TokenKept ==
  ASSUME Inv, ConnKept, UNCHANGED <<sPhase, sControl>>,
         cPhase' = "up" => cPhase = "up" /\ cControl' = cControl
  PROVE  TokenInv'
<1>1. cPhase = "up" => cControl \in Slots
  BY DEF Inv, TypeOK, PhaseInv, Slots
<1>2. \A i \in Slots : conn'[i].up = "token" => conn'[i].kind = "ctl"
  BY DEF ConnKept, Inv, TokenInv
<1>3. \A i \in Slots : conn'[i].down = "token" /\ "server" \in conn'[i].ends =>
                          sPhase = "up" /\ sControl = i
  BY DEF ConnKept, Inv, TokenInv
<1> QED
  BY <1>1, <1>2, <1>3 DEF ConnKept, Inv, TokenInv

-----------------------------------------------------------------------------
\* Every step of client, server and network keeps the invariant.
LEMMA InvStep == Inv /\ [Next]_vars => Inv'
<1> SUFFICES ASSUME Inv, [Next]_vars PROVE Inv'
  OBVIOUS
<1> USE LifecycleAssumption DEF Goroutines, serverVars, clientVars
<1>0. conn \in [Slots -> Connection]
  BY DEF Inv, TypeOK
<1>1. CASE UNCHANGED vars
  BY <1>1 DEF vars, Inv, TypeOK, PhaseInv, QueueInv, TokenInv, ControlIsControl
<1>2. ASSUME NEW i \in Slots, ChannelDial(i) PROVE Inv'
  <2>0. /\ conn' \in [Slots -> Connection]
        /\ \A j \in Slots : j # i => conn'[j] = conn[j]
        /\ conn'[i].kind = "ctl" /\ conn'[i].up = "token" /\ conn'[i].down = "none"
    BY <1>0, <1>2 DEF ChannelDial, Accepted, Connection
  <2>1. TypeOK'
    <3>1. tunnelQ' \in Seq(Slots) /\ Len(tunnelQ') <= ChannelSize
      BY <1>2 DEF ChannelDial, Accepted, Inv, TypeOK
    <3>2. i \in 0..MaxConns
      BY DEF Slots
    <3>3. UNCHANGED <<localQ, faults>> /\ poolConnections' \in Int
      BY <1>2 DEF ChannelDial, Inv, TypeOK
    <3>4. UNCHANGED serverVars /\ UNCHANGED <<cControl, cRunning, cPending>>
      BY <1>2 DEF ChannelDial
    <3>5. cPhase' \in {"dial", "await", "up", "sleep"} /\ cConn' \in 0..MaxConns
      BY <1>2, <3>2 DEF ChannelDial, Inv, TypeOK
    <3> QED
      BY <2>0, <3>1, <3>3, <3>4, <3>5 DEF Inv, TypeOK
  <2>2. PhaseInv'
    BY <1>2 DEF ChannelDial, Accepted, Slots, Inv, TypeOK, PhaseInv
  <2>3. QueueInv'
    BY <2>0, <1>2 DEF ChannelDial, Accepted, Free, Queued, Slots, Inv, TypeOK, PhaseInv,
       QueueInv
  <2>4. TokenInv'
    BY <2>0, <1>2 DEF ChannelDial, Accepted, Free, Queued, Slots, Inv, TypeOK, PhaseInv,
       QueueInv, TokenInv
  <2>5. ControlIsControl'
    BY <2>0, <1>2 DEF ChannelDial, Accepted, Free, Queued, Slots, Inv, TypeOK, PhaseInv,
       TokenInv,
       ControlIsControl
  <2> QED
    BY <2>1, <2>2, <2>3, <2>4, <2>5 DEF Inv
<1>3. ASSUME NEW i \in Slots, PoolDial(i) PROVE Inv'
  <2>0. /\ conn' \in [Slots -> Connection]
        /\ \A j \in Slots : j # i => conn'[j] = conn[j]
        /\ conn'[i].kind = "pool" /\ conn'[i].up = "none" /\ conn'[i].down = "none"
    BY <1>0, <1>3 DEF PoolDial, Accepted, Connection
  <2>1. TypeOK'
    <3>1. tunnelQ' \in Seq(Slots) /\ Len(tunnelQ') <= ChannelSize
      BY <1>3 DEF PoolDial, Accepted, Inv, TypeOK
    <3>2. i \in 0..MaxConns
      BY DEF Slots
    <3>3. UNCHANGED <<localQ, faults>> /\ poolConnections' \in Int
      BY <1>3 DEF PoolDial, Inv, TypeOK
    <3>4. UNCHANGED serverVars /\ UNCHANGED <<cControl, cRunning, cPending>>
      BY <1>3 DEF PoolDial
    <3>5. cPhase' \in {"dial", "await", "up", "sleep"} /\ cConn' \in 0..MaxConns
      BY <1>3, <3>2 DEF PoolDial, Inv, TypeOK
    <3> QED
      BY <2>0, <3>1, <3>3, <3>4, <3>5 DEF Inv, TypeOK
  <2>2. PhaseInv'
    BY <1>3 DEF PoolDial, Accepted, Slots, Inv, TypeOK, PhaseInv
  <2>3. QueueInv'
    BY <2>0, <1>3 DEF PoolDial, Accepted, Free, Queued, Slots, Inv, TypeOK, PhaseInv,
       QueueInv
  <2>4. TokenInv'
    BY <2>0, <1>3 DEF PoolDial, Accepted, Free, Queued, Slots, Inv, TypeOK, PhaseInv,
       QueueInv, TokenInv
  <2>5. ControlIsControl'
    BY <2>0, <1>3 DEF PoolDial, Accepted, Free, Queued, Slots, Inv, TypeOK, PhaseInv,
       TokenInv,
       ControlIsControl
  <2> QED
    BY <2>1, <2>2, <2>3, <2>4, <2>5 DEF Inv
<1>4. ASSUME NEW i \in Slots, PoolLeave(i) PROVE Inv'
  <2>0. ConnKept
    <3>1. CASE conn' = [conn EXCEPT ![i].ends = {}]
      BY <1>0, <3>1 DEF ConnKept, Connection
    <3>2. CASE conn' = ClientCloses(i)
      BY <1>0, <3>2, ClientClosesKeeps
    <3> QED
      BY <1>4, <3>1, <3>2 DEF PoolLeave
  <2>1. TypeOK'
    BY <2>0, <1>4 DEF PoolLeave, ConnKept, Slots, Inv, TypeOK, PhaseInv
  <2>2. PhaseInv'
    BY <1>4 DEF PoolLeave, Slots, Inv, TypeOK, PhaseInv
  <2>3. QueueInv'
    BY <2>0, <1>4, QueueKept DEF PoolLeave
  <2>4. TokenInv'
    BY <2>0, <1>4, TokenKept DEF PoolLeave
  <2>5. ControlIsControl'
    BY <2>0, <1>4 DEF PoolLeave, ConnKept, Slots, Inv, TypeOK, PhaseInv, TokenInv,
       ControlIsControl
  <2> QED
    BY <2>1, <2>2, <2>3, <2>4, <2>5 DEF Inv
<1>5. ASSUME NEW i \in Slots, Collect(i) PROVE Inv'
  <2>0. ConnKept
    BY <1>0, <1>5, ServerClosesKeeps DEF Collect
  <2>1. TypeOK'
    BY <2>0, <1>5 DEF Collect, ConnKept, Slots, Inv, TypeOK, PhaseInv
  <2>2. PhaseInv'
    BY <1>5 DEF Collect, Slots, Inv, TypeOK, PhaseInv
  <2>3. QueueInv'
    BY <2>0, <1>5, QueueKept DEF Collect
  <2>4. TokenInv'
    BY <2>0, <1>5, TokenKept DEF Collect
  <2>5. ControlIsControl'
    BY <2>0, <1>5 DEF Collect, ConnKept, Slots, Inv, TypeOK, PhaseInv, TokenInv,
       ControlIsControl
  <2> QED
    BY <2>1, <2>2, <2>3, <2>4, <2>5 DEF Inv
<1>6. ASSUME NEW i \in Slots, Break(i) PROVE Inv'
  <2>0. ConnKept
    BY <1>0, <1>6 DEF Break, ConnKept, Connection
  <2>1. TypeOK'
    BY <2>0, <1>6 DEF Break, ConnKept, Slots, Inv, TypeOK, PhaseInv
  <2>2. PhaseInv'
    BY <1>6 DEF Break, Slots, Inv, TypeOK, PhaseInv
  <2>3. QueueInv'
    BY <2>0, <1>6, QueueKept DEF Break
  <2>4. TokenInv'
    BY <2>0, <1>6, TokenKept DEF Break
  <2>5. ControlIsControl'
    BY <2>0, <1>6 DEF Break, ConnKept, Slots, Inv, TypeOK, PhaseInv, TokenInv,
       ControlIsControl
  <2> QED
    BY <2>1, <2>2, <2>3, <2>4, <2>5 DEF Inv
<1>7. CASE ChannelEstablished
  BY <1>7 DEF ChannelEstablished, Slots, Inv, TypeOK, PhaseInv, QueueInv, TokenInv,
     ControlIsControl
<1>8. CASE ChannelRetry
  <2>a. cConn \in Slots
    BY <1>8 DEF ChannelRetry, Slots, Inv, TypeOK, PhaseInv
  <2>0. ConnKept
    BY <1>0, <1>8, <2>a, ClientClosesKeeps DEF ChannelRetry
  <2>1. TypeOK'
    BY <2>0, <2>a, <1>8 DEF ChannelRetry, ConnKept, Slots, Inv, TypeOK, PhaseInv
  <2>2. PhaseInv'
    BY <1>8 DEF ChannelRetry, Slots, Inv, TypeOK, PhaseInv
  <2>3. QueueInv'
    BY <2>0, <1>8, QueueKept DEF ChannelRetry
  <2>4. TokenInv'
    BY <2>0, <1>8, TokenKept DEF ChannelRetry
  <2>5. ControlIsControl'
    BY <2>0, <2>a, <1>8 DEF ChannelRetry, ConnKept, Slots, Inv, TypeOK, PhaseInv,
       TokenInv,
       ControlIsControl
  <2> QED
    BY <2>1, <2>2, <2>3, <2>4, <2>5 DEF Inv
<1>9. ASSUME NEW g \in Goroutines, ClientGoroutineEnds(g) PROVE Inv'
  <2>1. TypeOK'
    BY <1>9 DEF ClientGoroutineEnds, Slots, Inv, TypeOK, PhaseInv
  <2>2. PhaseInv'
    BY <1>9 DEF ClientGoroutineEnds, Slots, Inv, TypeOK, PhaseInv
  <2>3. QueueInv'
    BY <1>9 DEF ClientGoroutineEnds, Slots, Inv, TypeOK, PhaseInv, QueueInv
  <2>4. TokenInv'
    BY <1>9 DEF ClientGoroutineEnds, Slots, Inv, TypeOK, PhaseInv, QueueInv, TokenInv
  <2>5. ControlIsControl'
    BY <1>9 DEF ClientGoroutineEnds, Slots, Inv, TypeOK, PhaseInv, TokenInv,
       ControlIsControl
  <2> QED
    BY <2>1, <2>2, <2>3, <2>4, <2>5 DEF Inv
<1>10. CASE ClientRestart
  <2>a. cControl \in Slots
    BY <1>10 DEF ClientRestart, Slots, Inv, TypeOK, PhaseInv
  <2>0. ConnKept
    BY <1>0, <1>10, <2>a, ClientClosesKeeps DEF ClientRestart
  <2>1. TypeOK'
    BY <2>0, <2>a, <1>10 DEF ClientRestart, ConnKept, Slots, Inv, TypeOK, PhaseInv
  <2>2. PhaseInv'
    BY <1>10 DEF ClientRestart, Slots, Inv, TypeOK, PhaseInv
  <2>3. QueueInv'
    BY <2>0, <1>10, QueueKept DEF ClientRestart
  <2>4. TokenInv'
    BY <2>0, <1>10, TokenKept DEF ClientRestart
  <2>5. ControlIsControl'
    BY <2>0, <2>a, <1>10 DEF ClientRestart, ConnKept, Slots, Inv, TypeOK, PhaseInv,
       TokenInv,
       ControlIsControl
  <2> QED
    BY <2>1, <2>2, <2>3, <2>4, <2>5 DEF Inv
<1>11. CASE ClientRestartSkipped
  BY <1>11 DEF ClientRestartSkipped, Slots, Inv, TypeOK, PhaseInv, QueueInv, TokenInv,
     ControlIsControl
<1>12. CASE ClientRestarted
  BY <1>12 DEF ClientRestarted, Slots, Inv, TypeOK, PhaseInv, QueueInv, TokenInv,
     ControlIsControl
<1>13. CASE HandshakeTake
  BY <1>13 DEF HandshakeTake, Slots, Inv, TypeOK, PhaseInv, QueueInv, TokenInv,
     ControlIsControl
<1>14. CASE HandshakeOk
  <2>a. sReading \in Slots
    BY <1>14 DEF HandshakeOk, Slots, Inv, TypeOK
  <2>0. /\ conn' \in [Slots -> Connection]
        /\ \A j \in Slots : /\ conn'[j].kind = conn[j].kind
                            /\ conn'[j].up = conn[j].up
                            /\ conn'[j].ends = conn[j].ends
                            /\ j # sReading => conn'[j].down = conn[j].down
        /\ conn'[sReading].down = "token"
    BY <1>0, <1>14, <2>a DEF HandshakeOk, Connection
  <2>1. TypeOK'
    BY <2>0, <2>a, <1>14 DEF HandshakeOk, Slots, Inv, TypeOK, PhaseInv
  <2>2. PhaseInv'
    BY <1>14 DEF HandshakeOk, Slots, Inv, TypeOK, PhaseInv
  <2>3. QueueInv'
    BY <2>0, <2>a, <1>14 DEF HandshakeOk, Slots, Inv, TypeOK, PhaseInv, QueueInv
  <2>4. TokenInv'
    BY <2>0, <2>a, <1>14 DEF HandshakeOk, Slots, Inv, TypeOK, PhaseInv, QueueInv, TokenInv
  <2>5. ControlIsControl'
    BY <2>0, <2>a, <1>14 DEF HandshakeOk, Slots, Inv, TypeOK, PhaseInv, TokenInv,
       ControlIsControl
  <2> QED
    BY <2>1, <2>2, <2>3, <2>4, <2>5 DEF Inv
<1>15. CASE HandshakeDiscard
  <2>a. sReading \in Slots
    BY <1>15 DEF HandshakeDiscard, Slots, Inv, TypeOK, PhaseInv
  <2>0. ConnKept /\ "server" \notin conn'[sReading].ends
    BY <1>0, <1>15, <2>a, ServerClosesKeeps DEF HandshakeDiscard
  <2>1. TypeOK'
    BY <2>0, <2>a, <1>15 DEF HandshakeDiscard, ConnKept, Slots, Inv, TypeOK, PhaseInv
  <2>2. PhaseInv'
    BY <1>15 DEF HandshakeDiscard, Slots, Inv, TypeOK, PhaseInv
  <2>3. QueueInv'
    BY <2>0, <1>15, QueueKept DEF HandshakeDiscard
  <2>4. TokenInv'
    BY <2>0, <1>15, TokenKept DEF HandshakeDiscard
  <2>5. ControlIsControl'
    BY <2>0, <2>a, <1>15 DEF HandshakeDiscard, ConnKept, Slots, Inv, TypeOK, PhaseInv,
       TokenInv,
       ControlIsControl
  <2> QED
    BY <2>1, <2>2, <2>3, <2>4, <2>5 DEF Inv
<1>16. CASE EnqueueInbound
  <2>1. UNCHANGED <<conn, serverVars, tunnelQ, clientVars, poolConnections, faults>>
    BY <1>16, Zenon DEF EnqueueInbound
  <2>2. localQ < ChannelSize /\ localQ' = localQ + 1
    BY <1>16, Zenon DEF EnqueueInbound
  <2> QED
    BY <2>1, <2>2 DEF Inv, TypeOK, PhaseInv, QueueInv, TokenInv, ControlIsControl
<1>17. CASE HandleLocal
  <2> DEFINE h == Head(tunnelQ)
  <2>a. h \in Slots /\ h = tunnelQ[1] /\ conn[h].down = "none"
    BY <1>17 DEF HandleLocal, Inv, TypeOK, QueueInv
  <2>0. /\ conn' \in [Slots -> Connection]
        /\ \A j \in Slots : /\ conn'[j].kind = conn[j].kind
                            /\ conn'[j].up = conn[j].up
                            /\ conn'[j].ends \subseteq conn[j].ends
                            /\ j # h => conn'[j].down = conn[j].down
        /\ conn'[h].down # "token"
    <3>1. CASE conn' = [conn EXCEPT ![h].down = "target"]
      BY <1>0, <2>a, <3>1 DEF Connection
    <3>2. CASE conn' = ServerCloses(h)
      BY <1>0, <2>a, <3>2 DEF ServerCloses, Connection
    <3> QED
      BY <1>17, <3>1, <3>2 DEF HandleLocal
  <2>b. /\ tunnelQ' \in Seq(Slots)
        /\ Len(tunnelQ') = Len(tunnelQ) - 1
        /\ \A k \in 1..Len(tunnelQ') : tunnelQ'[k] = tunnelQ[k + 1]
    BY <1>17 DEF HandleLocal, Inv, TypeOK
  <2>c. localQ' \in 0..ChannelSize
    BY <1>17 DEF HandleLocal, Inv, TypeOK
  <2>d. UNCHANGED <<serverVars, clientVars, poolConnections, faults>>
    BY <1>17 DEF HandleLocal
  <2>e. \A k \in 1..Len(tunnelQ') : /\ k + 1 \in 1..Len(tunnelQ)
                                    /\ tunnelQ'[k] \in Slots
                                    /\ tunnelQ'[k] # h
    BY <2>a, <2>b DEF Inv, TypeOK, QueueInv
  <2>1. TypeOK'
    BY <2>0, <2>b, <2>c, <2>d DEF Inv, TypeOK
  <2>2. PhaseInv'
    BY <1>17 DEF HandleLocal, Slots, Inv, TypeOK, PhaseInv
  <2>3. QueueInv'
    <3>1. sReading # 0 => sReading \in Slots /\ sReading # h
      BY <2>a, <1>17 DEF HandleLocal, Inv, TypeOK, PhaseInv, Slots
    <3> QED
      BY <2>0, <2>b, <2>d, <2>e, <3>1 DEF Inv, QueueInv
  <2>4. TokenInv'
    <3>1. cPhase = "up" => cControl \in Slots /\ cControl # h
      BY <2>a DEF Inv, TypeOK, PhaseInv, TokenInv, Slots
    <3>2. \A j \in Slots : conn'[j].down = "token" => conn[j].down = "token"
      BY <2>0
    <3> QED
      BY <2>0, <2>d, <3>1, <3>2 DEF Inv, TokenInv
  <2>5. ControlIsControl'
    BY <2>0, <2>a, <1>17 DEF HandleLocal, Slots, Inv, TypeOK, PhaseInv, TokenInv,
       ControlIsControl
  <2> QED
    BY <2>1, <2>2, <2>3, <2>4, <2>5 DEF Inv
<1>18. ASSUME NEW g \in Goroutines, ServerGoroutineEnds(g) PROVE Inv'
  <2>1. TypeOK'
    BY <1>18 DEF ServerGoroutineEnds, Slots, Inv, TypeOK, PhaseInv
  <2>2. PhaseInv'
    BY <1>18 DEF ServerGoroutineEnds, Slots, Inv, TypeOK, PhaseInv
  <2>3. QueueInv'
    BY <1>18 DEF ServerGoroutineEnds, Slots, Inv, TypeOK, PhaseInv, QueueInv
  <2>4. TokenInv'
    BY <1>18 DEF ServerGoroutineEnds, Slots, Inv, TypeOK, PhaseInv, QueueInv, TokenInv
  <2>5. ControlIsControl'
    BY <1>18 DEF ServerGoroutineEnds, Slots, Inv, TypeOK, PhaseInv, TokenInv,
       ControlIsControl
  <2> QED
    BY <2>1, <2>2, <2>3, <2>4, <2>5 DEF Inv
<1>19. CASE ServerRestart
  <2>a. sControl \in Slots
    BY <1>19 DEF ServerRestart, Slots, Inv, TypeOK, PhaseInv
  <2>0. ConnKept /\ "server" \notin conn'[sControl].ends
    BY <1>0, <1>19, <2>a, ServerClosesKeeps DEF ServerRestart
  <2>1. TypeOK'
    BY <2>0, <2>a, <1>19 DEF ServerRestart, ConnKept, Slots, Inv, TypeOK, PhaseInv
  <2>2. PhaseInv'
    BY <1>19 DEF ServerRestart, Slots, Inv, TypeOK, PhaseInv
  <2>3. QueueInv'
    BY <2>0, <1>19, QueueKept DEF ServerRestart
  <2>4. TokenInv'
    <3>1. \A i \in Slots : conn'[i].up = "token" => conn'[i].kind = "ctl"
      BY <2>0 DEF ConnKept, Inv, TokenInv
    <3>2. \A i \in Slots : conn'[i].down = "token" => "server" \notin conn'[i].ends
      BY <2>0 DEF ConnKept, Inv, TokenInv
    <3>3. cPhase = "up" => cControl \in Slots
      BY DEF Inv, TypeOK, PhaseInv, Slots
    <3>4. cPhase = "up" => conn'[cControl].down = "token"
      BY <2>0, <3>3 DEF ConnKept, Inv, TokenInv
    <3>5. UNCHANGED <<cPhase, cControl>>
      BY <1>19 DEF ServerRestart, clientVars
    <3> QED
      BY <3>1, <3>2, <3>4, <3>5 DEF TokenInv
  <2>5. ControlIsControl'
    BY <2>0, <2>a, <1>19 DEF ServerRestart, ConnKept, Inv, ControlIsControl
  <2> QED
    BY <2>1, <2>2, <2>3, <2>4, <2>5 DEF Inv
<1>20. CASE ServerRestartSkipped
  BY <1>20 DEF ServerRestartSkipped, Slots, Inv, TypeOK, PhaseInv, QueueInv, TokenInv,
     ControlIsControl
<1>21. CASE ServerRestarted
  <2>1. TypeOK'
    <3>1. sReady' \in BOOLEAN
      BY <1>21, Zenon DEF ServerRestarted
    <3>2. sPhase' = "handshake" /\ sControl' = 0 /\ tunnelQ' = <<>> /\ localQ' = 0
      BY <1>21 DEF ServerRestarted
    <3>3. UNCHANGED <<conn, sReading, sRunning, sPending, clientVars, poolConnections, faults>>
      BY <1>21 DEF ServerRestarted
    <3> QED
      BY <3>1, <3>2, <3>3 DEF Inv, TypeOK
  <2>2. PhaseInv'
    BY <1>21 DEF ServerRestarted, Slots, Inv, TypeOK, PhaseInv
  <2>3. QueueInv'
    BY <1>21 DEF ServerRestarted, Slots, Inv, TypeOK, PhaseInv, QueueInv
  <2>4. TokenInv'
    BY <1>21 DEF ServerRestarted, Slots, Inv, TypeOK, PhaseInv, QueueInv, TokenInv
  <2>5. ControlIsControl'
    BY <1>21 DEF ServerRestarted, Slots, Inv, TypeOK, PhaseInv, TokenInv,
       ControlIsControl
  <2> QED
    BY <2>1, <2>2, <2>3, <2>4, <2>5 DEF Inv
<1> QED
  BY <1>1, <1>2, <1>3, <1>4, <1>5, <1>6, <1>7, <1>8, <1>9, <1>10, <1>11,
     <1>12, <1>13, <1>14, <1>15, <1>16, <1>17, <1>18, <1>19, <1>20, <1>21
     DEF Next, Client, Server

\* The invariant holds to begin with.
LEMMA InvInit == Init => Inv
<1> SUFFICES ASSUME Init PROVE Inv
  OBVIOUS
<1>1. NoConn \in Connection
  BY DEF NoConn, Connection
<1>2. sReady \in BOOLEAN
  BY Zenon DEF Init
<1>3. TypeOK
  BY <1>1, <1>2, LifecycleAssumption DEF Init, TypeOK, Slots, Goroutines
<1>4. \A i \in Slots : conn[i].up = "none" /\ conn[i].down = "none"
  BY DEF Init, NoConn
<1> QED
  BY <1>3, <1>4 DEF Init, Inv, PhaseInv, QueueInv, TokenInv, ControlIsControl

\* So it always holds.
LEMMA InvAlways == Spec => []Inv
BY InvInit, InvStep, PTL DEF Spec

\* Whatever the two programs and the network do, no queue of the server grows
\* past its capacity and every reference is to a connection or nil.
THEOREM LifecycleTypeCorrect == Spec => []TypeOK
<1>1. Inv => TypeOK
  BY DEF Inv
<1> QED
  BY <1>1, InvAlways, PTL

\* The two sides never hold different live control channels: an open
\* connection over which the client has the token back is the server's
\* current control channel, through every handshake and restart.
THEOREM ControlAgreedCorrect == Spec => []ControlAgreed
<1>1. ASSUME Inv PROVE ControlAgreed
  <2> SUFFICES ASSUME cPhase = "up", ServerOpen(cControl)
               PROVE  sPhase = "up" /\ sControl = cControl
    BY DEF ControlAgreed
  <2>1. cControl \in Slots /\ conn[cControl].down = "token"
    BY <1>1 DEF Inv, TypeOK, PhaseInv, TokenInv, Slots
  <2> QED
    BY <1>1, <2>1 DEF Inv, TokenInv, ServerOpen
<1> QED
  BY <1>1, InvAlways, PTL

\* A tunnel connection is never taken for the control channel.
THEOREM ControlIsControlCorrect == Spec => []ControlIsControl
<1>1. Inv => ControlIsControl
  BY DEF Inv
<1> QED
  BY <1>1, InvAlways, PTL

-----------------------------------------------------------------------------
(***************************************************************************)
(* Why a side restarts.  A go Restart() call that is pending while the     *)
(* channel is up stems from a failure of this channel: the calls of an     *)
(* earlier one are gone, with the goroutines that make them, before the    *)
(* next handshake.                                                         *)
(***************************************************************************)
CauseInv ==
    /\ sPhase = "handshake" => sPending = 0 /\ sRunning = {}
    /\ sPhase = "up" /\ sPending > 0 => DeadForServer(sControl)
    /\ cPhase \in {"dial", "await"} => cPending = 0 /\ cRunning = {}
    /\ cPhase = "up" /\ cPending > 0 => DeadForClient(cControl)

\* A connection somebody refers to is closed or broken, never opened again.
LEMMA OnlyCloses ==
    ASSUME Inv, [Next]_vars, NEW j \in Slots, ~Free(j)
    PROVE  /\ conn'[j].kind = conn[j].kind
           /\ conn'[j].ends \subseteq conn[j].ends
           /\ conn[j].link = "broken" => conn'[j].link = "broken"
<1> DEFINE Kept == /\ conn'[j].kind = conn[j].kind
                   /\ conn'[j].ends \subseteq conn[j].ends
                   /\ conn[j].link = "broken" => conn'[j].link = "broken"
<1> SUFFICES Kept
  OBVIOUS
<1>0. conn \in [Slots -> Connection]
  BY DEF Inv, TypeOK
<1>1. CASE UNCHANGED conn
  BY <1>1
<1>2. ASSUME NEW i \in Slots, conn' = ServerCloses(i) \/ conn' = ClientCloses(i) PROVE Kept
  BY <1>0, <1>2 DEF ServerCloses, ClientCloses, Connection
<1>3. ASSUME NEW i \in Slots, ChannelDial(i) \/ PoolDial(i) PROVE Kept
  BY <1>0, <1>3 DEF ChannelDial, PoolDial, Accepted
<1>4. ASSUME NEW i \in Slots, PoolLeave(i) \/ Collect(i) \/ Break(i) PROVE Kept
  <2>1. CASE conn' = [conn EXCEPT ![i].ends = {}]
    BY <1>0, <2>1 DEF Connection
  <2>2. CASE conn' = [conn EXCEPT ![i].link = "broken"]
    BY <1>0, <2>2 DEF Connection
  <2> QED
    BY <1>2, <1>4, <2>1, <2>2 DEF PoolLeave, Collect, Break
<1>5. CASE ChannelRetry \/ ClientRestart \/ HandshakeDiscard \/ ServerRestart
  <2>1. /\ ChannelRetry => cConn \in Slots
        /\ ClientRestart => cControl \in Slots
        /\ HandshakeDiscard => sReading \in Slots
        /\ ServerRestart => sControl \in Slots
    BY DEF Inv, TypeOK, PhaseInv, Slots, ChannelRetry, ClientRestart, HandshakeDiscard,
       ServerRestart
  <2> QED
    BY <1>2, <1>5, <2>1 DEF ChannelRetry, ClientRestart, HandshakeDiscard, ServerRestart
<1>6. ASSUME NEW i \in Slots, NEW d, conn' = [conn EXCEPT ![i].down = d] PROVE Kept
  BY <1>0, <1>6 DEF Connection
<1>7. CASE HandshakeOk
  <2>1. sReading \in Slots
    BY <1>7 DEF HandshakeOk, Inv, TypeOK, Slots
  <2> QED
    BY <1>6, <1>7, <2>1 DEF HandshakeOk
<1>8. CASE HandleLocal
  <2>1. Head(tunnelQ) \in Slots
    BY <1>8 DEF HandleLocal, Inv, TypeOK
  <2> QED
    BY <1>2, <1>6, <1>8, <2>1 DEF HandleLocal
<1> HIDE DEF Kept
<1>9. ASSUME NEW g \in Goroutines, ClientGoroutineEnds(g) \/ ServerGoroutineEnds(g) PROVE Kept
  BY <1>1, <1>9 DEF ClientGoroutineEnds, ServerGoroutineEnds
<1>10. CASE ChannelEstablished \/ ClientRestartSkipped \/ ClientRestarted \/ HandshakeTake
              \/ EnqueueInbound \/ ServerRestartSkipped \/ ServerRestarted \/ UNCHANGED vars
  BY <1>1, <1>10 DEF ChannelEstablished, ClientRestartSkipped, ClientRestarted,
     HandshakeTake, EnqueueInbound, ServerRestartSkipped, ServerRestarted, vars
<1> QED
  BY <1>3, <1>4, <1>5, <1>7, <1>8, <1>9, <1>10 DEF Next, Client, Server

\* Every step keeps the causes.
LEMMA CauseStep ==
    ASSUME Inv, CauseInv, [Next]_vars
    PROVE  CauseInv'
<1> USE DEF serverVars, clientVars
<1> DEFINE DeadS == "client" \notin conn'[sControl].ends \/ conn'[sControl].link = "broken"
           DeadC == "server" \notin conn'[cControl].ends \/ conn'[cControl].link = "broken"
<1>1. sControl # 0 /\ DeadForServer(sControl) => DeadS
  <2>1. sControl # 0 => sControl \in Slots /\ ~Free(sControl)
    BY DEF Inv, TypeOK, Slots, Free
  <2> QED
    BY <2>1, OnlyCloses DEF DeadForServer, ClientOpen, Broken
<1>2. cControl # 0 /\ DeadForClient(cControl) => DeadC
  <2>1. cControl # 0 => cControl \in Slots /\ ~Free(cControl)
    BY DEF Inv, TypeOK, Slots, Free
  <2> QED
    BY <2>1, OnlyCloses DEF DeadForClient, ServerOpen, Broken
<1> DEFINE ServerCause == /\ sPhase' = "handshake" => sPending' = 0 /\ sRunning' = {}
                          /\ sPhase' = "up" /\ sPending' > 0 => DeadForServer(sControl)'
           ClientCause == /\ cPhase' \in {"dial", "await"} => cPending' = 0 /\ cRunning' = {}
                          /\ cPhase' = "up" /\ cPending' > 0 => DeadForClient(cControl)'
<1>3. sControl' = sControl /\ DeadS => DeadForServer(sControl)'
  BY DEF DeadForServer, ClientOpen, Broken
<1>4. cControl' = cControl /\ DeadC => DeadForClient(cControl)'
  BY DEF DeadForClient, ServerOpen, Broken
<1>5. /\ sPhase \in {"up", "sleep"} => sControl # 0
      /\ cPhase \in {"up", "sleep"} => cControl # 0
      /\ sPending \in Nat /\ cPending \in Nat
  BY DEF Inv, TypeOK, PhaseInv
<1> HIDE DEF DeadS, DeadC
<1>6. ServerCause
  <2>1. CASE UNCHANGED <<sPhase, sControl, sPending, sRunning>>
    BY <1>1, <1>3, <1>5, <2>1 DEF CauseInv
  <2>2. ASSUME NEW g \in Goroutines, ServerGoroutineEnds(g) PROVE ServerCause
    BY <1>1, <1>3, <1>5, <2>2 DEF CauseInv, ServerGoroutineEnds
  <2>3. CASE HandshakeOk
    BY <2>3 DEF CauseInv, HandshakeOk
  <2>4. CASE ServerRestart \/ ServerRestartSkipped
    BY <2>4 DEF ServerRestart, ServerRestartSkipped
  <2>5. CASE ServerRestarted
    BY <2>5 DEF ServerRestarted
  <2> HIDE DEF ServerCause
  <2>6. ASSUME NEW i \in Slots,
               ChannelDial(i) \/ PoolDial(i) \/ PoolLeave(i) \/ Collect(i) \/ Break(i)
        PROVE  ServerCause
    BY <2>1, <2>6 DEF ChannelDial, PoolDial, PoolLeave, Collect, Break
  <2>7. ASSUME NEW g \in Goroutines, ClientGoroutineEnds(g) PROVE ServerCause
    BY <2>1, <2>7 DEF ClientGoroutineEnds
  <2>8. CASE ChannelEstablished \/ ChannelRetry \/ ClientRestart \/ ClientRestartSkipped
               \/ ClientRestarted
    BY <2>1, <2>8 DEF ChannelEstablished, ChannelRetry, ClientRestart, ClientRestartSkipped,
       ClientRestarted
  <2>9. CASE HandshakeTake \/ HandshakeDiscard \/ EnqueueInbound \/ HandleLocal \/ UNCHANGED vars
    BY <2>1, <2>9 DEF HandshakeTake, HandshakeDiscard, EnqueueInbound, HandleLocal, vars
  <2> QED
    BY <2>2, <2>3, <2>4, <2>5, <2>6, <2>7, <2>8, <2>9 DEF Next, Client, Server
<1>7. ClientCause
  <2>1. CASE UNCHANGED <<cPhase, cControl, cPending, cRunning>>
    BY <1>2, <1>4, <1>5, <2>1 DEF CauseInv
  <2>2. ASSUME NEW g \in Goroutines, ClientGoroutineEnds(g) PROVE ClientCause
    BY <1>2, <1>4, <1>5, <2>2 DEF CauseInv, ClientGoroutineEnds
  <2>3. ASSUME NEW i \in Slots, ChannelDial(i) PROVE ClientCause
    BY <2>3 DEF CauseInv, ChannelDial
  <2>4. CASE ChannelEstablished \/ ChannelRetry
    BY <2>4 DEF CauseInv, ChannelEstablished, ChannelRetry
  <2>5. CASE ClientRestart \/ ClientRestartSkipped \/ ClientRestarted
    BY <2>5 DEF ClientRestart, ClientRestartSkipped, ClientRestarted
  <2> HIDE DEF ClientCause
  <2>6. ASSUME NEW i \in Slots, PoolDial(i) \/ PoolLeave(i) \/ Collect(i) \/ Break(i)
        PROVE  ClientCause
    BY <2>1, <2>6 DEF PoolDial, PoolLeave, Collect, Break
  <2>7. ASSUME NEW g \in Goroutines, ServerGoroutineEnds(g) PROVE ClientCause
    BY <2>1, <2>7 DEF ServerGoroutineEnds
  <2>8. CASE HandshakeOk \/ ServerRestart \/ ServerRestartSkipped \/ ServerRestarted
    BY <2>1, <2>8 DEF HandshakeOk, ServerRestart, ServerRestartSkipped, ServerRestarted
  <2>9. CASE HandshakeTake \/ HandshakeDiscard \/ EnqueueInbound \/ HandleLocal \/ UNCHANGED vars
    BY <2>1, <2>9 DEF HandshakeTake, HandshakeDiscard, EnqueueInbound, HandleLocal, vars
  <2> QED
    BY <2>2, <2>3, <2>4, <2>5, <2>6, <2>7, <2>8, <2>9 DEF Next, Client, Server
<1> QED
  BY <1>6, <1>7 DEF CauseInv

\* Restarts of either side have a cause: the control channel of that side is
\* dead when Restart begins, so that of all the go Restart() calls of one
\* failure one takes effect and none is left for the next control channel.
THEOREM RestartsCorrect == Spec => RestartsAreCaused
<1>1. Init => CauseInv
  BY DEF Init, CauseInv
<1>2. Inv /\ CauseInv /\ [Next]_vars => CauseInv'
  BY CauseStep
<1>3. ASSUME CauseInv, [Next]_vars
      PROVE  [/\ sPhase = "up" /\ sPhase' = "sleep" => DeadForServer(sControl)
              /\ cPhase = "up" /\ cPhase' = "sleep" => DeadForClient(cControl)]_vars
  <2> USE DEF serverVars, clientVars
  <2>1. sPhase = "up" /\ sPhase' = "sleep" => ServerRestart
    BY <1>3 DEF Next, Client, Server, vars, ChannelDial, PoolDial, PoolLeave, Collect, Break,
       ChannelEstablished, ChannelRetry, ClientGoroutineEnds, ClientRestart,
       ClientRestartSkipped, ClientRestarted, HandshakeTake, HandshakeOk, HandshakeDiscard,
       EnqueueInbound, HandleLocal, ServerGoroutineEnds, ServerRestartSkipped, ServerRestarted
  <2>2. cPhase = "up" /\ cPhase' = "sleep" => ClientRestart
    BY <1>3 DEF Next, Client, Server, vars, ChannelDial, PoolDial, PoolLeave, Collect, Break,
       ChannelEstablished, ChannelRetry, ClientGoroutineEnds, ClientRestartSkipped,
       ClientRestarted, HandshakeTake, HandshakeOk, HandshakeDiscard, EnqueueInbound,
       HandleLocal, ServerGoroutineEnds, ServerRestart, ServerRestartSkipped, ServerRestarted
  <2> QED
    BY <1>3, <2>1, <2>2 DEF CauseInv, ServerRestart, ClientRestart
<1> QED
  BY <1>1, <1>2, <1>3, InvAlways, PTL DEF Spec, RestartsAreCaused

-----------------------------------------------------------------------------
(***************************************************************************)
(* The client's counter.  The bound needs to know that what the client     *)
(* closes without counting it out, the connections of channelDialer, are   *)
(* not pooled ones.                                                        *)
(***************************************************************************)
DialerInv ==
    /\ cConn # 0 => conn[cConn].kind = "ctl"
    /\ cControl # 0 => conn[cControl].kind = "ctl"

\* Every step keeps that.
LEMMA DialerStep ==
    ASSUME Inv, DialerInv, [Next]_vars
    PROVE  DialerInv'
<1> USE DEF serverVars, clientVars
<1>1. cConn # 0 => cConn \in Slots /\ conn'[cConn].kind = "ctl"
  <2>1. cConn # 0 => cConn \in Slots /\ ~Free(cConn)
    BY DEF Inv, TypeOK, Slots, Free
  <2> QED
    BY <2>1, OnlyCloses DEF DialerInv
<1>2. cControl # 0 => cControl \in Slots /\ conn'[cControl].kind = "ctl"
  <2>1. cControl # 0 => cControl \in Slots /\ ~Free(cControl)
    BY DEF Inv, TypeOK, Slots, Free
  <2> QED
    BY <2>1, OnlyCloses DEF DialerInv
<1>3. CASE cConn' \in {cConn, 0} /\ cControl' \in {cControl, cConn, 0}
  BY <1>1, <1>2, <1>3 DEF DialerInv
<1>4. ASSUME NEW i \in Slots, ChannelDial(i) PROVE DialerInv'
  <2>1. conn'[i].kind = "ctl" /\ cConn' = i /\ cControl' = cControl
    BY <1>4 DEF ChannelDial, Accepted, Inv, TypeOK
  <2> QED
    BY <1>2, <2>1 DEF DialerInv
<1>5. CASE ChannelEstablished \/ ChannelRetry \/ ClientRestart \/ ClientRestartSkipped
             \/ ClientRestarted
  BY <1>3, <1>5 DEF ChannelEstablished, ChannelRetry, ClientRestart, ClientRestartSkipped,
     ClientRestarted
<1>6. CASE UNCHANGED <<cConn, cControl>>
  BY <1>3, <1>6
<1>7. ASSUME NEW i \in Slots, PoolDial(i) \/ PoolLeave(i) \/ Collect(i) \/ Break(i)
      PROVE  DialerInv'
  BY <1>6, <1>7 DEF PoolDial, PoolLeave, Collect, Break
<1>8. ASSUME NEW g \in Goroutines, ClientGoroutineEnds(g) \/ ServerGoroutineEnds(g)
      PROVE  DialerInv'
  BY <1>6, <1>8 DEF ClientGoroutineEnds, ServerGoroutineEnds
<1>9. CASE HandshakeTake \/ HandshakeOk \/ HandshakeDiscard \/ EnqueueInbound \/ HandleLocal
             \/ ServerRestart \/ ServerRestartSkipped \/ ServerRestarted \/ UNCHANGED vars
  BY <1>6, <1>9 DEF HandshakeTake, HandshakeOk, HandshakeDiscard, EnqueueInbound, HandleLocal,
     ServerRestart, ServerRestartSkipped, ServerRestarted, vars
<1> QED
  BY <1>4, <1>5, <1>7, <1>8, <1>9 DEF Next, Client, Server

\* There are finitely many pooled connections.
LEMMA PooledFinite == IsFiniteSet(Pooled) /\ Cardinality(Pooled) \in Nat
<1>1. IsFiniteSet(Slots)
  BY LifecycleAssumption, FS_Interval DEF Slots
<1>2. Pooled \in SUBSET Slots
  BY DEF Pooled
<1> QED
  BY <1>1, <1>2, FS_Subset, FS_CardinalityType

\* Two sets that differ in one element at most have cardinalities to match.
LEMMA CountChange ==
    ASSUME NEW S, IsFiniteSet(S), NEW A \in SUBSET S, NEW B \in SUBSET S,
           NEW x, A \ {x} = B \ {x}
    PROVE  /\ Cardinality(A) \in Nat /\ Cardinality(B) \in Nat
           /\ Cardinality(A) + (IF x \in B THEN 1 ELSE 0)
                = Cardinality(B) + (IF x \in A THEN 1 ELSE 0)
<1>1. IsFiniteSet(A) /\ IsFiniteSet(B)
  BY FS_Subset
<1>2. Cardinality(A) \in Nat /\ Cardinality(B) \in Nat
  BY <1>1, FS_CardinalityType
<1>3. Cardinality(A \ {x}) = IF x \in A THEN Cardinality(A) - 1 ELSE Cardinality(A)
  BY <1>1, FS_RemoveElement
<1>4. Cardinality(B \ {x}) = IF x \in B THEN Cardinality(B) - 1 ELSE Cardinality(B)
  BY <1>1, FS_RemoveElement
<1> QED
  BY <1>2, <1>3, <1>4

\* What a step that dials or closes connection i does to the pooled ones.
LEMMA PooledChange ==
    ASSUME NEW i \in Slots,
           \A j \in Slots \ {i} : j \in Pooled' <=> j \in Pooled
    PROVE  /\ Cardinality(Pooled) \in Nat /\ Cardinality(Pooled)' \in Nat
           /\ i \in Pooled /\ i \notin Pooled' =>
                Cardinality(Pooled)' = Cardinality(Pooled) - 1
           /\ i \notin Pooled /\ i \in Pooled' =>
                Cardinality(Pooled)' = Cardinality(Pooled) + 1
           /\ (i \in Pooled <=> i \in Pooled') => Cardinality(Pooled)' = Cardinality(Pooled)
<1> DEFINE A == Pooled
           B == Pooled'
<1>1. IsFiniteSet(Slots)
  BY LifecycleAssumption, FS_Interval DEF Slots
<1>2. A \in SUBSET Slots /\ B \in SUBSET Slots
  BY DEF Pooled
<1>3. A \ {i} = B \ {i}
  BY <1>2
<1>4. Cardinality(Pooled)' = Cardinality(B)
  OBVIOUS
<1> HIDE DEF A, B
<1>5. /\ Cardinality(A) \in Nat /\ Cardinality(B) \in Nat
      /\ Cardinality(A) + (IF i \in B THEN 1 ELSE 0)
           = Cardinality(B) + (IF i \in A THEN 1 ELSE 0)
  BY <1>1, <1>2, <1>3, CountChange
<1> QED
  BY <1>4, <1>5 DEF A, B

\* Every step keeps the counter at or below the number of pooled connections.
LEMMA CounterStep ==
    ASSUME Inv, DialerInv, CounterErrsLow, [Next]_vars
    PROVE  CounterErrsLow'
<1> USE DEF serverVars, clientVars
<1>0. /\ conn \in [Slots -> Connection] /\ poolConnections \in Int
  BY DEF Inv, TypeOK
<1>a. Cardinality(Pooled) \in Nat
  BY PooledFinite
<1>1. CASE UNCHANGED poolConnections /\ Pooled' = Pooled
  BY <1>1 DEF CounterErrsLow
<1>2. ASSUME \A j \in Slots : /\ conn'[j].kind = conn[j].kind
                              /\ "client" \in conn'[j].ends <=> "client" \in conn[j].ends
      PROVE  Pooled' = Pooled
  BY <1>2 DEF Pooled, ClientOpen
<1>3. ASSUME NEW i \in Slots, conn' = ServerCloses(i) PROVE Pooled' = Pooled
  BY <1>0, <1>2, <1>3 DEF ServerCloses, Connection
<1>4. ASSUME NEW i \in Slots, conn[i].kind = "ctl", conn' = ClientCloses(i)
      PROVE  Pooled' = Pooled
  BY <1>0, <1>4 DEF ClientCloses, Connection, Pooled, ClientOpen
<1>5. ASSUME NEW i \in Slots, NEW d, conn' = [conn EXCEPT ![i].down = d]
      PROVE  Pooled' = Pooled
  BY <1>0, <1>2, <1>5 DEF Connection
<1>6. ASSUME NEW i \in Slots, ChannelDial(i) PROVE CounterErrsLow'
  <2>1. /\ \A j \in Slots \ {i} : conn'[j] = conn[j]
        /\ conn'[i].kind = "ctl" /\ conn[i].ends = {}
    BY <1>0, <1>6 DEF ChannelDial, Accepted, Free
  <2>2. Pooled' = Pooled
    BY <2>1 DEF Pooled, ClientOpen
  <2> QED
    BY <1>1, <1>6, <2>2 DEF ChannelDial
<1>7. ASSUME NEW i \in Slots, PoolDial(i) PROVE CounterErrsLow'
  <2>1. /\ \A j \in Slots \ {i} : conn'[j] = conn[j]
        /\ conn'[i].kind = "pool" /\ "client" \in conn'[i].ends /\ conn[i].ends = {}
    BY <1>0, <1>7 DEF PoolDial, Accepted, Free
  <2>2. /\ \A j \in Slots \ {i} : j \in Pooled' <=> j \in Pooled
        /\ i \notin Pooled /\ i \in Pooled'
    BY <2>1 DEF Pooled, ClientOpen
  <2>3. Cardinality(Pooled)' = Cardinality(Pooled) + 1
    BY <2>2, PooledChange
  <2> QED
    BY <1>0, <1>7, <1>a, <2>3 DEF PoolDial, CounterErrsLow
<1>8. ASSUME NEW i \in Slots, PoolLeave(i) PROVE CounterErrsLow'
  <2>1. /\ \A j \in Slots \ {i} : conn'[j] = conn[j]
        /\ "client" \notin conn'[i].ends
    <3>1. CASE conn' = [conn EXCEPT ![i].ends = {}]
      BY <1>0, <3>1 DEF Connection
    <3>2. CASE conn' = ClientCloses(i)
      BY <1>0, <3>2 DEF ClientCloses, Connection
    <3> QED
      BY <1>8, <3>1, <3>2 DEF PoolLeave
  <2>2. /\ \A j \in Slots \ {i} : j \in Pooled' <=> j \in Pooled
        /\ i \in Pooled /\ i \notin Pooled'
    BY <1>8, <2>1 DEF PoolLeave, Pooled, ClientOpen
  <2>3. Cardinality(Pooled)' = Cardinality(Pooled) - 1
    BY <2>2, PooledChange
  <2> QED
    BY <1>0, <1>8, <1>a, <2>3 DEF PoolLeave, CounterErrsLow
<1>9. ASSUME NEW i \in Slots, Collect(i) PROVE CounterErrsLow'
  BY <1>1, <1>3, <1>9 DEF Collect
<1>10. ASSUME NEW i \in Slots, Break(i) PROVE CounterErrsLow'
  <2>1. conn' = [conn EXCEPT ![i].link = "broken"] /\ UNCHANGED poolConnections
    BY <1>10 DEF Break
  <2>2. Pooled' = Pooled
    BY <1>0, <1>2, <2>1 DEF Connection
  <2> QED
    BY <1>1, <2>1, <2>2
<1>11. CASE ChannelRetry \/ ClientRestart
  <2>1. /\ ChannelRetry => cConn \in Slots /\ conn[cConn].kind = "ctl"
        /\ ClientRestart => cControl \in Slots /\ conn[cControl].kind = "ctl"
    BY DEF Inv, TypeOK, PhaseInv, DialerInv, Slots, ChannelRetry, ClientRestart
  <2> QED
    BY <1>1, <1>4, <1>11, <2>1 DEF ChannelRetry, ClientRestart
<1>12. CASE HandshakeDiscard \/ ServerRestart
  <2>1. /\ HandshakeDiscard => sReading \in Slots
        /\ ServerRestart => sControl \in Slots
    BY DEF Inv, TypeOK, PhaseInv, Slots, HandshakeDiscard, ServerRestart
  <2> QED
    BY <1>1, <1>3, <1>12, <2>1 DEF HandshakeDiscard, ServerRestart
<1>13. CASE HandshakeOk
  <2>1. sReading \in Slots
    BY <1>13 DEF HandshakeOk, Inv, TypeOK, Slots
  <2> QED
    BY <1>1, <1>5, <1>13, <2>1 DEF HandshakeOk
<1>14. CASE HandleLocal
  <2>1. Head(tunnelQ) \in Slots
    BY <1>14 DEF HandleLocal, Inv, TypeOK
  <2> QED
    BY <1>1, <1>3, <1>5, <1>14, <2>1 DEF HandleLocal
<1>15. CASE ClientRestarted
  <2>1. poolConnections' = 0 /\ UNCHANGED conn
    BY <1>15 DEF ClientRestarted
  <2>2. Pooled' = Pooled
    BY <2>1 DEF Pooled, ClientOpen
  <2> QED
    BY <1>a, <2>1, <2>2 DEF CounterErrsLow
<1>16. CASE UNCHANGED <<conn, poolConnections>>
  BY <1>1, <1>2, <1>16
<1>17. ASSUME NEW g \in Goroutines, ClientGoroutineEnds(g) \/ ServerGoroutineEnds(g)
       PROVE  CounterErrsLow'
  BY <1>16, <1>17 DEF ClientGoroutineEnds, ServerGoroutineEnds
<1>18. CASE ChannelEstablished \/ ClientRestartSkipped \/ HandshakeTake \/ EnqueueInbound
              \/ ServerRestartSkipped \/ ServerRestarted \/ UNCHANGED vars
  BY <1>16, <1>18 DEF ChannelEstablished, ClientRestartSkipped, HandshakeTake, EnqueueInbound,
     ServerRestartSkipped, ServerRestarted, vars
<1> QED
  BY <1>6, <1>7, <1>8, <1>9, <1>10, <1>11, <1>12, <1>13, <1>14, <1>15, <1>17, <1>18
     DEF Next, Client, Server

\* poolConnections never counts connections that are gone, over any number of
\* restarts that reset it while pooled connections are still open.
THEOREM CounterCorrect == Spec => []CounterErrsLow
<1>1. Init => DialerInv /\ CounterErrsLow
  BY PooledFinite DEF Init, DialerInv, CounterErrsLow
<1>2. Inv /\ DialerInv /\ CounterErrsLow /\ [Next]_vars => DialerInv' /\ CounterErrsLow'
  BY DialerStep, CounterStep
<1> QED
  BY <1>1, <1>2, InvAlways, PTL DEF Spec

-----------------------------------------------------------------------------
(* TcpPool.                                                                *)

\* The type invariant is not inductive alone: that poolConnections never becomes
\* negative rests on PoolCounterExact.
TypeInv == PoolTypeOK /\ PoolCounterExact

\* Every step of the data path keeps the types and the exact counter.
LEMMA TypeInvStep == TypeInv /\ [PoolNext]_poolVars => TypeInv'
<1> SUFFICES ASSUME TypeInv, [PoolNext]_poolVars PROVE TypeInv'
  OBVIOUS
<1> USE PoolAssumption DEF TypeInv, PoolTypeOK, PoolCounterExact
<1>1. CASE UNCHANGED poolVars
  BY <1>1 DEF poolVars, poolServerVars, maintVars, connVars, histVars
<1>2. ASSUME NEW l \in Listeners, AcceptLocal(l) PROVE TypeInv'
  BY <1>2 DEF AcceptLocal, poolServerVars, maintVars, connVars, histVars
<1>3. ASSUME NEW l \in Listeners, DiscardLocal(l) PROVE TypeInv'
  BY <1>3 DEF DiscardLocal, poolServerVars, maintVars, connVars, histVars
<1>4. ASSUME NEW l \in Listeners, RequestTunnel(l) PROVE TypeInv'
  BY <1>4 DEF RequestTunnel, poolServerVars, maintVars, connVars, histVars
<1>5. ASSUME NEW h \in Loops, TakeLocal(h) PROVE TypeInv'
  BY <1>5 DEF TakeLocal, poolServerVars, maintVars, connVars, histVars
<1>6. ASSUME NEW h \in Loops, ExpireLocal(h) PROVE TypeInv'
  BY <1>6 DEF ExpireLocal, poolServerVars, maintVars, connVars, histVars
<1>7. ASSUME NEW h \in Loops, AwaitTunnel(h) PROVE TypeInv'
  BY <1>7 DEF AwaitTunnel, poolServerVars, maintVars, connVars, histVars
<1>8. ASSUME NEW h \in Loops, BridgeLive(h) PROVE TypeInv'
  BY <1>8 DEF BridgeLive, poolServerVars, maintVars, connVars, histVars
<1>9. ASSUME NEW h \in Loops, SkipDead(h) PROVE TypeInv'
  BY <1>9 DEF SkipDead, poolServerVars, maintVars, connVars, histVars
<1>10. ASSUME NEW h \in Loops, BridgeDead(h) PROVE TypeInv'
  BY <1>10 DEF BridgeDead, poolServerVars, maintVars, connVars, histVars
<1>11. CASE SendRequest
  BY <1>11 DEF SendRequest, poolServerVars, maintVars, connVars, histVars
<1>12. CASE AcceptTunnel
  BY <1>12 DEF AcceptTunnel, poolServerVars, maintVars, connVars, histVars
<1>13. CASE ReadRequest
  BY <1>13 DEF ReadRequest, poolServerVars, maintVars, connVars, histVars
<1>14. CASE HandleRequest
  BY <1>14 DEF HandleRequest, poolServerVars, maintVars, connVars, histVars
<1>15. CASE FillPool
  BY <1>15 DEF FillPool, poolServerVars, maintVars, connVars, histVars
<1>16. CASE TickPool
  BY <1>16 DEF TickPool, poolServerVars, maintVars, connVars, histVars
<1>17. CASE TickLoad
  BY <1>17 DEF TickLoad, poolServerVars, maintVars, connVars, histVars, Shrinks
<1>18. CASE ReleaseOne
  BY <1>18 DEF ReleaseOne, poolServerVars, maintVars, connVars, histVars
<1>19. CASE DialOk
  BY <1>19 DEF DialOk, poolServerVars, maintVars, connVars, histVars
<1>20. CASE DialFail
  BY <1>20 DEF DialFail, poolServerVars, maintVars, connVars, histVars
<1>21. CASE RecvTarget
  BY <1>21 DEF RecvTarget, poolServerVars, maintVars, connVars, histVars
<1>22. CASE RecvClosed
  BY <1>22 DEF RecvClosed, poolServerVars, maintVars, connVars, histVars
<1>23. CASE TunnelBreaks
  BY <1>23 DEF TunnelBreaks, poolServerVars, maintVars, connVars, histVars
<1> QED
  BY <1>1, <1>2, <1>3, <1>4, <1>5, <1>6, <1>7, <1>8, <1>9, <1>10, <1>11, <1>12, <1>13,
     <1>14, <1>15, <1>16, <1>17, <1>18, <1>19, <1>20, <1>21, <1>22, <1>23 DEF PoolNext,
     Acceptor, HandleLoop, PoolMaintainer

\* The channels, counters and program counters of the data path always have
\* their types: in particular no channel is ever filled beyond its capacity,
\* and poolConnections is never negative while one control channel lives.
THEOREM TypeCorrect == PoolSpec => []PoolTypeOK
<1>1. PoolInit => TypeInv
  BY PoolAssumption DEF PoolInit, TypeInv, PoolTypeOK, PoolCounterExact
<1>2. TypeInv => PoolTypeOK
  BY DEF TypeInv
<1> QED
  BY <1>1, <1>2, TypeInvStep, PTL DEF PoolSpec

\* The client's poolConnections counts exactly the connections that wait for
\* a target, in every reachable state.
THEOREM PoolCounterCorrect == PoolSpec => []PoolCounterExact
<1>1. PoolInit => TypeInv
  BY PoolAssumption DEF PoolInit, TypeInv, PoolTypeOK, PoolCounterExact
<1>2. TypeInv => PoolCounterExact
  BY DEF TypeInv
<1> QED
  BY <1>1, <1>2, TypeInvStep, PTL DEF PoolSpec

-----------------------------------------------------------------------------
\* The goroutines counted by Waiting and Requested are finitely many.
LEMMA CountsAreNat ==
  /\ IsFiniteSet(Busy) /\ Cardinality(Busy) \in Nat
  /\ IsFiniteSet(Requesting) /\ Cardinality(Requesting) \in Nat
<1>1. IsFiniteSet(Busy) /\ IsFiniteSet(Requesting)
  BY PoolAssumption, FS_Subset DEF Busy, Requesting
<1> QED
  BY <1>1, FS_CardinalityType

\* The sums of the balance are integers.
LEMMA SumsAreInt ==
  TypeInv => Available \in Int /\ Requested \in Int /\ Waiting \in Int
             /\ ToRelease \in Int
BY CountsAreNat, PoolAssumption DEF TypeInv, PoolTypeOK, Available, Requested, Waiting,
   ToRelease

\* A handleLoop that takes a local connection is one more busy loop.
LEMMA BusyUp ==
  ASSUME TypeInv, NEW x \in Loops, loopPc[x] = "idle",
         NEW v, v # "idle", loopPc' = [loopPc EXCEPT ![x] = v]
  PROVE  Cardinality(Busy') = Cardinality(Busy) + 1
<1>1. Busy' = Busy \cup {x} /\ x \notin Busy
  BY DEF Busy, TypeInv, PoolTypeOK
<1> QED
  BY <1>1, CountsAreNat, FS_AddElement

\* A handleLoop that is done with a local connection is one busy loop less.
LEMMA BusyDown ==
  ASSUME TypeInv, NEW x \in Loops, loopPc[x] # "idle",
         loopPc' = [loopPc EXCEPT ![x] = "idle"]
  PROVE  Cardinality(Busy') = Cardinality(Busy) - 1
<1>1. Busy' = Busy \ {x} /\ x \in Busy
  BY DEF Busy, TypeInv, PoolTypeOK
<1> QED
  BY <1>1, CountsAreNat, FS_RemoveElement

\* A listener that queued a local connection owes one more request.
LEMMA RequestingUp ==
  ASSUME TypeInv, NEW x \in Listeners, accPc[x] = "accept",
         accPc' = [accPc EXCEPT ![x] = "request"]
  PROVE  Cardinality(Requesting') = Cardinality(Requesting) + 1
<1>1. Requesting' = Requesting \cup {x} /\ x \notin Requesting
  BY DEF Requesting, TypeInv, PoolTypeOK
<1> QED
  BY <1>1, CountsAreNat, FS_AddElement

\* A listener that posted its request, or lost it, owes one less.
LEMMA RequestingDown ==
  ASSUME TypeInv, NEW x \in Listeners, accPc[x] = "request",
         accPc' = [accPc EXCEPT ![x] = "accept"]
  PROVE  Cardinality(Requesting') = Cardinality(Requesting) - 1
<1>1. Requesting' = Requesting \ {x} /\ x \in Requesting
  BY DEF Requesting, TypeInv, PoolTypeOK
<1> QED
  BY <1>1, CountsAreNat, FS_RemoveElement

\* poolMaintainer never takes its target below the configured pool size.
SizeInv ==
    IF maintPc = "fill" THEN newPoolSize = 0 ELSE newPoolSize >= ConnPoolSize

\* The inductive invariant: the balance of the initial filling needs SizeInv.
BalanceInv == TypeInv /\ SizeInv /\ PoolBalance

\* No step takes the target below the configured size.
LEMMA SizeStep == TypeInv /\ SizeInv /\ [PoolNext]_poolVars => SizeInv'
<1> SUFFICES ASSUME TypeInv, SizeInv, [PoolNext]_poolVars PROVE SizeInv'
  OBVIOUS
<1> USE PoolAssumption DEF SizeInv, TypeInv, PoolTypeOK
<1>1. CASE FillPool
  BY <1>1 DEF FillPool
<1>2. CASE TickLoad
  BY <1>2 DEF TickLoad, Shrinks
<1>3. CASE ReleaseOne
  BY <1>3 DEF ReleaseOne
<1>4. CASE UNCHANGED <<maintPc, newPoolSize>>
  BY <1>4
<1>5. ASSUME NEW l \in Listeners, Acceptor(l) PROVE UNCHANGED <<maintPc, newPoolSize>>
  BY <1>5 DEF Acceptor, AcceptLocal, DiscardLocal, RequestTunnel, maintVars
<1>6. ASSUME NEW h \in Loops, HandleLoop(h) PROVE UNCHANGED <<maintPc, newPoolSize>>
  BY <1>6 DEF HandleLoop, TakeLocal, ExpireLocal, AwaitTunnel, BridgeLive, SkipDead,
              BridgeDead, maintVars
<1>7. CASE SendRequest \/ AcceptTunnel \/ ReadRequest \/ HandleRequest \/ TickPool
           \/ DialOk \/ DialFail \/ RecvTarget \/ RecvClosed \/ TunnelBreaks
  BY <1>7 DEF SendRequest, AcceptTunnel, ReadRequest, HandleRequest, TickPool, DialOk,
              DialFail, RecvTarget, RecvClosed, TunnelBreaks, maintVars
<1>8. CASE UNCHANGED poolVars
  BY <1>8 DEF poolVars, maintVars
<1> QED
  BY <1>1, <1>2, <1>3, <1>4, <1>5, <1>6, <1>7, <1>8 DEF PoolNext, PoolMaintainer

\* Every step of the data path keeps the balance of the pool.
LEMMA BalanceStep == BalanceInv /\ [PoolNext]_poolVars => BalanceInv'
<1> SUFFICES ASSUME TypeInv, SizeInv, PoolBalance, [PoolNext]_poolVars PROVE PoolBalance'
  BY TypeInvStep, SizeStep DEF BalanceInv
<1> USE PoolAssumption, CountsAreNat
<1>1. CASE UNCHANGED poolVars
  <2>1. Busy' = Busy /\ Requesting' = Requesting
    BY <1>1 DEF poolVars, poolServerVars, Busy, Requesting
  <2> QED
    BY <1>1, <2>1 DEF Available, Requested, Waiting, ToRelease, PoolBalance, poolVars,
       poolServerVars, maintVars, connVars, histVars
<1>2. ASSUME NEW l \in Listeners, AcceptLocal(l) PROVE PoolBalance'
  <2>1. Cardinality(Requesting') = Cardinality(Requesting) + 1
    BY <1>2, RequestingUp DEF AcceptLocal, TypeInv, PoolTypeOK
  <2>2. Busy' = Busy
    BY <1>2 DEF AcceptLocal, Busy, poolServerVars
  <2> QED
    BY <1>2, <2>1, <2>2 DEF AcceptLocal, Available, Requested, Waiting, ToRelease,
       PoolBalance, TypeInv, PoolTypeOK, poolServerVars, maintVars, connVars, histVars
<1>3. ASSUME NEW l \in Listeners, DiscardLocal(l) PROVE PoolBalance'
  <2>1. Requesting' = Requesting
    BY <1>3 DEF Requesting, DiscardLocal, poolServerVars, TypeInv, PoolTypeOK
  <2>2. Busy' = Busy
    BY <1>3 DEF DiscardLocal, Busy, poolServerVars
  <2> QED
    BY <1>3, <2>1, <2>2 DEF DiscardLocal, Available, Requested, Waiting, ToRelease,
       PoolBalance, TypeInv, PoolTypeOK, poolServerVars, maintVars, connVars, histVars
<1>4. ASSUME NEW l \in Listeners, RequestTunnel(l) PROVE PoolBalance'
  <2>1. Cardinality(Requesting') = Cardinality(Requesting) - 1
    BY <1>4, RequestingDown DEF RequestTunnel, TypeInv, PoolTypeOK
  <2>2. Busy' = Busy
    BY <1>4 DEF RequestTunnel, Busy, poolServerVars
  <2> QED
    BY <1>4, <2>1, <2>2 DEF RequestTunnel, Available, Requested, Waiting, ToRelease,
       PoolBalance, TypeInv, PoolTypeOK, poolServerVars, maintVars, connVars, histVars
<1>5. ASSUME NEW h \in Loops, TakeLocal(h) PROVE PoolBalance'
  <2>1. Cardinality(Busy') = Cardinality(Busy) + 1
    BY <1>5, BusyUp DEF TakeLocal, TypeInv, PoolTypeOK
  <2>2. Requesting' = Requesting
    BY <1>5 DEF TakeLocal, Requesting, poolServerVars
  <2> QED
    BY <1>5, <2>1, <2>2 DEF TakeLocal, Available, Requested, Waiting, ToRelease,
       PoolBalance, TypeInv, PoolTypeOK, poolServerVars, maintVars, connVars, histVars
<1>6. ASSUME NEW h \in Loops, ExpireLocal(h) PROVE PoolBalance'
  <2>1. Cardinality(Busy') = Cardinality(Busy) - 1
    BY <1>6, BusyDown DEF ExpireLocal, TypeInv, PoolTypeOK
  <2>2. Requesting' = Requesting
    BY <1>6 DEF ExpireLocal, Requesting, poolServerVars
  <2>3. Waiting' = Waiting - 1
    BY <1>6, <2>1 DEF ExpireLocal, Waiting, TypeInv, PoolTypeOK
  <2>4. Available' = Available /\ Requested' = Requested /\ ToRelease' = ToRelease
    BY <1>6, <2>2 DEF ExpireLocal, Available, Requested, ToRelease, poolServerVars,
       maintVars, connVars, histVars
  <2> QED
    BY <1>6, <2>3, <2>4, SumsAreInt DEF ExpireLocal, PoolBalance, TypeInv, PoolTypeOK,
       maintVars
<1>7. ASSUME NEW h \in Loops, AwaitTunnel(h) PROVE PoolBalance'
  <2>1. Busy' = Busy
    BY <1>7 DEF Busy, AwaitTunnel, poolServerVars, TypeInv, PoolTypeOK
  <2>2. Requesting' = Requesting
    BY <1>7 DEF AwaitTunnel, Requesting, poolServerVars
  <2> QED
    BY <1>7, <2>1, <2>2 DEF AwaitTunnel, Available, Requested, Waiting, ToRelease,
       PoolBalance, TypeInv, PoolTypeOK, poolServerVars, maintVars, connVars, histVars
<1>8. ASSUME NEW h \in Loops, BridgeLive(h) PROVE PoolBalance'
  <2>1. Cardinality(Busy') = Cardinality(Busy) - 1
    BY <1>8, BusyDown DEF BridgeLive, TypeInv, PoolTypeOK
  <2>2. Requesting' = Requesting
    BY <1>8 DEF BridgeLive, Requesting, poolServerVars
  <2> QED
    BY <1>8, <2>1, <2>2 DEF BridgeLive, Available, Requested, Waiting, ToRelease,
       PoolBalance, TypeInv, PoolTypeOK, poolServerVars, maintVars, connVars, histVars
<1>9. ASSUME NEW h \in Loops, SkipDead(h) PROVE PoolBalance'
  <2>1. Busy' = Busy
    BY <1>9 DEF Busy, SkipDead, poolServerVars, TypeInv, PoolTypeOK
  <2>2. Requesting' = Requesting
    BY <1>9 DEF SkipDead, Requesting, poolServerVars
  <2> QED
    BY <1>9, <2>1, <2>2 DEF SkipDead, Available, Requested, Waiting, ToRelease,
       PoolBalance, TypeInv, PoolTypeOK, poolServerVars, maintVars, connVars, histVars
<1>10. ASSUME NEW h \in Loops, BridgeDead(h) PROVE PoolBalance'
  <2>1. Cardinality(Busy') = Cardinality(Busy) - 1
    BY <1>10, BusyDown DEF BridgeDead, TypeInv, PoolTypeOK
  <2>2. Requesting' = Requesting
    BY <1>10 DEF BridgeDead, Requesting, poolServerVars
  <2>3. Waiting' = Waiting - 1
    BY <1>10, <2>1 DEF BridgeDead, Waiting, TypeInv, PoolTypeOK
  <2>4. Available' = Available /\ Requested' = Requested /\ ToRelease' = ToRelease
    BY <1>10, <2>2 DEF BridgeDead, Available, Requested, ToRelease, poolServerVars,
       maintVars, connVars, histVars
  <2> QED
    BY <1>10, <2>3, <2>4, SumsAreInt DEF BridgeDead, PoolBalance, TypeInv, PoolTypeOK,
       maintVars
<1>11. CASE SendRequest
  <2>1. Busy' = Busy /\ Requesting' = Requesting
    BY <1>11 DEF SendRequest, Busy, Requesting, poolServerVars
  <2> QED
    BY <1>11, <2>1 DEF SendRequest, Available, Requested, Waiting, ToRelease,
       PoolBalance, TypeInv, PoolTypeOK, poolServerVars, maintVars, connVars, histVars
<1>12. CASE AcceptTunnel
  <2>1. Busy' = Busy /\ Requesting' = Requesting
    BY <1>12 DEF AcceptTunnel, Busy, Requesting, poolServerVars
  <2>2. Waiting' = Waiting /\ Requested' = Requested /\ ToRelease' = ToRelease
    BY <1>12, <2>1 DEF AcceptTunnel, Waiting, Requested, ToRelease, maintVars
  <2>3. \/ Available' = Available /\ lost' = lost
        \/ Available' = Available - 1 /\ lost' = lost + 1
    BY <1>12 DEF AcceptTunnel, Available, TypeInv, PoolTypeOK
  <2> QED
    BY <1>12, <2>2, <2>3, SumsAreInt DEF AcceptTunnel, PoolBalance, TypeInv, PoolTypeOK,
       maintVars
<1>13. CASE ReadRequest
  <2>1. Busy' = Busy /\ Requesting' = Requesting
    BY <1>13 DEF ReadRequest, Busy, Requesting, poolServerVars
  <2> QED
    BY <1>13, <2>1 DEF ReadRequest, Available, Requested, Waiting, ToRelease,
       PoolBalance, TypeInv, PoolTypeOK, poolServerVars, maintVars, connVars, histVars
<1>14. CASE HandleRequest
  <2>1. Busy' = Busy /\ Requesting' = Requesting
    BY <1>14 DEF HandleRequest, Busy, Requesting, poolServerVars
  <2> QED
    BY <1>14, <2>1 DEF HandleRequest, Available, Requested, Waiting, ToRelease,
       PoolBalance, TypeInv, PoolTypeOK, poolServerVars, maintVars, connVars, histVars
<1>15. CASE FillPool
  <2>1. Busy' = Busy /\ Requesting' = Requesting
    BY <1>15 DEF FillPool, Busy, Requesting, poolServerVars
  <2> QED
    BY <1>15, <2>1 DEF FillPool, Available, Requested, Waiting, ToRelease, PoolBalance,
       TypeInv, PoolTypeOK, poolServerVars, maintVars, connVars, histVars, SizeInv
<1>16. CASE TickPool
  <2>1. Busy' = Busy /\ Requesting' = Requesting
    BY <1>16 DEF TickPool, Busy, Requesting, poolServerVars
  <2> QED
    BY <1>16, <2>1 DEF TickPool, Available, Requested, Waiting, ToRelease, PoolBalance,
       TypeInv, PoolTypeOK, poolServerVars, maintVars, connVars, histVars
<1>17. CASE TickLoad
  <2>1. Busy' = Busy /\ Requesting' = Requesting
    BY <1>17 DEF TickLoad, Busy, Requesting, poolServerVars
  <2> QED
    BY <1>17, <2>1 DEF TickLoad, Available, Requested, Waiting, ToRelease, PoolBalance,
       TypeInv, PoolTypeOK, poolServerVars, maintVars, connVars, histVars, Shrinks
<1>18. CASE ReleaseOne
  <2>1. Busy' = Busy /\ Requesting' = Requesting
    BY <1>18 DEF ReleaseOne, Busy, Requesting, poolServerVars
  <2> QED
    BY <1>18, <2>1 DEF ReleaseOne, Available, Requested, Waiting, ToRelease,
       PoolBalance, TypeInv, PoolTypeOK, poolServerVars, maintVars, connVars, histVars
<1>19. CASE DialOk
  <2>1. Busy' = Busy /\ Requesting' = Requesting
    BY <1>19 DEF DialOk, Busy, Requesting, poolServerVars
  <2> QED
    BY <1>19, <2>1 DEF DialOk, Available, Requested, Waiting, ToRelease, PoolBalance,
       TypeInv, PoolTypeOK, poolServerVars, maintVars, connVars, histVars
<1>20. CASE DialFail
  <2>1. Busy' = Busy /\ Requesting' = Requesting
    BY <1>20 DEF DialFail, Busy, Requesting, poolServerVars
  <2> QED
    BY <1>20, <2>1 DEF DialFail, Available, Requested, Waiting, ToRelease, PoolBalance,
       TypeInv, PoolTypeOK, poolServerVars, maintVars, connVars, histVars
<1>21. CASE RecvTarget
  <2>1. Busy' = Busy /\ Requesting' = Requesting
    BY <1>21 DEF RecvTarget, Busy, Requesting, poolServerVars
  <2> QED
    BY <1>21, <2>1 DEF RecvTarget, Available, Requested, Waiting, ToRelease,
       PoolBalance, TypeInv, PoolTypeOK, poolServerVars, maintVars, connVars, histVars
<1>22. CASE RecvClosed
  <2>1. Busy' = Busy /\ Requesting' = Requesting
    BY <1>22 DEF RecvClosed, Busy, Requesting, poolServerVars
  <2> QED
    BY <1>22, <2>1 DEF RecvClosed, Available, Requested, Waiting, ToRelease,
       PoolBalance, TypeInv, PoolTypeOK, poolServerVars, maintVars, connVars, histVars
<1>23. CASE TunnelBreaks
  <2>1. Busy' = Busy /\ Requesting' = Requesting
    BY <1>23 DEF TunnelBreaks, Busy, Requesting, poolServerVars
  <2> QED
    BY <1>23, <2>1 DEF TunnelBreaks, Available, Requested, Waiting, ToRelease,
       PoolBalance, TypeInv, PoolTypeOK, poolServerVars, maintVars, connVars, histVars
<1> QED
  BY <1>1, <1>2, <1>3, <1>4, <1>5, <1>6, <1>7, <1>8, <1>9, <1>10, <1>11, <1>12, <1>13,
     <1>14, <1>15, <1>16, <1>17, <1>18, <1>19, <1>20, <1>21, <1>22, <1>23 DEF PoolNext,
     Acceptor, HandleLoop, PoolMaintainer

\* The initial state is balanced.
LEMMA BalanceInit == PoolInit => BalanceInv
<1> SUFFICES ASSUME PoolInit PROVE BalanceInv
  OBVIOUS
<1>1. TypeInv
  BY PoolAssumption DEF PoolInit, TypeInv, PoolTypeOK, PoolCounterExact
<1>2. Busy = {} /\ Requesting = {}
  BY DEF PoolInit, Busy, Requesting
<1> QED
  BY <1>1, <1>2, FS_EmptySet DEF PoolInit, BalanceInv, SizeInv, Available, Requested,
     Waiting, ToRelease, PoolBalance

\* Whatever the interleaving of listeners, handle loops, control channel,
\* pool maintainer and dialers, and whatever is lost on the way, the pool is
\* exactly as large as the client's newPoolSize and the recorded losses say.
THEOREM BalanceCorrect == PoolSpec => []PoolBalance
<1>1. BalanceInv => PoolBalance
  BY DEF BalanceInv
<1> QED
  BY <1>1, BalanceInit, BalanceStep, PTL DEF PoolSpec

\* With nothing lost, a waiting local connection always has a tunnel
\* connection of its own on the way, for every pool and channel size.
THEOREM StrandedCorrect == PoolSpec => []NoLocalStranded
<1>1. BalanceInv => NoLocalStranded
  BY PoolAssumption, CountsAreNat DEF NoLocalStranded, BalanceInv, SizeInv, Available,
     Requested, Waiting, ToRelease, PoolBalance,
     TypeInv, PoolTypeOK
<1> QED
  BY <1>1, BalanceInit, BalanceStep, PTL DEF PoolSpec
==============================================================================
