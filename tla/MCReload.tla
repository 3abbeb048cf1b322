------------------------------ MODULE MCReload -------------------------------
(***************************************************************************)
(* Small configurations on two ports, and port mappings at the ends of     *)
(* their ranges.  All transports that are started here listen on TCP, so   *)
(* that equal ports collide.                                               *)
(***************************************************************************)
EXTENDS Reload

At(host, port) == [host |-> host, port |-> port]
Port(lo) == [form |-> "port", lo |-> lo, hi |-> 0, host |-> AllHosts, parts |-> 1]
Addr(host, lo) == [form |-> "addr", lo |-> lo, hi |-> 0, host |-> host, parts |-> 2]
Server(name, transport, bind, ports) ==
    [name |-> name, transport |-> transport, bind |-> bind, ports |-> ports]
RouteTo(name, spelling, server) ==
    [host |-> [name |-> name, spelling |-> spelling], server |-> server, target |-> "80"]
Gateway(kind, listen, header, routes) ==
    [kind |-> kind, listen |-> listen, action |-> "reject", header |-> header, routes |-> routes]
Make(servers, gateways, auto) ==
    [servers |-> servers, gateways |-> gateways, clients |-> <<>>, auto |-> auto]

\* Sound ones: a server with a port, and one behind a gateway with a timer.
Plain == Make(<<Server("A", "tcp", At(AllHosts, 1), <<Port(2)>>)>>, <<>>, 0)
Behind == Make(<<Server("A", "tcp", At("h1", 2), <<>>)>>,
               <<Gateway("http", At(AllHosts, 1), 128, <<RouteTo("x", 1, "A"), RouteTo("y", 1, "A")>>)>>, 60)
OnlyClients == [Make(<<>>, <<>>, 0) EXCEPT !.clients = <<[remote |-> FALSE], [remote |-> TRUE]>>]

Idle == [Make(<<>>, <<>>, 0) EXCEPT !.clients = <<[remote |-> FALSE]>>]

\* An address that is hidden by an overlap within server A and then missed.
Hidden == Make(<<Server("A", "tcp", At("h1", 1), <<Port(1)>>),
                 Server("B", "ws", At("h2", 1), <<Port(2)>>)>>, <<>>, 0)
\* The verdict depends on the order of a map: A or B is met first.  The port of B
\* is one that the validator takes and the server does not.
Unstable == Make(<<Server("B", "ws", At("h2", 1), <<[Port(65535) EXCEPT !.parts = 2]>>),
                   Server("A", "tcp", At("h1", 1), <<Port(1)>>)>>, <<>>, 0)
\* Rejected: a gateway on the port of a server, or a route to a udp server.
Clash == Make(<<Server("A", "tcp", At(AllHosts, 1), <<Addr("h1", 2)>>)>>,
              <<Gateway("sni", At(AllHosts, 2), 0, <<RouteTo("x", 1, "A")>>)>>, 0)
ToUdp == Make(<<Server("A", "udp", At(AllHosts, 1), <<>>)>>,
              <<Gateway("sni", At(AllHosts, 2), 0, <<RouteTo("x", 1, "A")>>)>>, 0)
\* What files hold in the runs.
SoundFiles == [plain |-> Plain, behind |-> Behind]
AllFiles == [plain |-> Plain, behind |-> Behind, clients |-> OnlyClients, idle |-> Idle,
             hidden |-> Hidden, unstable |-> Unstable, clash |-> Clash, toudp |-> ToUdp]

Edges == {0, 1, 2, 65534, 65535, 65536}
EdgeMappings == [form : MappingForms, lo : Edges, hi : {0, 1, 3, 65535},
                 host : {AllHosts, "h1"}, parts : 1..3]
=============================================================================
