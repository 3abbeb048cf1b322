------------------------------- MODULE Config --------------------------------
(***************************************************************************)
(* What cmd/validate.go makes of a configuration file, and what the        *)
(* transports and gateways later make of the same file.                    *)
(*                                                                         *)
(* Texts are records of what their parsers find in them.  A port mapping   *)
(* has the form "port", "range" or "addr", the numbers lo and hi, a host,  *)
(* and parts - 1 equals signs.  An address is [host, port]; AllHosts is    *)
(* the host of all interfaces.  A name in a route keeps its spelling apart,*)
(* so that two spellings of one name normalize to the same name.           *)
(*                                                                         *)
(* A configuration is [servers, gateways, clients, auto]: sequences of     *)
(* servers [name, transport, bind, ports], of gateways (SNI before HTTP)   *)
(* [kind, listen, action, header, routes], header being max_header_bytes,  *)
(* of clients [remote], and auto_restart_interval in minutes.  Addresses   *)
(* are well formed.                                                        *)
(***************************************************************************)
EXTENDS Integers, Sequences

AllHosts == "0.0.0.0"
NoText == ""
MinAutoRestartInterval == 1
MaxPort == 65535

Elements(s) == {s[i] : i \in DOMAIN s}

Addresses == [host : STRING, port : Nat]
MappingForms == {"port", "range", "addr"}

\* Two listeners cannot both have these addresses.
Overlap(a, b) == a.port = b.port /\ (a.host = AllHosts \/ b.host = AllHosts \/ a.host = b.host)

-----------------------------------------------------------------------------
(* Port mappings.                                                          *)

ValidPort(p) == p \in 1..MaxPort

Wildcards(lo, hi) == {[host |-> AllHosts, port |-> p] : p \in lo..hi}

\* portMappingListenAddrs: the validator's reading; {} stands for an error.
PortMappingListenAddrs(m) ==
    CASE m.form = "range" /\ ValidPort(m.lo) /\ ValidPort(m.hi) /\ m.lo <= m.hi ->
            Wildcards(m.lo, m.hi)
      [] m.form = "addr" /\ ValidPort(m.lo) -> {[host |-> m.host, port |-> m.lo]}
      [] m.form = "port" /\ ValidPort(m.lo) -> Wildcards(m.lo, m.lo)
      [] OTHER -> {}

\* Mutant: the end of a range is not one of its ports.
ParsePortMappingsShort(m) ==
    IF m.parts > 2 THEN {} ELSE
    CASE m.form = "range" -> IF ValidPort(m.lo) /\ ValidPort(m.hi) /\ m.lo <= m.hi
                             THEN Wildcards(m.lo, m.hi - 1) ELSE {}
      [] m.form = "port" -> IF \/ m.parts = 1 /\ ValidPort(m.lo)
                               \/ m.parts = 2 /\ m.lo > 1 /\ m.lo < MaxPort
                            THEN Wildcards(m.lo, m.lo) ELSE {}
      [] m.form = "addr" -> IF m.parts = 2 /\ m.lo \in 0..MaxPort
                            THEN {[host |-> m.host, port |-> m.lo]} ELSE {}

\* parsePortMappings: the reading of the tcp, tcpmux, ws, wsmux and udp servers.
\* {} stands for Fatalf, at once or from net.Listen on what is no address.
ParsePortMappings(m) ==
    IF m.parts > 2 THEN {} ELSE
    CASE m.form = "range" -> IF ValidPort(m.lo) /\ ValidPort(m.hi) /\ m.lo <= m.hi
                             THEN Wildcards(m.lo, m.hi) ELSE {}
      [] m.form = "port" -> IF \/ m.parts = 1 /\ ValidPort(m.lo)
                               \/ m.parts = 2 /\ m.lo > 1 /\ m.lo < MaxPort
                            THEN Wildcards(m.lo, m.lo) ELSE {}
      [] m.form = "addr" -> IF m.parts = 2 /\ m.lo \in 0..MaxPort
                            THEN {[host |-> m.host, port |-> m.lo]} ELSE {}

\* portConfigReader: the reading of the quic server.
PortConfigReader(m) ==
    CASE m.form = "port" -> IF m.lo \in 0..MaxPort THEN Wildcards(m.lo, m.lo) ELSE {}
      [] m.form = "addr" -> IF m.parts >= 2 /\ m.lo \in 0..MaxPort
                            THEN {[host |-> m.host, port |-> m.lo]} ELSE {}
      [] OTHER -> {}

Opened(transport, m) ==
    IF transport = "quic" THEN PortConfigReader(m) ELSE ParsePortMappings(m)

-----------------------------------------------------------------------------
(* validateConfig.                                                         *)

\* The listeners of a server, bind_addr before its ports, and of the gateways.
ServerListeners(s) ==
    <<[owner |-> s.name, kind |-> "bind", addrs |-> {s.bind}]>> \o
    [i \in DOMAIN s.ports |->
        [owner |-> s.name, kind |-> "port", addrs |-> PortMappingListenAddrs(s.ports[i])]]

GatewayListeners(cfg) ==
    [i \in DOMAIN cfg.gateways |->
        [owner |-> "gateway", kind |-> "gateway", addrs |-> {cfg.gateways[i].listen}]]

\* Mutant: only equal addresses are taken to overlap.
ExistingEqual(table, a) == {e.owner : e \in {e \in table : e.addr = a}}

\* Owners of what is registered already and overlaps; the code meets one of them,
\* and which one is up to the order of a Go map.
Existing(table, a) == {e.owner : e \in {e \in table : Overlap(e.addr, a)}}

\* register, for all addresses of listener l: the tables that may come of it, none
\* if it is rejected for certain.  An overlap within one server is let pass, and
\* the address is then not registered.
Register(table, l) ==
    IF \A a \in l.addrs : \/ Existing(table, a) = {}
                          \/ l.kind # "gateway" /\ l.owner \in Existing(table, a)
    THEN {table \cup {[owner |-> l.owner, addr |-> a] :
                         a \in {a \in l.addrs : Existing(table, a) = {}}}}
    ELSE {}

\* Whether register may reject l.
MayReject(table, l) ==
    \/ l.addrs = {}
    \/ \E a \in l.addrs : IF l.kind = "gateway" THEN Existing(table, a) # {}
                          ELSE Existing(table, a) \ {l.owner} # {}

\* The loops of validateListeners.  A result is what is registered when a loop has
\* come to an end, as a set with at most one element, and whether it may have come
\* to an end before.
RegisterOne(r, l) ==
    [tables |-> IF l.addrs = {} THEN {} ELSE UNION {Register(t, l) : t \in r.tables},
     reject |-> r.reject \/ \E t \in r.tables : MayReject(t, l)]

RegisterAll(r, ls) ==
    LET after[k \in 0..Len(ls)] == IF k = 0 THEN r ELSE RegisterOne(after[k - 1], ls[k])
    IN  after[Len(ls)]

\* validateListeners: the listeners of each server, then those of the gateways.
ValidateListeners(cfg) ==
    LET after[k \in 0..Len(cfg.servers)] ==
            IF k = 0 THEN [tables |-> {{}}, reject |-> FALSE]
            ELSE RegisterAll(after[k - 1], ServerListeners(cfg.servers[k]))
    IN  RegisterAll(after[Len(cfg.servers)], GatewayListeners(cfg))

ServerNames(cfg) == {cfg.servers[i].name : i \in DOMAIN cfg.servers}

ValidNames(cfg) ==
    /\ NoText \notin ServerNames(cfg)
    /\ \A i, j \in DOMAIN cfg.servers :
          cfg.servers[i].name = cfg.servers[j].name => i = j

\* validateGateways, for one gateway.
ValidGateway(cfg, g) ==
    /\ g.action = "reject"
    /\ \A r \in Elements(g.routes) :
          /\ r.host.name # NoText /\ r.target # NoText
          /\ \E s \in Elements(cfg.servers) : s.name = r.server /\ s.transport # "udp"
    /\ \A i, j \in DOMAIN g.routes : g.routes[i].host.name = g.routes[j].host.name => i = j

\* validateHTTPGateways: the same, and the bounds of max_header_bytes.
ValidHTTPGateway(cfg, g) == ValidGateway(cfg, g) /\ g.header \in 128..2^20

Referenced(cfg) ==
    {r.server : r \in UNION {Elements(g.routes) : g \in Elements(cfg.gateways)}}

\* parseOptionalDuration for auto_restart_interval.
ValidAuto(auto) == auto = 0 \/ auto >= MinAutoRestartInterval

\* validateConfig: the verdicts that can come of a configuration.
ValidateConfig(cfg) ==
    LET sound == /\ ValidAuto(cfg.auto) /\ ValidNames(cfg)
                 /\ \A g \in Elements(cfg.gateways) :
                       IF g.kind = "http" THEN ValidHTTPGateway(cfg, g) ELSE ValidGateway(cfg, g)
        open  == \A s \in Elements(cfg.servers) :
                    s.ports # <<>> \/ s.name \in Referenced(cfg)
        listeners == ValidateListeners(cfg)
    IN  {v \in BOOLEAN :
           IF v THEN sound /\ open /\ listeners.tables # {}
           ELSE ~sound \/ ~open \/ listeners.reject}

-----------------------------------------------------------------------------
(* Properties of an accepted configuration.                                *)

\* Two listeners of one server overlap, which the validator leaves to the runtime.
SelfOverlap(cfg) ==
    \E s \in Elements(cfg.servers) :
        \E p, q \in DOMAIN ServerListeners(s) :
            /\ p < q
            /\ \E a \in ServerListeners(s)[p].addrs, b \in ServerListeners(s)[q].addrs :
                  Overlap(a, b)

\* The mappings that the validator accepts and a server cannot open: an address
\* without a remote part, two equals signs, ports 1 and 65535 with a remote part,
\* and ranges of a quic server.
Misread(transport, m) ==
    IF transport = "quic" THEN m.form = "range" \/ (m.form = "addr" /\ m.parts = 1)
    ELSE \/ m.parts > 2
         \/ m.form = "addr" /\ m.parts = 1
         \/ m.form = "port" /\ m.parts = 2 /\ m.lo \in {1, MaxPort}

\* For every mapping the validator accepts, a server opens exactly the addresses
\* that were checked for conflicts, but for the forms of Misread, which end the
\* process when the server comes to open them.
MappingsAgree(transports, mappings) ==
    \A t \in transports, m \in mappings :
        PortMappingListenAddrs(m) # {} =>
            Opened(t, m) = IF Misread(t, m) THEN {} ELSE PortMappingListenAddrs(m)

\* Every route leads to a server that NewServer gives an inbound runtime, and so
\* to an entry of the registry.
RoutesResolve(cfg) ==
    \A n \in Referenced(cfg) :
        \E s \in Elements(cfg.servers) : s.name = n /\ s.transport # "udp"
=============================================================================
