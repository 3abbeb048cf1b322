------------------------------- MODULE Gateway -------------------------------
(***************************************************************************)
(* One connection of a gateway: gateway.go (SNI) and http_gateway.go (Host *)
(* header) of internal/server/transport, which read the start of the       *)
(* connection under a deadline (sni.go, http_preread.go), look up a route  *)
(* and the server's runtime (registry.go) and hand the connection over     *)
(* with the bytes they read put in front again (prefixed_conn.go).         *)
(*                                                                         *)
(* The client's bytes arrive piece by piece and may stop at any point; the *)
(* runtime of the route loses and regains its control channel meanwhile.   *)
(***************************************************************************)
EXTENDS Preread

CONSTANTS
    SniInputs, HttpInputs, \* what clients send: [stream, expect, exact]
    Routed,                \* the hosts config.Routes of each gateway has
    Chunk,                 \* prereadChunkSize
    CopyBuffer,            \* what the copying of the handed connection reads
    MaxHeader,             \* max_header_bytes
    MaxHello,              \* maxClientHelloSize
    MaxFlaps               \* how often the runtime's ready changes

ASSUME GatewayAssumption ==
    /\ Chunk \in Nat \ {0} /\ CopyBuffer \in Nat \ {0}
    /\ MaxHeader \in Nat /\ MaxHello \in Nat /\ MaxFlaps \in Nat
    /\ \A i \in SniInputs : i.stream \in Seq(Nat)
    /\ \A i \in HttpInputs : i.stream \in Seq(STRING)
    /\ \A k \in {"sni", "http"} : \A h \in Routed[k] : h \notin {<<"undecided">>, <<"refused">>}

VARIABLES
    kind,      \* which gateway: "sni" or "http"
    input,     \* what the client sends, and what it should be routed by
    arrived,   \* tokens that have reached the gateway's socket
    eof,       \* the client has closed its side
    got,       \* tokens read from the socket
    handshake, \* the handshake message put together from the records
    deadline,  \* a read deadline is set on the connection
    pc,        \* "read", "route", "enqueue", "handed", "done", "cut", "closed"
    verdict,   \* what the inspection came to: "none", "host", "reject", "io"
    host,      \* the normalized host
    prefix,    \* PrefixedConn: what is still to be replayed
    out,       \* what the runtime has read from the connection
    ready,     \* IsReady of the routed runtime
    flaps      \* changes of ready so far

vars == <<kind, input, arrived, eof, got, handshake, deadline, pc, verdict,
          host, prefix, out, ready, flaps>>
client == <<kind, input, arrived, eof>>
runtime == <<ready, flaps>>

stream == input.stream
Buf == SubSeq(stream, 1, got)

Init ==
    /\ \/ kind = "sni" /\ input \in SniInputs
       \/ kind = "http" /\ input \in HttpInputs
    /\ arrived = 0 /\ eof = FALSE /\ got = 0 /\ handshake = <<>>
    /\ deadline = TRUE
    /\ pc = "read" /\ verdict = "none" /\ host = Reject
    /\ prefix = <<>> /\ out = <<>>
    /\ ready \in BOOLEAN /\ flaps = 0

-----------------------------------------------------------------------------
(* The client and the runtime.                                             *)

Arrive ==
    /\ ~eof /\ arrived < Len(stream)
    /\ arrived' = arrived + 1
    /\ UNCHANGED <<kind, input, eof, got, handshake, deadline, pc, verdict,
                   host, prefix, out, runtime>>

ClientCloses ==
    /\ ~eof
    /\ eof' = TRUE
    /\ UNCHANGED <<kind, input, arrived, got, handshake, deadline, pc, verdict,
                   host, prefix, out, runtime>>

\* The runtime's control channel comes up or is lost.
Flap ==
    /\ flaps < MaxFlaps
    /\ ready' = ~ready
    /\ flaps' = flaps + 1
    /\ UNCHANGED <<client, got, handshake, deadline, pc, verdict, host, prefix, out>>

-----------------------------------------------------------------------------
(* The inspection.                                                         *)

\* Mutant: the inspected connection keeps the deadline of its inspection.
InspectedArmed(results) ==
    \/ results = {} /\ UNCHANGED <<verdict, host, pc, deadline>>
    \/ \E result \in results :
          /\ verdict' = IF result = Reject THEN "reject" ELSE "host"
          /\ host' = result
          /\ pc' = IF result = Reject THEN "closed" ELSE "route"
          /\ UNCHANGED deadline

\* Without a result the loop reads on.  A result ends the inspection, and the
\* deferred SetReadDeadline(time.Time{}) runs; handleConn closes at an error.
Inspected(results) ==
    \/ results = {} /\ UNCHANGED <<verdict, host, pc, deadline>>
    \/ \E result \in results :
          /\ verdict' = IF result = Reject THEN "reject" ELSE "host"
          /\ host' = result
          /\ pc' = IF result = Reject THEN "closed" ELSE "route"
          /\ deadline' = FALSE

\* readRecord's tests of the header, which come before the body is read.
BadRecord(type, len) ==
    \/ type # Handshake
    \/ len = 0
    \/ got + 2 + len > MaxHello

\* What ReadTLSClientHelloSNI makes of the handshake bytes it has so far.
Assembled(hs) ==
    IF Len(hs) < 2 THEN {}
    ELSE IF hs[1] # ClientHello \/ hs[2] > MaxHello THEN {Reject}
    ELSE IF Len(hs) < 2 + hs[2] THEN {}
    ELSE {NormalizeSNIHost(ParseSNIFromClientHello(SubSeq(hs, 3, 2 + hs[2])))}

\* readRecord: io.ReadFull of the header, then of the body.
ReadRecord ==
    /\ kind = "sni" /\ pc = "read" /\ arrived - got >= 2
    /\ LET type == stream[got + 1]
           len == stream[got + 2]
       IN \/ /\ BadRecord(type, len)
             /\ Inspected({Reject})
             /\ UNCHANGED <<got, handshake>>
          \/ /\ ~BadRecord(type, len)
             /\ arrived - got >= 2 + len
             /\ got' = got + 2 + len
             /\ \E hs \in {handshake \o SubSeq(stream, got + 3, got + 2 + len)} :
                   handshake' = hs /\ Inspected(Assembled(hs))
    /\ UNCHANGED <<client, prefix, out, runtime>>

\* What ReadHTTPHost makes of the bytes it has so far.
Scanned(buf) ==
    LET lineEnd == IndexOf(buf, CRLF)
        idx == IndexOf(buf, HeaderTerminator)
        headerEnd == idx + Len(HeaderTerminator) - 1
    IN IF \/ ObviouslyNonHTTP(buf)
          \/ lineEnd > 0 /\ ~ValidRequestLine(SubSeq(buf, 1, lineEnd - 1))
       THEN {Reject}
       ELSE IF idx > 0
       THEN {IF headerEnd > MaxHeader THEN Reject
             ELSE ParseHTTPHostFromHeader(SubSeq(buf, 1, headerEnd))}
       ELSE IF Len(buf) > MaxHeader THEN {Reject} ELSE {}

\* The same for every start of every input, so that TLC evaluates it once.
ScannedUpTo ==
    [s \in {i.stream : i \in HttpInputs} |->
        [n \in 0..Len(s) |-> Scanned(SubSeq(s, 1, n))]]

\* One conn.Read of ReadHTTPHost takes what is there, up to a chunk.
ReadChunk ==
    /\ kind = "http" /\ pc = "read" /\ arrived > got
    /\ \E n \in {IF arrived - got > Chunk THEN Chunk ELSE arrived - got} :
          got' = got + n /\ Inspected(ScannedUpTo[stream][got + n])
    /\ UNCHANGED <<client, handshake, prefix, out, runtime>>

\* The read fails because the client has closed and no more can be read.
Starved ==
    IF kind = "http" THEN arrived = got
    ELSE \/ arrived - got < 2
         \/ /\ ~BadRecord(stream[got + 1], stream[got + 2])
            /\ arrived - got < 2 + stream[got + 2]

\* The read fails, at the client's end or at the deadline; handleConn closes.
ReadFails ==
    /\ pc = "read" /\ Starved
    /\ eof \/ deadline
    /\ verdict' = "io" /\ pc' = "closed" /\ deadline' = FALSE
    /\ UNCHANGED <<client, got, handshake, host, prefix, out, runtime>>

-----------------------------------------------------------------------------
(* Routing.                                                                *)

\* handleConn: the route, the registered runtime and its IsReady, and the
\* wrapped connection.
HandleConn ==
    /\ pc = "route"
    /\ \/ /\ host \in Routed[kind] /\ ready
          /\ pc' = "enqueue"
          /\ prefix' = Buf
       \/ /\ ~(host \in Routed[kind] /\ ready)
          /\ pc' = "closed"
          /\ UNCHANGED prefix
    /\ UNCHANGED <<client, got, handshake, deadline, verdict, host, out, runtime>>

\* EnqueueInbound looks at ready again and may find its channel full.
EnqueueInbound ==
    /\ pc = "enqueue"
    /\ \/ ready /\ pc' = "handed"
       \/ pc' = "closed"
    /\ UNCHANGED <<client, got, handshake, deadline, verdict, host, prefix, out, runtime>>

-----------------------------------------------------------------------------
(* The handed connection.                                                  *)

\* Mutant: Read goes on with the socket once part of the prefix is out.
ReadReplayedOnce ==
    /\ pc = "handed" /\ prefix # <<>>
    /\ LET n == IF Len(prefix) > CopyBuffer THEN CopyBuffer ELSE Len(prefix)
       IN /\ out' = out \o SubSeq(prefix, 1, n)
          /\ prefix' = <<>>
    /\ UNCHANGED <<client, got, handshake, deadline, pc, verdict, host, runtime>>

\* PrefixedConn.Read while it has a prefix.
ReadReplayed ==
    /\ pc = "handed" /\ prefix # <<>>
    /\ LET n == IF Len(prefix) > CopyBuffer THEN CopyBuffer ELSE Len(prefix)
       IN /\ out' = out \o SubSeq(prefix, 1, n)
          /\ prefix' = SubSeq(prefix, n + 1, Len(prefix))
    /\ UNCHANGED <<client, got, handshake, deadline, pc, verdict, host, runtime>>

\* PrefixedConn.Read when the prefix is used up.
ReadThrough ==
    /\ pc = "handed" /\ prefix = <<>> /\ arrived > got
    /\ LET n == IF arrived - got > CopyBuffer THEN CopyBuffer ELSE arrived - got
       IN /\ out' = out \o SubSeq(stream, got + 1, got + n)
          /\ got' = got + n
    /\ UNCHANGED <<client, handshake, deadline, pc, verdict, host, prefix, runtime>>

\* The copying ends with the client, or at a deadline that is still set.
CopyEnds ==
    /\ pc = "handed" /\ prefix = <<>> /\ arrived = got
    /\ eof \/ deadline
    /\ pc' = IF eof THEN "done" ELSE "cut"
    /\ UNCHANGED <<client, got, handshake, deadline, verdict, host, prefix, out, runtime>>

\* The goroutine that handles the connection, and the copying after it.
Handling ==
    \/ ReadRecord \/ ReadChunk \/ ReadFails
    \/ HandleConn \/ EnqueueInbound
    \/ ReadReplayed \/ ReadThrough \/ CopyEnds

Next == Arrive \/ ClientCloses \/ Flap \/ Handling

\* The goroutine of the connection keeps running and its deadline passes;
\* nothing makes the client send or close, or the runtime ready.
Fairness == WF_vars(Handling)

Spec == Init /\ [][Next]_vars /\ Fairness

-----------------------------------------------------------------------------
(* Properties.                                                             *)

\* An accepted name of a ClientHello whose lengths do not fit is still a piece
\* of it that stands behind its own length.
Inside(name) ==
    \E i \in 3..Len(handshake) :
        /\ i + handshake[i - 1] - 1 <= Len(handshake)
        /\ name = NormalizeSNIHost(SubSeq(handshake, i, i + handshake[i - 1] - 1))

\* However the client's bytes are cut into records, segments and chunks, and
\* whatever follows the header, the gateway routes by the host the client
\* named, and refuses as malformed only what names no single host
\* (ReadTLSClientHelloSNI, ReadHTTPHost and their parsers).
RoutedByContent ==
    /\ verdict = "host" => IF input.exact THEN host = input.expect ELSE Inside(host)
    /\ verdict = "reject" /\ input.exact => input.expect = Reject

\* The runtime reads exactly what the client sent, in order: the inspected bytes
\* once, with those read ahead of the header's end, then the rest (PrefixedConn).
ReplayedExactly ==
    /\ out = SubSeq(stream, 1, Len(out))
    /\ pc = "handed" => Len(out) + Len(prefix) = got

\* The connection as client and runtime see it: what has arrived, what was read
\* and where it went.
Undecided == <<"undecided">>
Refused == <<"refused">>
Arrived == SubSeq(stream, 1, arrived)
Destination ==
    CASE pc = "closed" -> Refused
      [] pc \in {"handed", "done", "cut"} -> host
      [] OTHER -> Undecided

Relayed == INSTANCE Relay WITH sent <- Arrived, heard <- out, dest <- Destination

\* The gateway keeps Relay's promise: one destination, decided once and before
\* anything is delivered; every byte once and in order; a decision also for a
\* client that sends nothing or half a header; and all that arrives is delivered,
\* so the deadline of the inspection is gone from a connection handed over.
IsRelay == Relayed!Spec
=============================================================================
