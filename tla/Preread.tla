------------------------------- MODULE Preread -------------------------------
(***************************************************************************)
(* What the two gateways read from a connection before they route it:      *)
(* internal/server/transport/sni.go and http_preread.go, as operators.     *)
(*                                                                         *)
(* A connection is a sequence of tokens.  In a TLS stream a token is a     *)
(* number: a byte, a two- or three-byte length, or the fixed part of the   *)
(* ClientHello; all lengths count tokens.  In an HTTP stream a token is a  *)
(* field of the request line, a header line without its end, CR, LF, or a  *)
(* piece of the body.                                                      *)
(***************************************************************************)
EXTENDS Integers, Sequences, FiniteSets, FiniteSetsExt

\* The outcome of an inspection: a normalized host, or Reject for any error.
Reject == <<>>

-----------------------------------------------------------------------------
(* TLS.                                                                    *)

Handshake == 22   \* tlsRecordTypeHandshake
ClientHello == 1  \* tlsHandshakeClientHello

\* Reading behind the end would be a panic; the parser must not depend on it.
At(b, i) == IF i \in DOMAIN b THEN b[i] ELSE 0

\* parseServerNameExtension: the first host_name of the list.
ParseServerNameExtension(b) ==
    LET end == IF 1 + At(b, 1) > Len(b) THEN Len(b) ELSE 1 + At(b, 1)
        Name[pos \in 1..Len(b) + 3] ==
            IF pos + 1 > end THEN Reject
            ELSE IF pos + 1 + b[pos + 1] > end THEN Reject
            ELSE IF b[pos] = 0 THEN SubSeq(b, pos + 2, pos + 1 + b[pos + 1])
            ELSE Name[pos + 2 + b[pos + 1]]
    IN IF b = <<>> THEN Reject ELSE Name[2]

\* The extensions of a ClientHello, from position pos to end.
ParseExtensions(b, start, end) ==
    LET Extension[pos \in 1..Len(b) + 3] ==
            IF pos + 1 > end THEN Reject
            ELSE IF pos + 1 + b[pos + 1] > end THEN Reject
            ELSE IF b[pos] = 0
                 THEN ParseServerNameExtension(SubSeq(b, pos + 2, pos + 1 + b[pos + 1]))
            ELSE Extension[pos + 2 + b[pos + 1]]
    IN Extension[start]

\* parseSNIFromClientHello: session id, cipher suites and compression methods
\* are skipped by their lengths.
ParseSNIFromClientHello(b) ==
    LET sid == 2
        suites == sid + 1 + At(b, sid)
        methods == suites + 1 + At(b, suites)
        total == methods + 1 + At(b, methods)
        end == total + At(b, total)
    IN IF Len(b) < 1 \/ Len(b) < sid \/ Len(b) < suites \/ Len(b) < methods
          \/ Len(b) < total
       THEN Reject
       ELSE ParseExtensions(b, total + 1, IF end > Len(b) THEN Len(b) ELSE end)

\* A host is made of small letters, of which 11 is also written as the capital
\* 12, and the root label's dot 46.  NormalizeSNIHost lowercases and strips one
\* final dot.
NormalizeSNIHost(name) ==
    LET lower == [i \in DOMAIN name |-> IF name[i] = 12 THEN 11 ELSE name[i]]
    IN IF lower # <<>> /\ lower[Len(lower)] = 46
       THEN SubSeq(lower, 1, Len(lower) - 1)
       ELSE lower

-----------------------------------------------------------------------------
(* HTTP.                                                                   *)

CRLF == <<"CR", "LF">>
HeaderTerminator == CRLF \o CRLF

\* bytes.Index, counting from 1; 0 if there is none.
IndexOf(s, pattern) ==
    LET found == {i \in 1..Len(s) - Len(pattern) + 1 :
                     SubSeq(s, i, i + Len(pattern) - 1) = pattern}
    IN IF found = {} THEN 0 ELSE Min(found)

\* rejectObviousNonHTTPPrefix: TLS content types and control bytes.
ObviouslyNonHTTP(buf) == buf # <<>> /\ buf[1] \in {"tls", "CR", "LF"}

\* validateRequestLineBytes: METHOD SP TARGET SP HTTP/1.x, and no more.
ValidRequestLine(line) ==
    LET first == IndexOf(line, <<"SP">>)
        rest == SubSeq(line, first + 1, Len(line))
        second == IndexOf(rest, <<"SP">>)
    IN /\ first > 1
       /\ second > 1
       /\ SubSeq(rest, second + 1, Len(rest)) = <<"HTTP/1">>

\* Header lines, and the hosts they normalize to: NormalizeHTTPHost trims,
\* lowercases and strips a port and a final dot.
HostLines == {"Host: a", "HOST:A.:80", "Host: b", "Host:"}
NormalizeHTTPHost(line) ==
    CASE line \in {"Host: a", "HOST:A.:80"} -> <<"a">>
      [] line = "Host: b" -> <<"b">>
      [] line = "Host:" -> Reject

\* Mutant: the first Host line counts, whatever follows.
ParseHTTPHostFirst(b) ==
    LET lineEnd == IndexOf(b, CRLF)
        hosts == {i \in lineEnd + 2..Len(b) : b[i] \in HostLines}
    IN IF lineEnd > 1 /\ ValidRequestLine(SubSeq(b, 1, lineEnd - 1)) /\ hosts # {}
       THEN NormalizeHTTPHost(b[Min(hosts)])
       ELSE Reject

\* parseHTTPHostFromHeader: exactly one Host line, and a host in it.
ParseHTTPHostFromHeader(b) ==
    LET lineEnd == IndexOf(b, CRLF)
        hosts == {i \in lineEnd + 2..Len(b) : b[i] \in HostLines}
    IN IF /\ lineEnd > 1
          /\ ValidRequestLine(SubSeq(b, 1, lineEnd - 1))
          /\ Cardinality(hosts) = 1
       THEN NormalizeHTTPHost(b[Min(hosts)])
       ELSE Reject
=============================================================================
