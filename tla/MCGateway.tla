------------------------------ MODULE MCGateway ------------------------------
(***************************************************************************)
(* Connections for Gateway: ClientHellos and HTTP requests are built from  *)
(* their parts, so that the host they name is known without the parsers.   *)
(***************************************************************************)
EXTENDS Gateway, SequencesExt

-----------------------------------------------------------------------------
(* ClientHellos.                                                           *)

A == <<11, 13>>
ADotted == <<12, 13, 46>>  \* the same host, with a capital and a final dot
B == <<14>>

\* One entry of a server name list: a host_name or a name of another type.
Name(type, name) == <<type, Len(name)>> \o name
ServerName(names) ==
    LET list == FlattenSeq(names) IN <<0, 1 + Len(list), Len(list)>> \o list
Other == <<5, 1, 0>>  \* an extension that is skipped

Hello(sid, exts) ==
    LET e == FlattenSeq(exts)
        body == <<99, Len(sid)>> \o sid \o <<1, 7, 1, 0, Len(e)>> \o e
    IN <<ClientHello, Len(body)>> \o body

\* The handshake in one record, or cut into two behind its k-th token.
Record(tokens) == <<Handshake, Len(tokens)>> \o tokens
Records(hs, k) ==
    IF k = 0 THEN Record(hs)
    ELSE Record(SubSeq(hs, 1, k)) \o Record(SubSeq(hs, k + 1, Len(hs)))

Sni(s, named, exact) == [stream |-> s, expect |-> named, exact |-> exact]

GoodExts ==
    { [exts |-> <<ServerName(<<Name(0, A)>>)>>, host |-> A],
      [exts |-> <<Other, ServerName(<<Name(1, B), Name(0, ADotted)>>)>>, host |-> A],
      [exts |-> <<ServerName(<<Name(0, B), Name(0, A)>>), Other>>, host |-> B],
      [exts |-> <<ServerName(<<Name(0, <<>>)>>)>>, host |-> Reject],
      [exts |-> <<Other>>, host |-> Reject] }

MCSniGood ==
    { Sni(Records(Hello(sid, g.exts), k) \o rest, g.host, TRUE) :
          sid \in {<<>>, <<22>>}, g \in GoodExts, k \in {0, 1, 6}, rest \in {<<>>, <<23>>} }

\* One length inside the hello of one name is off by one.
MCSniBad ==
    LET hs == Hello(<<22>>, <<ServerName(<<Name(0, A)>>)>>)
    IN { Sni(Record([hs EXCEPT ![i] = @ + d]), Reject, FALSE) :
             i \in {4, 6, 8, 10, 12, 13, 15}, d \in {-1, 1} }
       \cup { Sni(Record(hs \o <<0>>), A, TRUE), Sni(<<21>> \o Tail(Record(hs)), Reject, TRUE),
              Sni(<<Handshake, 0>>, Reject, TRUE), Sni(Record(<<2>> \o Tail(hs)), Reject, TRUE) }

MCSniInputs == MCSniGood \cup MCSniBad

-----------------------------------------------------------------------------
(* HTTP requests.                                                          *)

GoodLine == <<"M", "SP", "T", "SP", "HTTP/1">>
BadLines == { <<"M", "SP", "T", "SP", "HTTP/2">>, <<"M", "SP", "SP", "HTTP/1">>,
              GoodLine \o <<"SP">>, <<"SP">> \o GoodLine, <<"M">>, <<"tls">> }
Headers == { <<>>, <<"Host: a">>, <<"HOST:A.:80">>, <<"X", "Host: b">>, <<"Host:">>,
             <<"Host: a", "Host: b">>, <<"Host: a", "X", "X">> }
Bodies == { <<>>, <<"Host: b", "CR", "LF">> }

Request(line, headers, body) ==
    line \o CRLF \o FlattenSeq([i \in DOMAIN headers |-> <<headers[i]>> \o CRLF])
         \o CRLF \o body

\* The host a request names, from its parts.
HostOf(headers) ==
    LET hosts == SelectSeq(headers, LAMBDA l : l \in HostLines)
    IN IF Len(hosts) = 1 THEN NormalizeHTTPHost(hosts[1]) ELSE Reject

Fits(headers) == Len(GoodLine) + 4 + 3 * Len(headers) <= MaxHeader

MCHttpInputs ==
    { [stream |-> Request(GoodLine, h, b),
       expect |-> IF Fits(h) THEN HostOf(h) ELSE Reject, exact |-> TRUE] :
          h \in Headers, b \in Bodies }
    \cup { [stream |-> Request(l, <<"Host: a">>, <<>>), expect |-> Reject, exact |-> TRUE] :
               l \in BadLines }

MCRouted == [sni |-> {A}, http |-> {<<"a">>}]
=============================================================================
