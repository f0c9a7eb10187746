----------------------------- MODULE MCPayloads ------------------------------
(* The TCP payloads of the small instances: what clients send, with the place of
   the name in it, every way it may be cut short, and every unit of it damaged. *)
EXTENDS HttpRequest

TheName == <<Letter, Digit, Letter>>
OtherName == <<Digit, Digit>>

PlaceOf(units) ==
    LET found == {i \in 0..Len(units) - 3 : Slice(units, i, 3) = TheName}
    IN  IF found = {} THEN NoName ELSE Place(Min(found), 3)

Payload(units, host) == [units |-> units, host |-> host, altered |-> FALSE]
Plain(n) == Payload([i \in 1..n |-> 7], NoName)

-----------------------------------------------------------------------------
(* ClientHellos *)

Entry(type, name) == <<type, Len(name)>> \o name
ServerNameOf(entries) == <<ServerName, Len(entries) + 1, Len(entries)>> \o entries
Group == <<51, 2, 0, 0>>

Hello(session, extensions) ==
    <<7, Len(session)>> \o session \o <<2, 0, 0, 1, 0, Len(extensions)>> \o extensions
Record(body) == <<Handshake, 3, Len(body) + 2, ClientHello, Len(body)>> \o body
Dummy == <<ChangeCipherSpec, 3, 1, 1>>

Named == ServerNameOf(Entry(HostName, TheName))
TheHello == LET units == Record(Hello(<<>>, Named)) IN Payload(units, PlaceOf(units))
HelloStart == Payload(SubSeq(TheHello.units, 1, 5), NoName)

Hellos ==
    {TheHello.units, Dummy \o TheHello.units, Record(Hello(<<0, 1>>, Group \o Named)),
     Record(Hello(<<>>, Named \o Group)),
     Record(Hello(<<>>, ServerNameOf(Entry(1, OtherName) \o Entry(HostName, TheName)))),
     Record(Hello(<<>>, ServerNameOf(Entry(HostName, TheName) \o Entry(HostName, OtherName)))),
     Record(Hello(<<>>, ServerNameOf(Entry(HostName, <<>>) \o Entry(HostName, TheName)))),
     Record(Hello(<<>>, Named \o ServerNameOf(Entry(HostName, OtherName)))),
     BuildClientHello(TheName)}

(* No name, no extensions, a name that is none, too many records, one too large,
   two records.                                                               *)
NamelessHellos ==
    {Record(Hello(<<>>, Group)), Record(<<7, 0, 2, 0, 0, 1, 0>>),
     Record(Hello(<<>>, ServerNameOf(Entry(HostName, <<Letter, Underscore>>)))),
     Record(Hello(<<>>, ServerNameOf(Entry(HostName, <<Letter, Underscore>>)
                                        \o Entry(HostName, TheName)))),
     Dummy \o Dummy \o TheHello.units, Record(Hello(Filled(50), Named)),
     LET body == Hello(<<>>, Named)
     IN  <<Handshake, 3, 6, ClientHello, Len(body)>> \o SubSeq(body, 1, 4)
            \o <<Handshake, 3, Len(body) - 4>> \o SubSeq(body, 5, Len(body))}

-----------------------------------------------------------------------------
(* Requests *)

Request(lines, end) ==
    <<Method, Space, Letter, Space, Http1>> \o end \o FlattenSeq([i \in DOMAIN lines |-> lines[i] \o end])
        \o end
Crlf == <<Cr, Lf>>
HostLine == <<HostWord, Colon, Space>> \o TheName
Mention == <<Letter, Colon, Space, HostWord, Colon>> \o OtherName
TheRequest == LET units == Request(<<HostLine>>, Crlf) IN Payload(units, PlaceOf(units))

Requests ==
    {TheRequest.units, Request(<<HostLine>>, <<Lf>>),
     Request(<<Mention, HostLine>>, <<Lf>>),
     Request(<<HostLine, <<HostWord, Colon>> \o OtherName>>, <<Lf>>),
     Request(<<<<HostWord, Space, Colon>> \o OtherName, HostLine \o <<Space>>>>, Crlf)}

(* No host, one that is no host name, a second one behind such a one, another field
   that ends in the word, and a header block that is too long.               *)
NamelessRequests ==
    {Request(<<Mention>>, Crlf), Request(<<<<HostWord, Colon, Underscore>>>>, <<Lf>>),
     Request(<<<<HostWord, Colon>>, HostLine>>, <<Lf>>),
     Request(<<<<Letter, HostWord, Colon>> \o OtherName>>, <<Lf>>),
     Request(<<HostLine, Mention, Mention, Mention, Mention>>, <<Lf>>)}

(* A port belongs to the place of the host, and may be longer than its name. *)
PortedRequest(port) ==
    LET units == Request(<<HostLine \o <<Colon>> \o port>>, Crlf)
    IN  Payload(units, [PlaceOf(units) EXCEPT !.length = 4 + Len(port)])
ShortPort == PortedRequest(<<Digit>>)
LongPort == PortedRequest(<<Digit, Digit, Digit>>)

-----------------------------------------------------------------------------
Whole ==
    {Payload(units, PlaceOf(units)) : units \in Hellos \cup Requests}
        \cup {Payload(units \o <<7>>, PlaceOf(units)) : units \in {TheHello.units, TheRequest.units}}
        \cup {Payload(units, NoName) : units \in NamelessHellos \cup NamelessRequests}
        \cup {ShortPort, LongPort}

CutShort ==
    UNION {{Payload(SubSeq(units, 1, n), NoName) : n \in 1..Len(units) - 1} :
            units \in Hellos \cup Requests}

Altered(units, at, values) ==
    {[units |-> [units EXCEPT ![i] = u, ![k] = v], host |-> NoName, altered |-> TRUE] :
        i \in at, k \in at, u \in values, v \in values}

(* One unit of every message, and any two of a ClientHello. *)
Damaged ==
    UNION {UNION {Altered(units, {i}, {u}) :
                i \in DOMAIN units,
                u \in {0, 1, 2, 3, 6, 16, Cr, Lf, Colon, Space, HostWord, Letter}} :
            units \in Hellos \cup Requests}
        \cup Altered(TheHello.units, DOMAIN TheHello.units, {0, 1, 4})
==============================================================================
