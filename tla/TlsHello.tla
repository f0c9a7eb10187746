------------------------------- MODULE TlsHello -------------------------------
(* parse_tls and walk_client_hello_body (src/tls.cpp): where a TCP payload that
   begins with a ClientHello says its host name is.

   A payload is a sequence of units, read from offset 0 on.  A field of the header
   and of the ClientHello is one unit however wide it is, and a length counts the
   units behind it, so that nothing is ever cut inside a field.                *)
EXTENDS Integers, SequencesExt

CONSTANTS
    MaxPrefixRecords,   \* kMaxTlsPrefixRecords
    MaxRecordBody       \* kMaxTlsRecordBody

ASSUME TlsAssumption == {MaxPrefixRecords, MaxRecordBody} \subseteq Nat \ {0}

(* Content types, the record versions that are accepted, and the handshake type. *)
ChangeCipherSpec == 20
Handshake == 22
Versions == {3, 4}
ClientHello == 1

ServerName == 0     \* the extension, and the type of the names in it
HostName == 0
Underscore == 95    \* stands for what no host name contains

NoName == [offset |-> 0, length |-> 0]
Place(offset, length) == [offset |-> offset, length |-> length]

At(d, o) == d[o + 1]
Slice(d, o, n) == SubSeq(d, o + 1, o + n)
Have(o, n, end) == o + n <= end
FirstOf(a, b) == IF a # NoName THEN a ELSE b
IsHostname(units) == units # <<>> /\ Underscore \notin ToSet(units)

-----------------------------------------------------------------------------
(* walk_client_hello_body() *)

Walked(ok, name) == [ok |-> ok, name |-> name]
Malformed == Walked(FALSE, NoName)
Then(name, rest) == IF rest.ok THEN Walked(TRUE, FirstOf(name, rest.name)) ELSE Malformed

(* The first non-empty host name among the entries of a server name list. *)
NameList(d, from, end) ==
    LET Walk[q \in from..end] ==
          IF ~Have(q, 2, end) THEN Walked(TRUE, NoName)
          ELSE LET length == At(d, q + 1)
               IN  IF ~Have(q + 2, length, end) THEN Malformed
                   ELSE Then(IF At(d, q) = HostName /\ length > 0 THEN Place(q + 2, length)
                             ELSE NoName, Walk[q + 2 + length])
    IN  Walk[from]

ServerNames(d, at, length) ==
    IF At(d, at) > length - 1 THEN Malformed
    ELSE NameList(d, at + 1, at + 1 + At(d, at))

Extensions(d, from, end) ==
    LET Walk[p \in from..end] ==
          IF ~Have(p, 2, end) THEN Walked(TRUE, NoName)
          ELSE LET length == At(d, p + 1)
                   named == IF At(d, p) = ServerName /\ length >= 1
                            THEN ServerNames(d, p + 2, length) ELSE Walked(TRUE, NoName)
               IN  IF ~Have(p + 2, length, end) \/ ~named.ok THEN Malformed
                   ELSE Then(named.name, Walk[p + 2 + length])
    IN  Walk[from]

(* Version and random, session id, cipher suites, compression methods; and the
   extensions, unless the ClientHello ends before them.                       *)
ClientHelloBody(d) ==
    LET end == Len(d)
        suites == 2 + At(d, 1)
        methods == suites + 1 + At(d, suites)
        extensions == methods + 1 + At(d, methods)
        understood ==
            /\ Have(0, 2, end) /\ Have(suites, 1, end)
            /\ At(d, suites) >= 2 /\ At(d, suites) % 2 = 0 /\ Have(methods, 1, end)
            /\ At(d, methods) > 0 /\ Have(extensions, 0, end)
            /\ extensions < end => Have(extensions + 1, At(d, extensions), end)
    IN  CASE ~understood -> Malformed
          [] understood /\ extensions = end -> Walked(TRUE, NoName)
          [] OTHER -> Extensions(d, extensions + 1, extensions + 1 + At(d, extensions))

-----------------------------------------------------------------------------
(* parse_tls() *)

(* A ChangeCipherSpec record of one byte, in front of the handshake record. *)
IsDummy(d, o) ==
    /\ Have(o, 4, Len(d))
    /\ At(d, o) = ChangeCipherSpec /\ At(d, o + 1) \in Versions /\ At(d, o + 2) = 1

Dummies(d) ==
    CHOOSE n \in 0..Len(d) : ~IsDummy(d, 4 * n) /\ \A i \in 0..n - 1 : IsDummy(d, 4 * i)
RecordAt(d) == 4 * Dummies(d)

IsClientHello(d) ==
    LET o == RecordAt(d)
    IN  /\ Dummies(d) < MaxPrefixRecords
        /\ Have(o, 5, Len(d))
        /\ At(d, o) = Handshake /\ At(d, o + 1) \in Versions
        /\ At(d, o + 2) \in 1..MaxRecordBody
        /\ At(d, o + 3) = ClientHello

(* What there is of the ClientHello in the record and in the payload. *)
HelloEnd(d) ==
    LET o == RecordAt(d)
    IN  Min({o + 5 + At(d, o + 4), o + 3 + At(d, o + 2), Len(d)})

(* Mutant: the place of the name is counted from the body's first byte. *)
FoundUnshifted(name, start) == name

(* Offsets in the body become offsets in the payload. *)
Found(name, start) == [name EXCEPT !.offset = @ + start]

(* The name, if what there is of the body can be understood; one that cannot be
   a host name is no name.                                                    *)
Sni(d) ==
    LET start == RecordAt(d) + 5
        body == Slice(d, start, HelloEnd(d) - start)
        name == ClientHelloBody(body).name
    IN  IF /\ IsClientHello(d) /\ HelloEnd(d) > start
           /\ IsHostname(Slice(body, name.offset, name.length))
        THEN Found(name, start) ELSE NoName

-----------------------------------------------------------------------------
(* build_client_hello(): supported versions and groups, signature algorithms and
   ALPN follow the name, whose own extension comes first.  Nothing for no name.  *)
Filled(n) == [i \in 1..n |-> 0]
Vector(type, content) == <<type, Len(content)>> \o content

BuildClientHello(sni) ==
    LET list == <<HostName, Len(sni)>> \o sni
        extensions == Vector(ServerName, <<Len(list)>> \o list) \o Vector(43, Filled(5))
                        \o Vector(10, Filled(6)) \o Vector(13, Filled(10)) \o Vector(16, Filled(5))
        body == <<0, 0, 6>> \o Filled(6) \o <<1, 0, Len(extensions)>> \o extensions
    IN  IF sni = <<>> THEN <<>>
        ELSE <<Handshake, 3, Len(body) + 2, ClientHello, Len(body)>> \o body
=============================================================================
