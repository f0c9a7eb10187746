----------------------------- MODULE HttpRequest ------------------------------
(* parse_http (src/http.cpp): the Host of a request whose header block is whole.
   A word, a separator and each letter or digit of a host is one unit of the
   payload; words are compared without regard to case.                        *)
EXTENDS TlsHello

CONSTANT MaxHeader  \* kMaxHttpHeaderBytes

ASSUME HttpAssumption == MaxHeader \in Nat \ {0}

Method == 101       \* one of kMethods
Http1 == 102        \* HTTP/1.0 or HTTP/1.1
HostWord == 103     \* the word "host"
Letter == 104
Digit == 105
Space == 32         \* or a tab
Colon == 58
Cr == 13
Lf == 10

EndsLine == {Cr, Lf}

(* The first offset from o on with one of these units, or the end. *)
Find(d, o, units) ==
    LET found == {i \in o..Len(d) - 1 : At(d, i) \in units}
    IN  IF found = {} THEN Len(d) ELSE Min(found)

(* A line ends with LF or CR LF; 0 if it does not end here. *)
LineEnd(d, p) ==
    CASE Have(p, 2, Len(d)) /\ Slice(d, p, 2) = <<Cr, Lf>> -> p + 2
      [] Have(p, 1, Len(d)) /\ At(d, p) = Lf -> p + 1
      [] OTHER -> 0

(* The value of a header line without the spaces around it. *)
Trimmed(d, from, to) ==
    LET inner == {i \in from..to - 1 : At(d, i) # Space}
    IN  IF inner = {} THEN Place(to, 0) ELSE Place(Min(inner), Max(inner) + 1 - Min(inner))

(* split_authority: a host name, and perhaps a port.  Addresses are left out. *)
IsAuthority(units) ==
    LET end == Find(units, 0, {Colon})
        port == SubSeq(units, end + 2, Len(units))
    IN  /\ ToSet(SubSeq(units, 1, end)) \subseteq {Letter, Digit} /\ end > 0
        /\ ToSet(port) \subseteq {Digit} /\ Len(port) <= 5

-----------------------------------------------------------------------------
(* parse_http() *)

(* The end of the request line, or 0 for what is no request. *)
RequestLine(d) ==
    LET target == Find(d, 2, {Space} \cup EndsLine)
        version == Find(d, target + 1, EndsLine)
    IN  IF /\ Have(0, 3, Len(d)) /\ Slice(d, 0, 2) = <<Method, Space>>
           /\ target > 2 /\ target < Len(d) /\ At(d, target) = Space
           /\ Slice(d, target + 1, version - target - 1) = <<Http1>>
        THEN LineEnd(d, version) ELSE 0

(* Mutant: whatever ends in the word is taken for the header field. *)
IsHostFieldSuffix(d, p, colon) == colon > p /\ At(d, colon - 1) = HostWord

IsHostField(d, p, colon) == Slice(d, p, colon - p) = <<HostWord>>

(* The first Host field of a header block that ends with an empty line; later ones
   are ignored, even where the first is no authority.                         *)
HostField(d, from) ==
    LET Walk[p \in from..Len(d)] ==
          LET colon == Find(d, p, {Colon} \cup EndsLine)
              end == Find(d, colon + 1, EndsLine)
          IN  IF p = Len(d) \/ p > MaxHeader THEN Malformed
              ELSE IF LineEnd(d, p) > 0 THEN Walked(TRUE, NoName)
              ELSE IF colon = Len(d) \/ At(d, colon) # Colon \/ LineEnd(d, end) = 0
              THEN Malformed
              ELSE IF IsHostField(d, p, colon)
              THEN Then(Trimmed(d, colon + 1, end), Walk[LineEnd(d, end)])
              ELSE Walk[LineEnd(d, end)]
    IN  Walk[from]

HttpHost(d) ==
    LET field == IF RequestLine(d) > 0 THEN HostField(d, RequestLine(d)).name ELSE NoName
    IN  IF IsAuthority(Slice(d, field.offset, field.length)) THEN field ELSE NoName
=============================================================================
