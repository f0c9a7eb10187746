------------------------------- MODULE Engine --------------------------------
(* zc::Engine (include/zc/engine.hpp, src/engine.cpp): what is done with each
   captured packet, composed with the flow table (module FlowTable) and the TCP
   reassembly buffers (module TcpBuffer).  One action is one call of process(),
   which the single capture thread runs to its end; the capture loop's prune()
   and the passing of time come between two calls.

   The hosts whose packets are captured are modelled by the connection that uses
   each 5-tuple at the moment.  A first flight (a TLS ClientHello in TCP segments,
   or one in the CRYPTO frames of QUIC Initials) has HelloLen units; a packet
   carries the units first..last of it.                                       *)
EXTENDS TcpBuffer, FiniteSets, Functions

CONSTANTS
    TcpKeys, UdpKeys,   \* the flow identities, by protocol
    Names,              \* the host names that occur
    NoHost,             \* the empty host name
    ExcludedHosts,      \* the names RuleSet::excluded(host) is true of
    ExcludedAddresses,  \* the flows whose destination address is excluded
    RuleStrategy,       \* RuleSet::match: the strategy of the rule chosen for a
                        \* host ("" included) and a flow, or NoRule
    NoRule,
    GlobalStrategy,     \* config_.global_strategy
    AllHosts,           \* config_.scope == Scope::all_hosts
    ActWithoutSni,      \* config_.act_without_sni
    EnableHttp,         \* config_.enable_http
    KeepHellos,         \* config_.sni_wait_bytes > 0
    Capacity, Ttl,      \* the flow table's parameters
    StreamBudget,       \* FlowTable::stream_budget_, in units
    BudgetShares,       \* the 64 the budget is divided by
    MinPerFlow,         \* the 1024 bytes a flow gets at least, in units
    HelloLen,           \* bound: units of a first flight
    ControlCaptured,    \* whether the WinDivert filter delivers a bare SYN, FIN or RST:
                        \* {FALSE} for the filter build_filter() makes, {TRUE} for one
                        \* given by --filter that asks for all, BOOLEAN for any filter
    MaxTime, MaxTouches,\* bounds of the flow table
    MaxConnections      \* bound: connections opened on one 5-tuple

Keys == TcpKeys \cup UdpKeys
Hosts == Names \cup {NoHost}
TcpStrategy == "split"      \* stands for the nine strategies made for TCP
Strategies == {"pass", "quic_fake", TcpStrategy}

ASSUME KeysAssumption == TcpKeys \cap UdpKeys = {}
ASSUME NamesAssumption == NoHost \notin Names /\ ExcludedHosts \subseteq Names
ASSUME RulesAssumption ==
    /\ NoRule \notin Strategies
    /\ RuleStrategy \in [Hosts \X Keys -> Strategies \cup {NoRule}]
    /\ GlobalStrategy \in Strategies
    /\ ExcludedAddresses \subseteq Keys
ASSUME ConfigAssumption ==
    /\ {AllHosts, ActWithoutSni, EnableHttp, KeepHellos} \subseteq BOOLEAN
    /\ ControlCaptured \in SUBSET BOOLEAN \ {{}}
ASSUME SizeAssumption ==
    /\ StreamBudget \in Nat /\ BudgetShares \in Nat \ {0} /\ MinPerFlow \in Nat
    /\ HelloLen \in Nat \ {0} /\ MaxConnections \in Nat \ {0}
    /\ HelloLen <= SeqSpace     \* a first flight does not wrap onto itself

VARIABLES
    table, flowStats, clock, forgotten, \* the flow table (module FlowTable)
    flow,       \* what a FlowEntry holds besides its timestamps
    conn,       \* environment: the connection now using each 5-tuple
    heard,      \* history: the units of the first flight its entry was shown
    applied,    \* history: how many of the connection's packets were replaced
    losses,     \* history: how often the connection lost its entry
    inherited,  \* history: whether its entry was acted upon for an earlier connection
    out         \* history: what process() last returned, and for which packet

envVars == <<conn, heard, applied, losses, inherited>>
vars == <<table, flowStats, clock, forgotten, flow, envVars, out>>

Flows == INSTANCE FlowTable WITH stats <- flowStats, ClockStepsBack <- FALSE

-----------------------------------------------------------------------------
(* The environment *)

Units == 1..HelloLen
Apps == {"tls", "http", "quic"}

(* A connection: what it speaks, to which host (NoHost if its ClientHello names
   none), and its place among the connections of its 5-tuple.                *)
Connection == [app : Apps, name : Hosts, id : 1..MaxConnections]
AppsOf(k) == IF k \in UdpKeys THEN {"quic"} ELSE {"tls", "http"}

(* Packets with a payload: a piece of the first flight, a complete HTTP request,
   or anything else (later data, a QUIC packet that is no Initial or does not
   authenticate).                                                            *)
Packet ==
    [kind : {"hello"}, first : Units, last : Units] \cup
    [kind : {"http", "other"}, first : {0}, last : {0}]

MaySend(k) ==
    {p \in Packet : /\ p.first <= p.last
                    /\ p.kind = "hello" => conn[k].app \in {"tls", "quic"}
                    /\ p.kind = "http" => conn[k].app = "http"}

(* Connections of one 5-tuple number their bytes from unrelated origins. *)
InitialSequence(c) == (c.id - 1) * (SeqSpace \div MaxConnections)
Sequence(c, p) == Plus(InitialSequence(c), p.first - 1)

Bytes(c, p) == [i \in 1..p.last - p.first + 1 |-> <<c.name, p.first + i - 1>>]

-----------------------------------------------------------------------------
(* Flow entries *)

NewFlow == [desynced |-> FALSE, host |-> NoHost, tcp_stream |-> EmptyBuffer,
            dcid |-> 0, crypto |-> {}]

(* The reassembly budget a new entry is given. *)
PerFlow ==
    IF StreamBudget = 0 THEN 0
    ELSE IF StreamBudget \div BudgetShares > MinPerFlow
         THEN StreamBudget \div BudgetShares ELSE MinPerFlow

-----------------------------------------------------------------------------
(* Classification *)

(* parse_tls: bytes that start with the record and handshake header are a
   ClientHello; the name is reported only when all of it is there.           *)
IsHello(bytes) == bytes # <<>> /\ bytes[1][2] = 1
SniIn(bytes) ==
    IF IsHello(bytes) /\ Len(bytes) >= HelloLen /\ bytes[HelloLen][2] = HelloLen
    THEN bytes[1][1] ELSE NoHost

(* What a TCP packet's own payload shows. *)
OwnBytes(c, p) == IF p.kind = "hello" THEN Bytes(c, p) ELSE <<>>
HttpHost(c, p) == IF p.kind = "http" /\ EnableHttp THEN c.name ELSE NoHost

(* The reassembly buffer after a TCP packet: a readable ClientHello is kept only
   if nothing was kept before, an unreadable one is appended, an HTTP request
   empties the buffer, anything else does not touch it.                      *)
StreamAfter(f, c, p) ==
    LET bytes == OwnBytes(c, p)
        pushed == Pushed(f.tcp_stream, PerFlow, Sequence(c, p), bytes)
    IN  IF SniIn(bytes) # NoHost
        THEN IF KeepHellos /\ ~f.tcp_stream.started THEN pushed ELSE f.tcp_stream
        ELSE IF HttpHost(c, p) # NoHost THEN EmptyBuffer
        ELSE IF IsHello(bytes) /\ KeepHellos THEN pushed
        ELSE f.tcp_stream

(* The name reassembly recovers for a ClientHello that does not show its own. *)
ReassembledHost(f, c, p) ==
    LET bytes == OwnBytes(c, p)
    IN  IF IsHello(bytes) /\ SniIn(bytes) = NoHost /\ KeepHellos
        THEN SniIn(StreamAfter(f, c, p).storage) ELSE NoHost

FirstKnown(a, b) == IF a # NoHost THEN a ELSE b

(* decide_tcp up to its policy: the host the packet is attributed to, and the
   entry it leaves behind.                                                   *)
TcpHost(f, c, p) ==
    FirstKnown(FirstKnown(SniIn(OwnBytes(c, p)),
                          FirstKnown(HttpHost(c, p), ReassembledHost(f, c, p))),
               f.host)

TcpFlow(f, c, p) ==
    [f EXCEPT !.tcp_stream = StreamAfter(f, c, p),
              !.host = FirstKnown(ReassembledHost(f, c, p),
                                  FirstKnown(f.host, TcpHost(f, c, p)))]

(* CryptoStream: frames of another connection (or a Retry) invalidate what was
   collected; the name is read when new bytes arrive and none is missing.    *)
Collected(f, c) == IF f.dcid \in {0, c.id} THEN f.crypto ELSE {}

(* Mutant: a CRYPTO frame beyond a gap is thrown away. *)
CryptoInOrder(f, c, p) ==
    Collected(f, c) \cup {u \in p.first..p.last : 1..p.first - 1 \subseteq Collected(f, c)}

CryptoAfter(f, c, p) == Collected(f, c) \cup p.first..p.last

QuicSni(f, c, p) ==
    IF CryptoAfter(f, c, p) # Collected(f, c) /\ Units \subseteq CryptoAfter(f, c, p)
    THEN c.name ELSE NoHost

(* decide_udp up to its policy.  Only an Initial that authenticates is read. *)
UdpHost(f, c, p) == FirstKnown(QuicSni(f, c, p), f.host)

UdpFlow(f, c, p) ==
    [f EXCEPT !.dcid = c.id, !.crypto = CryptoAfter(f, c, p),
              !.host = FirstKnown(@, UdpHost(f, c, p))]

-----------------------------------------------------------------------------
(* Policy *)

(* Mutant: only addresses are excluded. *)
ExcludedByAddress(k, host) == k \in ExcludedAddresses

Excluded(k, host) == k \in ExcludedAddresses \/ host \in ExcludedHosts

Rule(k, host) == RuleStrategy[host, k]
Matched(k, host) == Rule(k, host) # NoRule
Chosen(k, host) == IF Matched(k, host) THEN Rule(k, host) ELSE GlobalStrategy

(* Mutant: the scope is not asked for. *)
PermittedAnywhere(k, host) ==
    Matched(k, host) \/ (k \in TcpKeys => host # NoHost \/ ActWithoutSni)

(* Without a rule, --all-hosts lets the global strategy through; decide_tcp
   alone also wants a host name or --act-without-sni.                        *)
Permitted(k, host) ==
    \/ Matched(k, host)
    \/ AllHosts /\ (k \in TcpKeys => host # NoHost \/ ActWithoutSni)

(* A QUIC strategy on TCP passes; on UDP every strategy becomes the QUIC decoy. *)
Applicable(k, strategy) ==
    strategy # "pass" /\ (k \in TcpKeys => strategy # "quic_fake")

Replaces(k, host) ==
    /\ ~Excluded(k, host)
    /\ Permitted(k, host)
    /\ Applicable(k, Chosen(k, host))

(* decide_tcp and decide_udp return the updated entry, the host, and whether
   the packet is to be replaced.                                             *)
Decision(k, f, c, p) ==
    IF k \in UdpKeys /\ p.kind # "hello"
    THEN [flow |-> f, host |-> NoHost, replace |-> FALSE]
    ELSE LET host == IF k \in TcpKeys THEN TcpHost(f, c, p) ELSE UdpHost(f, c, p)
             after == IF k \in TcpKeys THEN TcpFlow(f, c, p) ELSE UdpFlow(f, c, p)
         IN  [flow |-> after, host |-> host, replace |-> Replaces(k, host)]

-----------------------------------------------------------------------------
(* process() *)

NoOutput == [key |-> "none", host |-> NoHost, replace |-> FALSE, whole |-> FALSE,
             first |-> FALSE, inherited |-> FALSE]

Init ==
    /\ Flows!Init
    /\ flow = <<>>
    /\ conn \in [Keys -> Connection]
    /\ \A k \in Keys : conn[k].id = 1 /\ conn[k].app \in AppsOf(k)
    /\ heard = [k \in Keys |-> {}]
    /\ applied = [k \in Keys |-> 0]
    /\ losses = [k \in Keys |-> 0]
    /\ inherited = [k \in Keys |-> FALSE]
    /\ out = NoOutput

(* Entries leave the table with what they hold. *)
KeepOthers(k) == [x \in DOMAIN table' \ {k} |-> flow[x]]

Lost == DOMAIN table \ DOMAIN table'
RecordLosses ==
    /\ losses' = [k \in Keys |-> losses[k] + (IF k \in Lost THEN 1 ELSE 0)]
    /\ inherited' = [k \in Keys |-> inherited[k] /\ k \notin Lost]

(* A SYN, FIN or RST without payload. *)
ProcessControl(k) ==
    /\ TRUE \in ControlCaptured
    /\ k \in TcpKeys
    /\ Flows!Forget(k)
    /\ flow' = KeepOthers(k)
    /\ out' = NoOutput
    /\ heard' = [heard EXCEPT ![k] = {}]
    /\ RecordLosses
    /\ UNCHANGED <<conn, applied>>

InOrder(k, p) ==
    \A v \in 1..p.first - 1 : k \in DOMAIN table /\ v \in heard[k]

(* What the entry has been shown of the first flight, in order for TCP. *)
HeardWith(k, p) ==
    {u \in Units : \/ u \in heard[k] /\ k \in DOMAIN table
                   \/ u \in p.first..p.last /\ (k \in UdpKeys \/ InOrder(k, p))}

Whole(p) == p.kind = "http" \/ (p.kind = "hello" /\ p.first..p.last = Units)

(* Mutants: a replaced flow is not marked, or one that was passed is. *)
Unmarked(d) == d.flow
MarkedAlways(d) == [d.flow EXCEPT !.desynced = TRUE]

(* A flow that was acted upon is marked as handled. *)
Marked(d) == [d.flow EXCEPT !.desynced = @ \/ d.replace]

(* A packet with a payload: one touch of its flow, and one decision. *)
ProcessData(k, p) ==
    LET c == conn[k]
        f == IF k \in DOMAIN table THEN flow[k] ELSE NewFlow
        d == IF f.desynced THEN [flow |-> f, host |-> NoHost, replace |-> FALSE]
             ELSE Decision(k, f, c, p)
    IN  /\ p \in MaySend(k)
        /\ Flows!TouchHit(k) \/ Flows!TouchMiss(k)
        /\ flow' = [x \in DOMAIN table' |->
                        IF x = k THEN Marked(d) ELSE flow[x]]
        /\ out' = [key |-> k, host |-> d.host, replace |-> d.replace,
                   whole |-> Whole(p), first |-> applied[k] = 0,
                   inherited |-> inherited[k]]
        /\ heard' = [heard EXCEPT ![k] = HeardWith(k, p)]
        /\ applied' = [applied EXCEPT ![k] = @ + (IF d.replace THEN 1 ELSE 0)]
        /\ RecordLosses
        /\ UNCHANGED conn

(* Inbound packets, packets that do not parse and bare ACKs touch no state. *)
ProcessIgnored ==
    /\ out' = NoOutput
    /\ UNCHANGED <<table, flowStats, clock, forgotten, flow, envVars>>

(* Between two packets: the capture loop prunes, time passes, ... *)
Prune ==
    /\ Flows!Prune
    /\ flow' = Restrict(flow, DOMAIN table')
    /\ RecordLosses
    /\ UNCHANGED <<conn, heard, applied, out>>

Advance ==
    /\ Flows!Advance
    /\ UNCHANGED <<flow, envVars, out>>

(* ... and a 5-tuple is used again, by a new connection.  The SYN that opens a
   TCP connection reaches process() only if the filter lets it.              *)
SynForgets(k, seen) ==
    IF seen
    THEN Flows!Forget(k) /\ flow' = KeepOthers(k)
    ELSE UNCHANGED <<table, flowStats, clock, forgotten, flow>>

Reconnect(k, app, name) ==
    /\ conn[k].id < MaxConnections
    /\ app \in AppsOf(k)
    /\ conn' = [conn EXCEPT ![k] = [app |-> app, name |-> name, id |-> @.id + 1]]
    /\ \E seen \in ControlCaptured : SynForgets(k, seen /\ k \in TcpKeys)
    /\ heard' = [heard EXCEPT ![k] = {}]
    /\ applied' = [applied EXCEPT ![k] = 0]
    /\ losses' = [losses EXCEPT ![k] = 0]
    /\ inherited' = [inherited EXCEPT ![k] = k \in DOMAIN table' /\ flow[k].desynced]
    /\ out' = NoOutput

Next ==
    \/ \E k \in Keys : ProcessControl(k)
    \/ \E k \in Keys, p \in Packet : ProcessData(k, p)
    \/ ProcessIgnored
    \/ Prune
    \/ Advance
    \/ \E k \in Keys, app \in Apps, name \in Hosts : Reconnect(k, app, name)

Spec == Init /\ [][Next]_vars

-----------------------------------------------------------------------------
(* Properties *)

(* "A one-shot desync is applied at most once per flow, no matter how often the
   ClientHello is retransmitted" (src/engine.cpp:314-315), for as long as the
   table remembers the flow: every further replacement within a connection is
   paid for by an entry that was evicted, expired or forgotten.              *)
OncePerRememberedFlow == \A k \in Keys : applied[k] <= 1 + losses[k]

(* "--exclude=FILE: never touch domains listed here" (src/cli.cpp:607): no
   packet of a connection to an excluded host is replaced, whatever name the
   entry remembers from another connection on the same 5-tuple.  It is stated
   for rules that ask for a name and without ActWithoutSni, so that nothing is
   replaced while the host is unknown: what is not known cannot be excluded.  *)
ExcludedNeverTouched ==
    out.replace => conn[out.key].name \notin ExcludedHosts

(* In the default scope traffic is touched only when a rule matches it: a rule
   for the host the connection really talks to, or one for its address alone. *)
TouchedByItsOwnRule ==
    out.replace /\ ~AllHosts =>
        Matched(out.key, conn[out.key].name) \/ Matched(out.key, NoHost)

Classified(k) ==
    heard[k] = Units /\ k \in DOMAIN table /\ conn[k].name # NoHost =>
        flow[k].host # NoHost \/ flow[k].desynced

(* A QUIC ClientHello spread over several Initials is read once all its parts
   have arrived, in any order and however often.                             *)
QuicHelloClassified == \A k \in UdpKeys : Classified(k)

(* "Feed the bounded reassembly buffer so that a ClientHello split across
   segments can still be classified on a later segment" (src/engine.cpp:85-86):
   once an entry has been shown all of a ClientHello in order, and its buffer
   can hold it, the host is known.                                           *)
SplitHelloClassified ==
    KeepHellos /\ PerFlow >= HelloLen =>
        \A k \in TcpKeys : conn[k].app = "tls" => Classified(k)

(* The packet shows the name of its connection whole, none of the connection was
   replaced before, and the rules ask for it to be.                           *)
Wanted ==
    /\ out.key \in TcpKeys /\ out.whole /\ out.first
    /\ conn[out.key].name # NoHost
    /\ Replaces(out.key, conn[out.key].name)

(* A TCP connection to a host whose rule applies is handled at the first packet
   that shows its name whole, also where an earlier connection used its 5-tuple:
   when that one ended its entry is gone, as "FIN/RST can forget a flow"
   (AUDIT.md:31).                                                             *)
NewConnectionHandled == Wanted => out.replace

(* Whatever the filter delivers, nothing else than the mark of an earlier connection
   keeps it from being handled: neither what the entry remembers of that one's
   host and bytes, nor anything the connection itself sent before.            *)
HandledUnlessInherited == Wanted /\ ~out.inherited => out.replace
=============================================================================
