# zapret-cpp in TLA+

TLA+ models of zapret-cpp, the packet filter in this repository that rewrites
the first packets of outgoing TLS, HTTP and QUIC connections, with TLC
configurations that check the models on small instances and TLAPS proofs that most
of the properties checked hold for every value of the constants. Source paths below
are relative to the repository's root.

Run a model with `tlc -workers 2 -config <cfg> <module>` and a proof with
`tlapm <module>Proofs.tla`, inside this directory. `PROJECT.json` lists the runs,
the source lines of each definition, a mutant for each property that is checked,
the hazards the properties are for, and the theorems.

## The system

| component | files | state | operations |
|---|---|---|---|
| capture loop | `src/app/main.cpp` | the packet in `buffer`, error count, `last_prune`, counters | receive, process, send or rescue, prune |
| WinDivert handle | `src/win/windivert.cpp` | the driver's handle and queue | `receive`, `send`, `close`, `shutdown_receive` (no caller) |
| stop request | `src/win/sysinfo.cpp`, `src/log.cpp` | `g_stop`, the stop handler | `console_handler`, `request_stop`, `stopping` |
| engine | `src/engine.cpp` | configuration; a `FlowEntry` per flow | `process`, `decide_tcp`, `decide_udp` |
| flow table | `src/flow.cpp` | `table_`, `stats_`, capacity, TTL | `touch`, `prune`, `forget`, `clear` |
| TCP stream buffer | `src/flow.cpp` | `storage_`, `next_sequence_`, `started_`, `truncated_` | `push`, `reset` |
| QUIC CRYPTO stream | `src/quic.cpp` | `data_`, `present_`, `end_offset_`, `complete_`, DCID | `adopt_connection`, `add_frames`, `client_hello_sni` |
| QUIC packets | `src/quic.cpp` | the flow's largest packet number | `parse_quic`, `decrypt_quic_initial`, `reconstruct_packet_number` |
| rule set | `src/rules.cpp` | `rules_`, the compiled index, exclude lists, problems | `load_file`, `load_text`, `load_exclude_file`, `compile`, `match`, `excluded` |
| strategies | `src/strategy.cpp` | none | `transform_tcp`, `transform_udp` |
| TLS, HTTP and packet parsers | `src/tls.cpp`, `src/http.cpp`, `src/packet.cpp` | none | `parse_tls`, `parse_http`, `parse_packet`, `fixup_packet` |
| configuration | `src/cli.cpp` | `Options` | `apply_setting`, `load_config_file`, `parse_command_line`, `build_filter` |
| start of the program | `src/app/main.cpp` | the rule set being loaded, the load result | `load_configuration`, `run_check`, the start of `main` |
| logging, statistics, checksums, cryptography | `src/log.cpp`, `src/stats.cpp`, `src/csum.cpp`, `src/crypto.cpp` | levels, counters | output and arithmetic |

One thread runs the capture loop. It receives a packet the filter selected, asks
the engine about it, and sends either the packet itself or its replacement. The
engine parses the packet, looks its flow up in the flow table, collects what it
shows of a ClientHello in the flow's stream buffer or CRYPTO stream, asks the
rule set about the host and the address, and has the strategy build the
replacement. The only other thread is the console handler's, which raises the
stop flag. The driver, the programs that open connections, the network and the
servers are the environment.

Some files under `src/` (`src/main.cpp`, `src/desync.cpp`, `src/services.cpp`,
`src/windivert_dyn.cpp` and the headers beside them) belong to an earlier version;
`CMakeLists.txt` does not build them, and they are not modelled.

### What is hard, and what makes each part correct

* **Flow table.** Expiry, eviction, forgetting and a full table combine in one
  `touch()`. Correct: bounded; loses only what is old, forgotten, or the oldest of
  a full table; counts every loss once; silent flows leave in the end.
* **Stream buffer.** Reordered, repeated, re-cut segments and wrapping sequence
  numbers. Correct: holds a contiguous piece of the peer's stream, all of it that
  joined on and fits the budget, and says when it had to drop some.
* **CRYPTO stream.** The same for offsets, with a new connection, a Retry or the
  size limit in between. Correct: the prefix handed to the parser is exactly
  what the current connection sent, and the name is read as soon as it is whole.
* **QUIC packets.** Packet numbers are sent in part and recovered against a number
  that belongs to the flow, not to the connection; keys follow the DCID. Correct:
  every Initial sent before the server's answer is read.
* **Engine.** What it knows of a flow outlives packets, and may outlive the
  connection; the mark that a flow was handled may be lost. Correct: at most one
  replacement per remembered flow; never an excluded host; only the
  connection's own rule; nothing but the mark of an earlier connection keeps one
  from being handled.
* **Parsers.** Frames and payloads are cut short, damaged, or say more than is
  there, and what was found at one offset is used at another. Correct: a name is
  reported exactly when all of its message is there, at its place; what is not a
  whole packet is not acted upon.
* **Strategies.** Packets built here are reordered by the network and judged by
  the server's IP and TCP. Correct: the server ends with exactly the original
  payload, and the name is cut where the code can cut it.
* **Capture loop.** Sends and receives fail, the handle breaks, Ctrl+C comes at
  any instant. Correct: no packet vanishes uncounted, and the loop ends.
* **Rule set.** Files that include each other or fail half-way; three criteria, two
  indices and a bounded candidate list. Correct: what is loaded is what the files
  say, failures are reported, and the rule returned is the one the rule language
  promises.
* **Start.** Options come from defaults, a file and flags, and name files that may
  be missing or bad, in two places. Correct: a flag overrides the file wherever it
  stands; nothing is captured without the files asked for, each from its place.

## Modules

    FlowCache <-- implemented by -- FlowTable <-- FlowTableProofs
                                       ^  (INSTANCE)
    TcpBuffer <-- TcpStream <- TcpStreamProofs
        ^ ^                            |
        | +------------------------- Engine <-- EngineProofs
        |
        +-- Transform <-- Wire <-- WireProofs
             |     |                    TlsHello <-- HttpRequest <-- MCPayloads
             |     |                                    ^
             |     +--> PacketLayout                    |
             +------------------------------------------+

    QuicHeader <-- QuicInitials -- INSTANCE --> CryptoStream
                       ^
               QuicInitialsProofs

    CaptureLoop <-- CaptureLoopProofs     StartUp <-- StartUpProofs

    RuleSet <-- RuleFiles <-- RuleFilesProofs

An arrow points to the module that is extended or instantiated.
`MC<module>` gives the constants of `<module>` their values for TLC. Two of them
are for more than one module: `MCCaptureLoop` also for FlowTable, and `MCStreams` for
QuicInitials and TcpStream. Their modules share no variable, and a variable `part`
says from the start which of the two a behaviour explores.

**FlowTable** is `zc::FlowTable`. `table` is `table_` as a function from keys to
timestamps, `stats` is `stats_`, and `clock` is the `now_ms` callers pass.
`TouchHit`, `TouchMiss`, `Prune`, `Forget` and `Clear` are the public operations;
each holds the mutex throughout, so each is one step. `Roomy` is the part of
`touch()` that makes room: nothing, an expiry, or an expiry and one eviction.
Which of several equally old entries goes depends on hash order and is a choice.
`forgotten` is a history variable. With `ClockStepsBack`, the clock may go back, as
the code's `now_ms < last_seen_ms` test allows for.

**FlowCache** says what the engine expects of the table: it holds at most
`Capacity` flows, admits one at a time, giving up at most what it must when
full, and may release any others.

**TcpBuffer** has the operations of `zc::TcpStreamBuffer` as functions of its
members, so that `TcpStream` (one buffer and its peer) and `Engine` (one per flow)
share them. Sequence arithmetic is modulo `SeqSpace`, the code's 2^32. A byte is
its own offset in the peer's stream, so a misplaced byte would show.

**Engine** is `Engine::process` over an instance of `FlowTable`. `flow` holds what an
entry has besides its timestamps: `desynced`, `host`, the stream buffer, the DCID
and the collected CRYPTO units. A first flight has `HelloLen` units; a packet
carries a range of them, `conn` is the connection that uses the 5-tuple now, and
`Reconnect` lets another one take it over. `RuleStrategy` is an arbitrary function,
standing for `RuleSet::match`. `heard`, `applied`, `losses` and `out` are history.
`inherited` says of each flow whether its entry bore a mark when the connection
opened. The constant `ControlCaptured` says whether bare SYN, FIN and RST packets
reach `process()`. The filter `build_filter` writes asks for `tcp.PayloadLength > 0`
(`src/cli.cpp:566`) and never delivers them (`{FALSE}`); a filter of the user's own
(`--filter`) may deliver them (`{TRUE}`), or some (`BOOLEAN`). Without them the mark of an
old connection covers the next one on its 5-tuple: `NewConnectionHandled`, that a
connection to a host with a rule is handled at the first packet that shows its name,
is violated with the generated filter (run `engine_stale_mark`), and
`HandledUnlessInherited` says that the inherited mark is the only obstacle, for every
filter. All other properties of the run are checked for every filter too; the proofs name
what they need of it (below).

**QuicHeader** is `parse_quic` and `reconstruct_packet_number`: a datagram is a record
of the fields its header declares, and parsing says whether they fit and where the
packet number and the end of the packet are. A byte has `ByteValues` values, so that
numbers wrap early. **CryptoStream** is `zc::CryptoStream`: a frame beyond the limit is
cut off, and the parser goes on in the middle of its data; what it finds there is
left to `Misreadings`. **QuicInitials** composes the two along `decide_udp`: a client
sends Initials with any header of `Headers`, skips packet numbers, is answered (its
Initials then carry a DCID the keys are not derived from), sent a Retry, or replaced
by another connection on the 5-tuple; the flow's entry may be lost, and other
datagrams arrive. `trusted`, `given` and `last` are history: whether `largest` is fit
for the client's numbers, what it has sent readably, and what the last datagram was
taken for.

**CaptureLoop** is the loop of `main()`, one action per call that can block, fail
or be interleaved with the console handler. `fate` is a history variable that says
what became of each packet.

**RuleSet** has the rules and exclude entries loaded so far, `compile()` as the
index operators `ExactHosts`, `TrieRules` and `AddressOnlyRules`, and `match()` with
its one pass over the candidates. A host is the sequence of its labels from the
top level down, as the trie has them, and a label a sequence of characters: the trie
goes by labels, while `host_matches_suffix` compares characters and asks for a dot in
front of the suffix, so `Dotted` gives a name's characters, and the two have to agree.
**RuleFiles** loads what RuleSet matches: a file is a sequence of lines, and a line is
given as each of the two loaders takes it, since a rule file can include an exclude
list and the other way round. To `load_text` it is an include or a rule, a sequence of
classified tokens; to `load_exclude_file` an include, a domain, or junk. `Loaded` reads a
file as the one or the other with all it includes, down to `MaxIncludeDepth`, with the
problems it adds. The cap of 64 recorded problems is left out, as they are only
ever compared with none. The properties say what is loaded by the text alone: places
in the text, each the path of includes that leads to a line.

**PacketLayout** is `parse_packet` and the repair of edited packets. A frame is a
record of what its headers declare (header lengths, extension headers, the packet's
and the UDP datagram's length, being a fragment), the size of the buffer and its
payload. `Parses` holds if `parse_packet` accepts it. A checksum is kept as the contents
it was computed over, and is right as long as those are what the frame has: a field
that is edited after the last repair shows at the server.

**TlsHello** and **HttpRequest** are `parse_tls` and `parse_http` over sequences of units
in the place of bytes: a field of a header, or a word of a request, is one unit, and
lengths count the units behind them. Their result is a place, an offset and a
length, or `NoName`. The walks are recursive functions over offsets.

**Transform** is `transform_tcp` and `transform_udp`, with what `Engine::process` does
around them: a job (shape of the headers, payload, strategy, settings) becomes
a captured frame (`Captured`), is looked through by the parsers (`Hinted`), and turned
into the frames sent (`Packets`), or left alone if it does not parse. **Wire** sends
them: the network delivers in any order, a low TTL may expire on the way, and the
server's IP and TCP accept by lengths, checksums, sequence number, window and SYN.
**MCPayloads** has the messages of the run: ClientHellos with names at various
places, several names, other extensions, records before them; requests with all
kinds of Host lines; each of them cut short after every unit, and with every unit
damaged.

**StartUp** is what happens before the loop. `parse_command_line` looks for `--config`
first (`Scan`), applies that file line by line (`ConfigLine`), and then the
arguments (`ParseArg`), each an action; `load_configuration` then takes one file per
`Load`, which says where it is found and what becomes of it, and `main` starts, prints,
checks or refuses. `Accepted` and `Applied` are `apply_setting`, with the limits of
each setting. `found` holds what each look at a file has come to: in the working
directory or under the base path, by the reader of rules or that of exclude lists
(`At`); one disk lies behind all of them (`Agree`). A text is a token: a number, a list of
port ranges, or another word. An empty value behind `=` sends `need_value` to the next
argument (`Lacks`); `--config=` takes back what an earlier `--config` named, while a bare
`--config` takes the next argument (`Separate`). Missing
rights, a handle that does not open and what `--check` finds are choices of the
environment. `build_filter` is not modelled: it makes a text of the options and changes
nothing, and what of the text matters to the engine is `ControlCaptured`.

## Runs

Sizes are distinct states.

| run | instance | shows |
|---|---|---|
| `capture_loop` | the loop: 2 packets, replacements of up to 2, one error put up with, clock 0..3; or the table: 3 flows, capacity 2, TTL 1, 5 touches, clock 0..4 that may step back (127,404) | no silent loss, balance, one packet after a stop, giving up, pruning; bound, books, who is lost, silent flows leave, `FlowCache` implemented |
| `streams` | QUIC: 4 connections, limit 3, three header shapes, 42 other datagrams, numbers up to 4 of which one may be skipped, 4 values to a byte; or TCP: 6 bytes, 14 sequence numbers, budget 4, one reset (19,255) | Initials read, exact prefix, own bytes, name read when whole; contiguity, budget, nothing wasted, growth |
| `engine` | one TCP and one QUIC flow, capacity 1, two hosts, two connections per 5-tuple, 3 touches, control packets delivered or not (509,509) | once per remembered flow, exclusion, own rule, new connection unless marked, split QUIC hello |
| `rule_set` | every rule line of up to four of 7 tokens, files of several lines that include each other, rule files and exclude lists alike, up to 2 deep, up to 2 loads, room for 3 candidates, 6 hosts, 2 destinations (136,102) | loaded as written, failures reported; a rule is found iff one is satisfied; priority, suffix, exclusion by labels |
| `wire` | about 5,800 payloads in 23 shapes of frames, all strategies and settings; datagrams of up to 122 bytes (91,777) | names found, and cut if longer than their port, broken frames left alone, the server gets the payload and nothing else |
| `start_up` | up to 3 of 27 arguments, 3 configuration files, files good, bad or missing in two places for two readers (1,112,530) | flags override the file, files asked for are there and come from their place |
| `capture_ctrlc` | one packet | **violated**: Ctrl+C does not end a waiting loop |
| `rule_ties` | an exact and two suffix rules | **violated**: not always the longest suffix wins |
| `engine_split_hello` | one TCP flow | **violated**: a split ClientHello is not classified |
| `engine_stale_mark` | one TCP flow, the generated filter | **violated**: a new connection on a handled 5-tuple is passed |
| `short_name` | the payloads of `wire` | **violated**: a name shorter than its port is shown whole |
| `usage_options` | command lines of one option | **violated**: options of the usage text are refused |

**Why the bounds are enough.** Two entries and three flows give a table that is
full, half expired and full of live entries, and a flow that was evicted and
comes back; five touches allow two evictions. The stream of six bytes wraps at
every position, and a budget of four is reached inside a segment. In `engine`, a
capacity of one makes every other flow evict the first, and a second connection on
a 5-tuple meets what the first left behind; a ClientHello of two units is whole or
split. Two packets are what it takes for a stop request to be overtaken by one.
Three rules are a best one, one that loses and one compared with the wrong
suffix; `xsite.com` ends in the characters of `site.com` without being below it; four tokens are a matcher on each side of the action and an option, or any
mistake in that; an include depth of two is a file, what it includes, and a cycle.
In `wire`, plain payloads of six bytes in four segments give segments of different
lengths, and a sequence number two before the wrap wraps inside the payload;
`MaxDatagram` is 150, so that padding, and a decoy behind long headers, meet it; two
records before a ClientHello reach the limit `MaxPrefixRecords`, and one hello and
one request are longer than `MaxRecordBody` and `MaxHeader` allow; the wrong sequence
number of a decoy is further off than a window from every segment, as it is in the
code. In `streams`, a byte has four values, so that numbers up to four wrap, and a
connection leaves less or more than half a byte's window behind for the next one;
ClientHellos are shorter than, as long as, and longer than the limit; other datagrams
arrive only between two connections, since they neither parse nor authenticate
differently at other times, and `decide_udp` changes nothing of the flow for them. Three arguments are
a configuration file, a flag that contradicts it and another file to load, in
every order, or an option in two words and one more. Runs without a
deadlock check are those whose bounds, or whose program, really end.

**Fairness.** Only `capture_loop`, with `FairPartSpec`, and `capture_ctrlc`, with
`FairLoopSpec`, assume any. Of the loop: its thread is scheduled (weak fairness of each of
its steps), and `receive()` returns when a packet is queued or the handle is broken; when
neither is the case it need not return, which is what `capture_ctrlc` is about. Of the
table: `prune()` is called again and again (`WF_vars(Prune)`), as the loop does after
each packet once 5 s have passed (`src/app/main.cpp:388`), that is, as long as there is
traffic. The other runs check safety only. Nothing is assumed of a peer: a segment
the stream buffer refuses goes out, is acknowledged, and need not come again, so that
a gap may stay. What holds without it is that the buffer has everything that did join
on (`HoldsWhatJoinsOn`).

### What the violations say

1. `capture_ctrlc`: README.md:26 says that Ctrl+C shuts down a blocking receive
   cleanly. `shutdown_receive()` exists but nobody installs it as stop handler, so
   the flag is seen only after the next packet. With traffic, one more packet is
   handled at most (`StopTakesOnePacket`).
2. `rule_ties`: `best_host_rule` overwrites `best_suffix` with the suffix of a
   candidate that lost. Without exact rules the order of the trie hides it
   (`LongestSuffixWins` holds), and priorities are never affected.
3. `engine_split_hello`: only pieces that themselves begin with a ClientHello are
   put into the reassembly buffer, so a ClientHello split over TCP segments is
   not classified later, as the comment beside it intends.
4. `usage_options`: the usage text offers `--act-without-sni`, `--randomize-random`
   and `--stats`; the program refuses all three as unknown, the first two because
   the dashes are not turned into the underscores `apply_setting` expects. The
   same holds of `--seed` and `--strategy=pass`; `--config FILE` in two words fails on
   `FILE`; `--tls`, `--http` and `--quic` enable whatever value they are given.
5. `engine_stale_mark`: AUDIT.md:31 says that FIN and RST can forget a flow. `process()`
   does so, but the filter the program generates asks for a payload, and no bare FIN,
   RST or SYN is ever captured. The next connection on a 5-tuple that was handled within
   the TTL is passed.
6. `short_name`: the automatic cut is meant for the middle of the host name
   (src/strategy.cpp:243), but the length it halves is that of the Host field's value,
   port included. For `t.co:8443` the cut falls behind the name. `LongNameIsCut` says what
   holds: a name that is longer than the colon and port behind it is cut.

Also seen while modelling, without a run of their own, are the hazards of
`PROJECT.json` that have a note: among them the candidate limit of eight that drops
the most specific rules, the single exact rule kept per name, the packet number
that outlives its connection, `decide_udp` not asking `act_without_sni`, the tail of
a CRYPTO frame cut off at the limit being read as frames, a SYN with data whose
pieces all stay SYNs, and the hostlist that is read and dropped. `--check` does not look at whether the rules
were read well either (`src/app/main.cpp:291`), and the shares of the stream
memory are not bounded in sum (below).

## Proofs

Each `<module>Proofs` EXTENDS its module and proves, for every value of the constants
that meets the module's named assumptions, an inductive invariant and the properties
that follow from it. TLC checked each inductive invariant on the module's run before
it was proved.

| module | proved for all constants | hypotheses besides the assumptions |
|---|---|---|
| FlowTableProofs | `TypeOK`, `SizeWithinCapacity`, `EntriesAccounted`, `ImplementsCache`, `LivesUntilOldest` | none |
| TcpStreamProofs | `WithinBudget`, `HoldsWhatJoinsOn`, `HoldsContiguousBytes`, `OnlyGrows` | none |
| EngineProofs | `OncePerRememberedFlow`, `QuicHelloClassified`, that the engine's steps are the flow table's | none |
| | `TouchedByItsOwnRule` | control packets captured, or origins apart |
| | `ExcludedNeverTouched` | the same, and nothing is replaced blind |
| | `HandledUnlessInherited` | `EnableHttp` |
| CaptureLoopProofs | `NoSilentLoss`, `PacketsBalance`, `StopTakesOnePacket`, `SettledStays` | none |
| QuicInitialsProofs | `InitialsAreRead`, `PrefixIsExact`, `HoldsPeerBytes`, `ReadWhenWhole` | none |
| WireProofs | `UntouchedUnlessWhole`, `DecoysRefused`, `SentOnce`, `DatagramSurvives`, `LongNameIsCut` | none |
| | `StreamComplete` | a SYN with data is not cut |
| | `HintsAreAnnounced` (half of `HintsNameTheHost`), that a built ClientHello is read | none |
| RuleFilesProofs | `MatchIffSatisfied`, `PriorityDecides`, `LongestSuffixWins`, `ExcludedByLabels`, `FailuresReported`, `LoadedAsWritten` | none |
| StartUpProofs | `FlagsOverrideFile`, `RunsWithItsFiles` | none |

**FlowTableProofs** holds for every set of flows, capacity, TTL, clock and number
of touches. The assumptions are the constants' types (a positive capacity and TTL,
which the constructor enforces). The inductive invariant `TableInv` is type, bound and
books together: that a full table loses an entry before it takes one in needs its
finiteness, from the type, and the counter's balance needs that at most one entry
is evicted. `RoomyLeavesASlot` is the central lemma: however `touch()` makes room, a
slot is free afterwards. The refinement maps each action to an admission, a release
or a stutter. `LivesUntilOldest`, an action property, follows case by case from what
`Roomy` may give up.

**TcpStreamProofs** holds for every sequence space, initial sequence number, budget
and stream shorter than half the space. Two history variables say what ought to be
held: `first`, the first byte offered, and `reach`, the first byte that nothing joined on
has brought. `StreamInv` says that the buffer is exactly that piece of the stream as far
as the budget goes (`Held`), that its next expected number is the one of the byte
behind, and that it is truncated if and only if the budget cut it; the properties follow
from it. `BehindIsExact` is the lemma that makes the wrapped comparison of `push()` exact
within half the space, and `GrownHeld` that what is taken of a segment keeps `Held`.

**EngineProofs** holds for every set of flows and hosts, rule table, configuration,
capacity, TTL and budget. `EngineInv` says what each entry knows: a replacement is
remembered by a mark or was paid for by losing the entry (`ReplacementsRemembered`);
the host of an unmarked entry, and the host its buffer shows, are ones nothing is
replaced for (`KnownHostPassed`, `BufferedHostPassed`), or it would have been marked
at that packet; a mark is the present connection's or was inherited (`MarkAccounted`);
a QUIC entry has collected every unit it was shown (`QuicCollected`); and the bytes of
a TCP buffer are one connection's. The last needs a hypothesis,
because the model, like the code, takes in the segments of a second connection on
the 5-tuple that continue the first one's numbers by chance: either SYN, FIN and RST
reach `process()` and the entry is forgotten (`BufferIsPresent`), or the initial
sequence numbers of two connections of a 5-tuple differ by at least a ClientHello
(`OriginsApart`, then `BufferIsOneStream`). `ExcludedNeverTouched` also needs that
`Replaces(k, NoHost)` never holds: an address rule, or `--all-hosts` on UDP, acts
before the name is seen, and the exclude list is then not asked for a name. This is
what the code does; the hypothesis says so, and the run's configuration meets it.
`HandledUnlessInherited` is proved for any filter, and needs `EnableHttp` because a
request whose parser is off is never classified. `EngineUsesTheTable` shows that the
engine's specification implies FlowTable's, so that the table's theorems apply to it.

**CaptureLoopProofs** holds for every set of packets, finite or not, and every bound.
`LoopInv` ties the place of the loop to the packet in hand (`HandMatchesPlace`), says
that the queue holds each waiting packet once, that a failure is counted before the
rescue it leads to (`LossesCounted`), and that no receive is begun once one packet
was taken after a stop (`LastPacketTaken`). `SettledStays`, an action property stated
there, says that a packet's end is decided once.

**QuicInitialsProofs** holds for every set of connections, ClientHellos, frame lists,
header shapes, size limit, packet number and width of a byte. What is assumed of
the client is its protocol: an Initial carries CRYPTO frames of its own ClientHello
(`InitialsAssumption`), and its connection IDs, packet numbers and payload have the
sizes RFC 9000 prescribes (`DatagramsAssumption`); other datagrams may have any
fields. `Sound` says that the end of the prefix is the first missing byte,
`Authentic` that each byte is the adopted connection's at its offset, `HoldsGiven`
that all that was given is held, and `NumbersInv` that the largest number known, while
it is `trusted`, is one the client has passed or too small to matter. `ExtendedIsExact` (the
prefix grows to the first gap) and the lemma that `reconstruct_packet_number` recovers
every number within half a window are the two others rest on.

**WireProofs** holds for every captured packet, strategy and setting, for payloads of
any length cut into any number of pieces, for any number of repetitions, and for
every order of arrival. The assumptions are `JobsAssumption` (fields have the types
and widths their headers give them, a packet is no larger than an IP packet can be,
and one that is whole declares its size), `ShapesAssumption` (a frame that is not a
whole packet is `Incomplete`: it names all the ways in which a frame can fall short,
and the frames the run takes are what they are in exactly these ways),
`PayloadsAssumption` (a payload is as many units as the packet says) and
`NumbersAssumption` (a segment fits the
server's window and half the sequence space, and a decoy's number, which the code
moves by 0x40000000 and a little noise, lies beyond the window, which is what
`src/strategy.cpp:84` counts on).
`SafeInv` says that what was built is `Packets(job)` and that the server has no byte
the payload does not have; `WireInv` adds that it has exactly what arrived
(`StreamInv`), which is why the order does not matter, and `UdpInv` the same of a
datagram. The lemmas follow the code: `PartsTile` (the parts cut by each strategy are
consecutive, not empty, and end with the payload), `PacketsCarry` (each real packet
carries its part, at its sequence number, with right lengths and checksums, because
every edit is followed by `fixup_packet`), `RealIsAccepted` and `DecoyIsRefused` (a
poisoned checksum is never right, a wrong number is outside the window).
`IncompleteNeverParses` goes through the checks of `parse_packet` with each way to be
incomplete and finds the one that refuses it (behind a chain of extension headers, a
declared length that ends inside them), so the frame leaves as it came. `WholeParses`
is the other direction, so that a whole packet is never left alone for want of being
understood. `StreamComplete` has a hypothesis: it excepts a SYN with data that is cut, as
its flag stays on every piece, and the server takes the first for the connection's
beginning and misplaces the others; the run has no such job either, and the hazard
is listed. `LongNameIsCut` has none: the name it is about is what the parsers found,
wherever that lies, less the port behind it; that it lies inside the payload is proved of
the parsers, and that the middle of the authority lies inside a name longer than the
colon and port is arithmetic.

The second half, `HintsAreAnnounced`, is proved of both parsers for any bytes at all.
Each is a walk from entry to entry (names of a list, extensions, header lines), a
recursive function over places. `WalkRuns` says that such a function exists, because
every entry lies behind the last, and `WalkKeeps` that what each entry keeps holds of
the walk; both go through the place furthest ahead. From them: a name is an entry of
a list (`NamesAreListed`), in a server_name extension (`NamesAreExtensions`), where it
stands in the packet once it is shifted past the records that were skipped
(`SniIsNamed`); a host is the trimmed value of a Host field that a line end precedes
(`HostIsNamed`). The proof found `HostField`'s cases overlapping, which left open what
is found where two apply; they are now taken in the code's order.
`BuiltHelloIsRead` goes the other way, so that the parser cannot be right by finding
nothing: the bytes of `build_client_hello` lie where `ExtensionsLie` and `BodyLies` say,
the walk passes the four extensions that are not server_name and finds the name. This
is the test at `tests/test_tls.cpp:283` for every host name.

**RuleFilesProofs** holds for every disk, every set of host names of any labels and
characters but the dot, any set of destinations, any number of rules of any number of matchers, and any
limits. `FilesInv` is the type of what is loaded; it is inductive because every line,
and every file with all it includes, comes to a `Result`, and in a `Result` the two ways
to tell of a failure agree (`ok <=> problems = 0`). `FailuresReported` compares a loader
that goes down line by line with the places of the text, each a list of line numbers.
`RuleLineOk` says that the tokens are taken one by one exactly if the line is well
formed (`AllFit` is what is left after some of them), `TextOk` that a file is good
exactly if all its lines are, and `LoadedOk`, by induction on how much deeper includes
may nest, that a load fails exactly if a way through includes leads to a line that does
(`Leads`, `FailsBelow`); such a way is one include and a way behind it (`LongerWay`,
`WaySplit`), and the places of the property are the ways (`FailsIffWritten`). No
ordering of files is assumed, so a cycle is but a way that is too long.

`LoadedAsWritten` says more of the same loader: not only whether something failed but
what came of the rest, and in which order. `Tells(s, S, value, before)` is the relation
that survives each step: the list `s` has the values of the elements of `S`, each behind
those that come before it. Nothing is told by the empty list (`TellsNothing`), two lists
in a row tell two sets of which one lies before the other (`TellsBoth`), and what is told
of a file is told of it as a part of the file that includes it, with the number of the
line put in front of every place (`TellsBehind`). A rule line is read token by token to
what `Written` says of it (`TokenRead`, `RuleLineReads`), a text line by line
(`SoundSplit`, `TextComesTo`), a file by induction on how much deeper includes may nest
(`LoadedComesTo`), and each load adds the places below it behind all others
(`BroughtMore`). The inductive invariant is `LoadsInv` with `Brought`: the rules tell the
places below the loads so far. Only at the end does sorting come in: a list that tells a
set of places, which the order of the text orders totally, is the list sorted by rank
(`TellsByRank`, `PlacesSorted`). The property's lists are defined by rank (`Sorted`: in
front of the n-th element there are n - 1) for that reason.

The other theorems are about `match()` on any typed rules. `CandidatesNamed`: the candidates are rules named by so many labels of the
host, at the depth of that many labels, and where there is room all of them
(`CandidatesListed` follows the walk down the trie). `BestSoFar` is the invariant of
the pass over them, kept by `BestStep`: the best is satisfied, of a priority no other
exceeds, and, *if the depths rise along the list* (`Rising`), its suffix is the one
remembered. That is where the pass would go wrong: `best_suffix` belongs to the last
satisfied candidate, not to the best, and with an exact rule in front (run
`rule_ties`) or with several priorities the depths do not decide. `SpecificityIsDepth`
then says that a rule's deepest candidate is as deep as the longest name it gives.
`SuffixByLabels` is what exclusion, and a suffix matcher, rest on: comparing the
characters of two dotted names with a dot in front of the shorter one comes to comparing
their labels. No label has a dot in it, so where the forms of two names agree to the end
their last labels do (`DottedLayout`, `NextLabel`, and label by label `EndsByLabels`).
The proof found that `Roomy` had counted a rule once that names a host both exactly and
by a suffix, while the code collects it twice; the run now has such a rule.

**StartUpProofs** holds for command lines of any length, any configuration files (each a
sequence of lines) and any fate of the files they name. The properties are about command
lines in the forms of the usage text (`Plain`), for which an argument is its own value; in
the others a word may be an option for one loop of `parse_command_line` and a value for
the other. `OptionsInv` goes along with the code: in the first loop the configuration
file is the last one named so far (`ConfigName`), and the settings are still the
defaults; after each line, and then after each argument, every setting is what has been
asked of it so far (`AskedUpto`, which `AskedSteps` unfolds by one wish). A refused line
sets `faulty`, and nothing is claimed of the options then. `FilesInv` takes
`load_configuration` from there: each file it is to load is still in `to_load`, or was
looked for at its place (`Place`), and then it was good, or missing and automatic, unless
there is a problem (`Read`). An automatic file that was declined is not among the files wanted. The
proof found the first form of `RunsWithItsFiles` too strong: it said that a declined
automatic file is loaded only if it was asked for as the same kind of list, which
`--no-auto-files --exclude=config/rules.txt` refutes; the run now has that argument.

**Induction.** The induction rules of the library take an operator as parameter, which
the installed provers cannot instantiate. `WFMin` and `NatLessThanWellFounded` need
none: a set of naturals that is not empty has a least element (`LeastElement`,
`Least`), so a claim about all numbers is proved by assuming a least
counterexample. With it, recursive functions over numbers (`AfterEach`, the offsets
of the parts) and the fold over extension headers are reasoned about for every size.
In RuleFilesProofs and StartUpProofs `LoopRuns` says that a loop of any length has the function that holds
what each step leaves, and `LoopKeeps` that what each step keeps holds at the end.

**Only model-checked:**

* Liveness: `SilentFlowsLeave`, `BrokenHandleGivesUp` and `PrunedOnTraffic`,
  which the prover cannot handle.
* The first half of `HintsNameTheHost`: that of the messages in MCPayloads, whole, in
  several records or cut short anywhere, the hints are the host exactly if all of it is
  there. Which messages are whole is said by how MCPayloads builds them; a definition of
  it over all bytes would be the parser again. `BuiltHelloIsRead` proves one direction
  for the messages the program builds itself.

## Not modelled, and why

* **Cryptography and checksums**: arithmetic on bytes, checked by known-answer tests.
  The models know whether a packet authenticates, and over what a checksum was
  computed. That inverting a checksum of 0 leaves it right is out of sight.
* **`build_quic_client_initial`**: a decoy that has to be well formed for a
  censor's eyes; only its size matters here.
* **Bytes behind what a packet declares, UDP slack and IP-literal hosts**, and the text
  of addresses, CIDR blocks and host names (validity, case, `fit_hostname`): data. So is
  the grammar of numbers in rule lines. A field is one unit or one member of
  a record, so nothing is ever cut inside a field.
* **Text of options**: the trimming of blanks, letter case and the splitting at `=`.
* **`build_filter`**: the filter's text.
* **Usage text, logging, formatting of statistics**: output only.
* **The system under the start**: the privilege check, the loading of the DLL and the
  opening of the handle only succeed or fail.
* **Stream memory over all flows**: each flow may hold a 64th of the budget, and at
  least 1024 bytes, however many flows there are (`src/flow.cpp:118`), so 32,768 flows
  can hold 2 GiB with the default budget of 4 MiB. That is arithmetic, not
  behaviour; that one buffer keeps within its own budget is checked and proved.

## Plan

Done: FlowTable, TcpStream, Engine, CaptureLoop, RuleSet with RuleFiles, the parsers
(PacketLayout, TlsHello, HttpRequest) with Transform and Wire, QuicHeader with
CryptoStream in QuicInitials, StartUp; proofs of FlowTable, TcpStream, Engine,
CaptureLoop, QuicInitials, Wire, RuleFiles and StartUp. Left to model:

1. Composition of Engine and CaptureLoop: a flow marked as handled whose
   replacement could not be sent (`src/engine.cpp:332`).
2. Segments of a SYN with data, as a run that states what `strategy.hpp` promises.
3. **LogThrottle**: the slots of `emit_throttled`.

Theorems next: that `Wire` sends what the engine decides, once 1 is there.
