------------------------------- MODULE MCWire --------------------------------
(* Small instances of Wire for TLC: payloads of up to six plain bytes, requests and
   ClientHellos whole, cut short and damaged, sequence numbers that wrap inside the
   payload, and packets up to the largest that is possible.                    *)
EXTENDS Wire, MCPayloads

Plain4 == [version |-> 4, ihl |-> 20, exts |-> <<>>, fragment |-> "none", doff |-> 20,
           missing |-> 0, udp_missing |-> 0, whole |-> TRUE]
Plain6 == [Plain4 EXCEPT !.version = 6]
Broken4 == [Plain4 EXCEPT !.whole = FALSE]
Broken6 == [Plain6 EXCEPT !.whole = FALSE]

(* So many options that a ClientHello of its own does not fit behind them. *)
Crowded == [Plain4 EXCEPT !.ihl = 60, !.doff = 32]

Options == Extension("options", 8)
Atomic == Extension("atomic", 8)

(* IPv4 and TCP options, and chains of extension headers with an atomic fragment. *)
WholeShapes ==
    {[Plain4 EXCEPT !.ihl = 24, !.doff = 24], Crowded, Plain6,
     [Plain6 EXCEPT !.exts = <<Options>>], [Plain6 EXCEPT !.exts = <<Extension("AH", 12)>>],
     [Plain6 EXCEPT !.exts = <<Options, Atomic>>]}

(* Fragments, frames shorter than they declare, headers shorter than they can be,
   and chains that are too long, end in a fragment or run out of the packet.   *)
BrokenShapes ==
    {[Broken4 EXCEPT !.fragment = kind] : kind \in {"first", "later"}}
        \cup {[Broken4 EXCEPT !.missing = 1], [Broken4 EXCEPT !.missing = -40],
              [Broken4 EXCEPT !.ihl = 16], [Broken6 EXCEPT !.missing = 1],
              [Broken6 EXCEPT !.exts = <<Extension("fragment", 8)>>],
              [Broken6 EXCEPT !.exts = <<Options, Extension("fragment", 8)>>],
              [Broken6 EXCEPT !.exts = <<Options, Options, Atomic>>],
              [Broken6 EXCEPT !.exts = <<Options>>, !.missing = -16],
              [Broken6 EXCEPT !.exts = <<Options>>, !.missing = -28]}
BrokenTcp == {[Broken4 EXCEPT !.doff = 16], [Broken4 EXCEPT !.doff = 24, !.missing = -8]}
BrokenUdp == {[Broken4 EXCEPT !.udp_missing = 1], [Broken6 EXCEPT !.udp_missing = 1],
              [Broken4 EXCEPT !.udp_missing = -9]}

JobsWith(payloads, strategies, splits, flags, shapes) ==
    {j \in [protocol : {"tcp"}, payload : payloads, length : {0}, hello : {FALSE},
            name : {NoName}, sequence : {0, SeqSpace - 2}, flags : flags,
            strategy : strategies, split : splits, segments : {2, 4}, repeats : {1, 2},
            ttl : {0, 1}, badseq : BOOLEAN, badsum : BOOLEAN, noise : {0, 1},
            shape : shapes] :
        /\ j.strategy \notin Faking =>
             j.repeats = 1 /\ j.ttl = 1 /\ ~j.badseq /\ ~j.badsum
        /\ j.strategy \notin ManyPartStrategies => j.segments = 2
        /\ ~j.badseq => j.noise = 0
        /\ j.ttl = 0 => ~j.badsum /\ ~j.badseq /\ j.repeats = 1}

(* A few of them, for every other shape and payload. *)
FewOf(payloads, strategies, shapes) ==
    {j \in JobsWith(payloads, strategies, {-1}, {{"FIN", "PSH"}}, shapes) :
        j.sequence = 0 /\ j.segments = 2 /\ j.repeats = 1 /\ j.ttl = 1 /\ j.noise = 0}

(* Datagrams padded or trimmed by less, as much and more than there is room for. *)
DatagramsOf(lengths, shapes) ==
    [protocol : {"udp"}, length : lengths, delta : {-150, -2, -1, 0, 1, 2, 150},
     initial : BOOLEAN, ttl : {0, 1}, repeats : {0, 1, 3}, sequence : {0}, flags : {{}},
     shape : shapes]

(* A SYN that carries data is not cut here: its SYN would stay on every piece. *)
TcpJobs ==
    JobsWith({Plain(n) : n \in {1, 2, 3, 6}}, Splitting \cup WholeStrategies, {-1, 0, 2},
             {{}, {"FIN", "PSH"}}, {Plain4})
        \cup JobsWith({TheHello, HelloStart, TheRequest}, Splitting \cup WholeStrategies, {-1},
                      {{"FIN", "PSH"}}, {Plain4})
        \cup FewOf({ShortPort, LongPort}, Splitting, {Plain4})
        \cup JobsWith({Plain(3), TheHello}, {"fake"}, {-1}, {{"SYN"}}, {Plain4})
        \cup FewOf({Plain(3), TheHello, HelloStart}, {"split", "fake_multidisorder", "fake"},
                   WholeShapes)
        \cup FewOf({Plain(3)}, {"split", "fake_multidisorder", "fake"},
                   BrokenShapes \cup BrokenTcp)
        \cup FewOf(Whole \cup CutShort \cup Damaged, {"disorder"}, {Plain4})

TheJobs ==
    {[j EXCEPT !.length = Len(j.payload.units)] : j \in TcpJobs}
        \cup DatagramsOf({1, 2, 3, 75, 76, 121, 122}, {Plain4})
        \cup DatagramsOf({1, 2, 20, 86}, WholeShapes \ {Crowded})
        \cup DatagramsOf({5}, BrokenShapes \cup BrokenUdp)
==============================================================================
