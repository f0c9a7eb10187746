------------------------------ MODULE MCStartUp -------------------------------
(* Small instances of StartUp for TLC: command lines of a few arguments, and three
   configuration files, one of them with a line that is refused.              *)
EXTENDS StartUp, TLC

Line(key, v) == [key |-> key, value |-> v]

TheConfigFiles ==
    "site.conf" :>
        <<Line("ttl", Number(9)), Line("http", Word("off")), Line("rules", Word("mine.txt")),
          Line("quic_ports", PortList(<<<<5000, 5002>>>>)), Line("quic", Number(0))>>
    @@ "spare.conf" :>
        <<Line("sniwait", Number(2097152)), Line("strategy", Word("fake-auto")),
          Line("no_auto_files", Word("yes")), Line("all_hosts", Word("true"))>>
    @@ "typo.conf" :> <<Line("tttl", Number(9)), Line("split_position", Word("auto"))>>

TheArgs ==
    {Option("--config", Word("site.conf")), Option("--config", Word("spare.conf")),
     Option("--config", Word("typo.conf")), Option("--config", Word("none.conf")),
     Option("--config", Word("")), Flag("--config"),
     Option("--ttl", Number(5)), Option("--ttl", Number(256)), Flag("--ttl"), Option("--ttl", Word("")),
     Token(Number(7)), Token(Word("site.conf")),
     Option("--rules", Word("mine.txt")), Option("--exclude", Word("mine-too.txt")),
     Option("--exclude", Word("config/rules.txt")),
     Option("--hostlist", Word("hosts.txt")), Flag("--listed"), Flag("--http"),
     Option("--tcp-ports", PortList(<<<<53, 53>>, <<5000, 6025>>>>)),
     Option("--udp-ports", PortList(<<<<53, 53>>>>)),
     Flag("--capture-loopback"), Flag("--no-auto-files"), Flag("--filter"), Flag("--dry-run"),
     Flag("--check"), Flag("--list-rules"), Flag("--help")}

(* Every option of the usage text that takes no value. *)
TheUsage == {Flag(key) : key \in UsageFlags}
=============================================================================
