------------------------------- MODULE StartUp -------------------------------
(* How the program starts: parse_command_line and load_config_file (src/cli.cpp)
   collect the options, load_configuration (src/app/main.cpp) loads the files they
   name, and main() runs, prints or exits.

   A text is a token: a number, a list of port ranges, or any other word.  An
   argument is an option, with or without a value after "=", or a bare token.
   A file is read at a place, in the working directory or under the base path, by
   the reader of rule files or the one of exclude lists.                        *)
EXTENDS Integers, FiniteSetsExt, SequencesExt

CONSTANTS
    ArgPool,        \* the arguments a command line is made of
    MaxArgs,        \* bound: arguments
    ConfigFiles     \* the configuration files that exist: path -> lines

VARIABLES
    args,           \* argv
    at,             \* index into args, or into the lines of the configuration file
    stage,          \* "scan", "config", "args", "load", "start" or "ended"
    options,        \* zc::Options
    faulty,         \* a line of the configuration file was refused
    to_load,        \* the files load_configuration still has to load
    found,          \* the files looked for: read -> "good", "bad" or "missing"
    loaded,         \* the reads whose entries the RuleSet holds, in order
    problems,       \* load_configuration has met a problem
    outcome         \* what has become of the program

parsing == <<args, at, options, faulty>>
loading == <<to_load, found, loaded, problems>>
vars == <<parsing, stage, loading, outcome>>

Number(n) == [number |-> n]
Word(w) == [word |-> w]
PortList(ranges) == [ports |-> ranges]
Nothing == [nothing |-> TRUE]

IsNumber(v) == "number" \in DOMAIN v
Text(v) == IF "word" \in DOMAIN v THEN v.word ELSE "digits"

Bare == "bare"
Flag(key) == [key |-> key, value |-> Nothing]
Option(key, v) == [key |-> key, value |-> v]
Token(v) == [key |-> Bare, value |-> v]

ASSUME ArgsAssumption ==
    /\ MaxArgs \in Nat
    /\ \A arg \in ArgPool : DOMAIN arg = {"key", "value"} /\ arg.key \in STRING
ASSUME ConfigAssumption ==
    \A file \in DOMAIN ConfigFiles : ConfigFiles[file] \in Seq(ToSet(ConfigFiles[file]))

-----------------------------------------------------------------------------
(* Settings *)

DefaultOptions ==
    [mode |-> "run", config_file |-> "", dry_run |-> FALSE, filter_overridden |-> FALSE,
     auto_decoy |-> FALSE,
     log_level |-> "info", all_hosts |-> FALSE, act_without_sni |-> FALSE,
     sni_wait |-> 8192, strategy |-> "fake-multidisorder", ttl |-> 4, repeats |-> 1,
     segments |-> 4, split |-> -1, badseq |-> FALSE, badsum |-> FALSE,
     randomize_random |-> FALSE, fake_sni |-> "www.google.com",
     tls |-> TRUE, http |-> TRUE, quic |-> TRUE, udplen |-> 0,
     stats |-> TRUE, stats_interval |-> 0, flow_capacity |-> 32768,
     flow_ttl |-> 300000, flow_stream_budget |-> 4194304,
     tcp_ports |-> {443, 8443, 2053, 2083, 2087, 2096}, http_ports |-> {80, 8080},
     udp_ports |-> {443}, all_tcp |-> FALSE, capture_loopback |-> FALSE,
     priority |-> 0, no_auto_files |-> FALSE,
     rules |-> <<>>, exclude |-> <<>>, hostlist |-> <<>>]

(* The names apply_setting knows, its spellings of one setting taken together. *)
Settings == DOMAIN DefaultOptions
            \ {"mode", "config_file", "dry_run", "filter_overridden", "auto_decoy"}

Aliases ==
    [loglevel |-> "log_level", allhosts |-> "all_hosts", sniwait |-> "sni_wait",
     default_strategy |-> "strategy", segs |-> "segments", split_position |-> "split",
     rnd |-> "randomize_random", sni |-> "fake_sni", udp_length_delta |-> "udplen",
     tls_ports |-> "tcp_ports", quic_ports |-> "udp_ports"]

Setting(key) == IF key \in DOMAIN Aliases THEN Aliases[key] ELSE key

Switches == {"all_hosts", "act_without_sni", "badseq", "badsum", "randomize_random", "tls",
             "http", "quic", "stats", "all_tcp", "capture_loopback", "no_auto_files"}
PortSettings == {"tcp_ports", "http_ports", "udp_ports"}
FileLists == {"rules", "exclude", "hostlist"}
Strategies ==
    {"pass", "split", "disorder", "multisplit", "multidisorder", "fake", "fake-split",
     "fake-disorder", "fake-multidisorder", "fake-auto", "quic-fake"}
Levels == {"off", "error", "warn", "info", "debug", "trace"}

Limits ==
    [ttl |-> <<1, 255>>, repeats |-> <<1, 64>>, segments |-> <<2, 16>>,
     udplen |-> <<-4096, 4096>>, flow_capacity |-> <<16, 1000000>>,
     flow_ttl |-> <<1000, 3600000>>, flow_stream_budget |-> <<0, 1073741824>>,
     priority |-> <<0, 32767>>, split |-> <<0, 65535>>]

MaxSniWait == 1048576

Affirmative == {Word("true"), Word("yes"), Word("on"), Number(1)}
Negative == {Word("false"), Word("no"), Word("off"), Number(0)}

(* parse_ports: single ports and ranges of at most 1025. *)
Ranges(v) ==
    CASE IsNumber(v) -> <<<<v.number, v.number>>>>
      [] "ports" \in DOMAIN v -> v.ports
      [] OTHER -> <<>>
IsPortList(v) ==
    /\ Ranges(v) # <<>>
    /\ \A r \in ToSet(Ranges(v)) :
        /\ {r[1], r[2]} \subseteq 1..65535
        /\ r[2] >= r[1] /\ r[2] - r[1] <= 1024

Allowed(s, v) ==
    CASE s \in Switches -> v \in Affirmative \cup Negative
      [] s = "split" /\ v = Word("auto") -> TRUE
      [] s \in DOMAIN Limits ->
            IsNumber(v) /\ Limits[s][1] <= v.number /\ v.number <= Limits[s][2]
      [] s \in {"sni_wait", "stats_interval"} -> IsNumber(v) /\ v.number >= 0
      [] s \in PortSettings -> IsPortList(v)
      [] s = "strategy" -> Text(v) \in Strategies \ {"pass"}
      [] s = "log_level" -> Text(v) \in Levels
      [] OTHER -> TRUE

Meaning(s, v) ==
    CASE s \in Switches -> v \in Affirmative
      [] s = "split" /\ v = Word("auto") -> -1
      [] s = "sni_wait" -> IF v.number > MaxSniWait THEN MaxSniWait ELSE v.number
      [] s \in DOMAIN Limits \cup {"stats_interval"} -> v.number
      [] s \in PortSettings -> UNION {r[1]..r[2] : r \in ToSet(Ranges(v))}
      [] OTHER -> Text(v)

(* apply_setting *)
Accepted(key, v) == Setting(key) \in Settings /\ Allowed(Setting(key), v)

Applied(o, key, v) ==
    LET s == Setting(key)
    IN  IF s \in FileLists THEN [o EXCEPT ![s] = Append(@, Meaning(s, v))]
        ELSE IF s = "strategy"
        THEN [o EXCEPT ![s] = Meaning(s, v), !.auto_decoy = (Text(v) = "fake-auto")]
        ELSE [o EXCEPT ![s] = Meaning(s, v)]

-----------------------------------------------------------------------------
(* Options *)

Table(rows) == [key \in {row[1] : row \in rows} |-> CHOOSE row \in rows : row[1] = key]

Modes == Table({<<"--check", "check">>, <<"--list-rules", "list_rules">>})

(* Options that stand for a setting with a value: kBoolFlags name it themselves. *)
FixedFlags == Table(
    {<<"--all-hosts", "all_hosts", "true">>, <<"--listed", "all_hosts", "false">>,
     <<"--all-tcp", "all_tcp", "true">>, <<"--capture-loopback", "capture_loopback", "true">>,
     <<"--no-auto-files", "no_auto_files", "true">>, <<"--no-stats", "stats", "false">>,
     <<"--tls", "tls", "true">>, <<"--http", "http", "true">>, <<"--quic", "quic", "true">>,
     <<"--badseq", "badseq", "true">>, <<"--badsum", "badsum", "true">>,
     <<"--randomize-random", "randomize-random", "true">>,
     <<"--act-without-sni", "act-without-sni", "true">>})

(* Options that take a value: the setting it is for. *)
ValueFlags == Table(
    {<<"--rules", "rules">>, <<"--exclude", "exclude">>, <<"--hostlist", "hostlist">>,
     <<"--strategy", "strategy">>, <<"--log-level", "log_level">>,
     <<"--sni-wait", "sni_wait">>, <<"--ttl", "ttl">>, <<"--repeats", "repeats">>,
     <<"--segs", "segs">>, <<"--split", "split">>, <<"--fake-sni", "fake_sni">>,
     <<"--udplen", "udplen">>, <<"--stats-interval", "stats_interval">>,
     <<"--flow-capacity", "flow_capacity">>, <<"--flow-ttl", "flow_ttl">>,
     <<"--flow-stream-budget", "flow_stream_budget">>, <<"--tcp-ports", "tls_ports">>,
     <<"--http-ports", "http_ports">>, <<"--udp-ports", "quic_ports">>,
     <<"--priority", "priority">>, <<"--seed", "seed">>})

Init ==
    /\ args \in BoundedSeq(ArgPool, MaxArgs)
    /\ at = 1 /\ stage = "scan" /\ options = DefaultOptions /\ faulty = FALSE
    /\ to_load = <<>> /\ found = <<>> /\ loaded = <<>> /\ problems = FALSE
    /\ outcome = "starting"

End(what) ==
    /\ outcome' = what /\ stage' = "ended"
    /\ UNCHANGED <<parsing, loading>>

Go(next) == stage' = next /\ at' = 1

Arg == args[at]
(* The value stands in an argument of its own: in the first loop if there is no "=",
   and for need_value if nothing follows the "=" either.                      *)
Separate(arg) == arg.value = Nothing
Lacks(arg) == arg.value \in {Nothing, Word("")}

HasValue(apart) == apart => at < Len(args)
ValueOf(apart) ==
    IF ~apart THEN Arg.value
    ELSE IF args[at + 1].key = Bare THEN args[at + 1].value
    ELSE Word(args[at + 1].key)
Taken(apart) == IF apart THEN 2 ELSE 1

(* Mutant: the first configuration file named is the one that counts. *)
ScanKeeping ==
    /\ stage = "scan" /\ at <= Len(args)
    /\ IF Arg.key = "--config" /\ HasValue(Separate(Arg))
       THEN /\ options' = IF options.config_file # "" THEN options
                          ELSE [options EXCEPT !.config_file = Text(ValueOf(Separate(Arg)))]
            /\ at' = at + Taken(Separate(Arg))
       ELSE at' = at + 1 /\ UNCHANGED options
    /\ UNCHANGED <<args, stage, faulty, loading, outcome>>

(* The last --config names the configuration file. *)
Scan ==
    /\ stage = "scan" /\ at <= Len(args)
    /\ IF Arg.key = "--config" /\ HasValue(Separate(Arg))
       THEN /\ options' = [options EXCEPT !.config_file = Text(ValueOf(Separate(Arg)))]
            /\ at' = at + Taken(Separate(Arg))
       ELSE at' = at + 1 /\ UNCHANGED options
    /\ UNCHANGED <<args, stage, faulty, loading, outcome>>

ScanDone ==
    /\ stage = "scan" /\ at > Len(args)
    /\ Go(IF options.config_file = "" THEN "args" ELSE "config")
    /\ UNCHANGED <<args, options, faulty, loading, outcome>>

(* load_config_file: a line that is refused does not stop the rest. *)
ConfigMissing ==
    /\ stage = "config" /\ options.config_file \notin DOMAIN ConfigFiles
    /\ End("rejected")

ConfigLines ==
    IF options.config_file \in DOMAIN ConfigFiles THEN ConfigFiles[options.config_file]
    ELSE <<>>

ConfigLine ==
    /\ stage = "config" /\ at <= Len(ConfigLines)
    /\ LET line == ConfigLines[at]
       IN  IF Accepted(line.key, line.value)
           THEN options' = Applied(options, line.key, line.value) /\ UNCHANGED faulty
           ELSE faulty' = TRUE /\ UNCHANGED options
    /\ at' = at + 1
    /\ UNCHANGED <<args, stage, loading, outcome>>

ConfigDone ==
    /\ stage = "config" /\ options.config_file \in DOMAIN ConfigFiles
    /\ at > Len(ConfigLines)
    /\ IF faulty THEN End("rejected")
       ELSE Go("args") /\ UNCHANGED <<args, options, faulty, loading, outcome>>

-----------------------------------------------------------------------------
(* parse_command_line, the second loop: one argument, or one and its value. *)

AtArg(keys) == stage = "args" /\ at <= Len(args) /\ Arg.key \in keys

Consume(n, o) ==
    /\ at' = at + n /\ options' = o
    /\ UNCHANGED <<args, stage, faulty, loading, outcome>>

HelpOrVersion == AtArg({"--help", "-h", "--version"}) /\ End("exit 0")

SetMode == AtArg(DOMAIN Modes) /\ Consume(1, [options EXCEPT !.mode = Modes[Arg.key][2]])

DryRun == AtArg({"--dry-run"}) /\ Consume(1, [options EXCEPT !.dry_run = TRUE])

(* "already handled" (src/cli.cpp:447), but a value of its own is still to come. *)
ConfigFlag == AtArg({"--config"}) /\ Consume(1, options)

Filter ==
    /\ AtArg({"--filter"})
    /\ IF HasValue(Lacks(Arg))
       THEN Consume(Taken(Lacks(Arg)), [options EXCEPT !.filter_overridden = TRUE])
       ELSE End("rejected")

SetFixed ==
    /\ AtArg(DOMAIN FixedFlags)
    /\ LET row == FixedFlags[Arg.key]
       IN  IF Accepted(row[2], Word(row[3]))
           THEN Consume(1, Applied(options, row[2], Word(row[3])))
           ELSE End("rejected")

SetValue ==
    /\ AtArg(DOMAIN ValueFlags)
    /\ LET key == ValueFlags[Arg.key][2]
           v == ValueOf(Lacks(Arg))
       IN  IF HasValue(Lacks(Arg)) /\ Accepted(key, v)
           THEN Consume(Taken(Lacks(Arg)), Applied(options, key, v))
           ELSE End("rejected")

KnownFlags ==
    {"--help", "-h", "--version", "--dry-run", "--config", "--filter"}
    \cup DOMAIN Modes \cup DOMAIN FixedFlags \cup DOMAIN ValueFlags

UnknownOption ==
    /\ stage = "args" /\ at <= Len(args) /\ Arg.key \notin KnownFlags
    /\ End("rejected")

ParseArg ==
    \/ HelpOrVersion \/ SetMode \/ DryRun \/ ConfigFlag \/ Filter
    \/ SetFixed \/ SetValue \/ UnknownOption

-----------------------------------------------------------------------------
(* load_configuration *)

AutoFiles == <<[path |-> "config/rules.txt", list |-> "rules", auto |-> TRUE],
               [path |-> "lists/exclude.txt", list |-> "exclude", auto |-> TRUE]>>

Named(list) ==
    [i \in DOMAIN options[list] |-> [path |-> options[list][i], list |-> list, auto |-> FALSE]]

ArgsDone ==
    /\ stage = "args" /\ at > Len(args)
    /\ to_load' = (IF options.no_auto_files THEN <<>> ELSE AutoFiles)
                  \o Named("rules") \o Named("exclude") \o Named("hostlist")
    /\ Go("load")
    /\ UNCHANGED <<args, options, faulty, found, loaded, problems, outcome>>

Reader(list) == IF list = "rules" THEN "rules" ELSE "exclude"
At(dir, path, list) == [dir |-> dir, path |-> path, reader |-> Reader(list)]

(* One disk: a place is there for both readers or for none, and read twice is the same. *)
Agree(looked) ==
    \A r \in DOMAIN looked, s \in DOMAIN found :
        r.dir = s.dir /\ r.path = s.path =>
            /\ looked[r] = "missing" <=> found[s] = "missing"
            /\ r.reader = s.reader => looked[r] = found[s]

(* An automatic file is looked for under the base path, any other one in the working
   directory and there only if it is not in that.  The entries of a bad file that can
   be read are kept.  A hostlist is read into a RuleSet of its own, which is dropped. *)
Take(dir, fate, problem) ==
    /\ stage = "load" /\ to_load # <<>>
    /\ LET file == Head(to_load)
           read == At(dir, file.path, file.list)
           tried == {At(d, file.path, file.list) : d \in IF file.auto THEN {} ELSE {"here"}}
           looked == [r \in tried \cup {read} |-> IF r = read THEN fate ELSE "missing"]
       IN  /\ file.auto => dir = "base"
           /\ dir = "here" => fate # "missing"
           /\ Agree(looked)
           /\ found' = [r \in DOMAIN found \cup DOMAIN looked |->
                            IF r \in DOMAIN looked THEN looked[r] ELSE found[r]]
           /\ loaded' = IF fate = "missing" \/ file.list = "hostlist" THEN loaded
                        ELSE Append(loaded, read)
    /\ problems' = (problems \/ problem)
    /\ to_load' = Tail(to_load)
    /\ UNCHANGED <<parsing, stage, outcome>>

(* Mutant: a file that does not exist is skipped, whoever asked for it. *)
LoadIfThere(dir, fate) == Take(dir, fate, fate = "bad")

Load(dir, fate) ==
    Take(dir, fate, fate = "bad" \/ (fate = "missing" /\ ~Head(to_load).auto))

LoadDone ==
    /\ stage = "load" /\ to_load = <<>>
    /\ stage' = "start"
    /\ UNCHANGED <<parsing, loading, outcome>>

-----------------------------------------------------------------------------
(* main() *)

Mode(mode) == stage = "start" /\ options.mode = mode

ListRules == Mode("list_rules") /\ End(IF problems THEN "exit 1" ELSE "exit 0")

(* run_check: its failures are those of the prerequisites. *)
RunCheck(failures) == Mode("check") /\ End(IF failures THEN "exit 1" ELSE "exit 0")

Refuse == Mode("run") /\ problems /\ End("refused")

PrintPlan == Mode("run") /\ ~problems /\ options.dry_run /\ End("exit 0")

(* Rights are missing, or the handle cannot be opened. *)
CannotCapture == Mode("run") /\ ~problems /\ ~options.dry_run /\ End("exit 1")

Run == Mode("run") /\ ~problems /\ ~options.dry_run /\ End("running")

Next ==
    \/ Scan \/ ScanDone \/ ConfigMissing \/ ConfigLine \/ ConfigDone
    \/ ParseArg \/ ArgsDone
    \/ \E dir \in {"here", "base"}, fate \in {"good", "bad", "missing"} : Load(dir, fate)
    \/ LoadDone
    \/ ListRules \/ Refuse \/ PrintPlan \/ CannotCapture \/ Run
    \/ \E failures \in BOOLEAN : RunCheck(failures)

Spec == Init /\ [][Next]_vars

-----------------------------------------------------------------------------
(* Properties *)

(* Command lines in the forms of the usage text, --key or --key=value. *)
Plain ==
    \A arg \in ToSet(args) :
        /\ arg.key # Bare
        /\ arg.key \in DOMAIN ValueFlags \cup {"--filter"} => ~Lacks(arg)
        /\ arg.key = "--config" => ~Separate(arg)

(* The setting and value an argument, or a line, asks for. *)
Wish(arg) ==
    IF arg.key \in DOMAIN FixedFlags
    THEN [setting |-> Setting(FixedFlags[arg.key][2]), value |-> Word(FixedFlags[arg.key][3])]
    ELSE IF arg.key \in DOMAIN ValueFlags
    THEN [setting |-> Setting(ValueFlags[arg.key][2]), value |-> arg.value]
    ELSE [setting |-> "none", value |-> Nothing]

(* "--config=" takes back what an earlier --config named. *)
LastConfig ==
    LET named == {i \in DOMAIN args : args[i].key = "--config"}
        file == IF named = {} THEN "" ELSE Text(args[Max(named)].value)
    IN  IF file = "" THEN <<>> ELSE ConfigFiles[file]

Wishes ==
    [i \in DOMAIN LastConfig |->
        [setting |-> Setting(LastConfig[i].key), value |-> LastConfig[i].value]]
    \o [i \in DOMAIN args |-> Wish(args[i])]

(* What is asked of a setting, one after the other. *)
Values(s) ==
    LET wishes == Wishes
        Upto[n \in 0..Len(wishes)] ==
            IF n = 0 THEN <<>>
            ELSE IF wishes[n].setting # s THEN Upto[n - 1]
            ELSE Append(Upto[n - 1], Meaning(s, wishes[n].value))
    IN  Upto[Len(wishes)]

Asked(s) ==
    LET values == Values(s)
    IN  IF s \in FileLists THEN values
        ELSE IF values = <<>> THEN DefaultOptions[s] ELSE Last(values)

(* "A --config file is applied first so that explicit flags can override it"
   (src/cli.cpp:381): wherever --config stands among the arguments, a setting has
   the value of its last flag, else of its last line in that file, else its default;
   the files to load are those of the configuration file, then those of the flags.
   This is how load_configuration finds the options as it begins.               *)
FlagsOverrideFile ==
    stage = "load" /\ found = <<>> /\ Plain => \A s \in Settings : options[s] = Asked(s)

(* Where the file asked for was taken from. *)
Resolved(path, list) ==
    IF found[At("here", path, list)] = "missing" THEN At("base", path, list)
    ELSE At("here", path, list)

(* "Auto-loaded files that do not exist are skipped; explicitly requested ones are
   errors" (src/app/main.cpp:58-59): the program captures only with every rule and
   exclude file it was asked for, each of them read, as what it was asked for, without
   a problem, from the working directory or else from the base path; and with the
   automatic ones if they exist and were not declined, or else only if asked for. *)
RunsWithItsFiles ==
    outcome = "running" /\ Plain =>
        /\ \A list \in FileLists : \A path \in ToSet(Asked(list)) :
            /\ found[Resolved(path, list)] = "good"
            /\ list # "hostlist" => Resolved(path, list) \in ToSet(loaded)
        /\ \A file \in ToSet(AutoFiles) :
            LET read == At("base", file.path, file.list)
            IN  IF Asked("no_auto_files")
                THEN read \in ToSet(loaded) => file.path \in ToSet(Asked(file.list))
                ELSE \/ found[read] = "missing"
                     \/ found[read] = "good" /\ read \in ToSet(loaded)

(* The options of the usage text (src/cli.cpp:601-646) that take no value. *)
UsageFlags ==
    {"--listed", "--all-hosts", "--act-without-sni", "--no-auto-files", "--list-rules",
     "--badseq", "--badsum", "--randomize-random", "--all-tcp", "--capture-loopback",
     "--tls", "--http", "--quic", "--check", "--stats", "--no-stats", "--dry-run",
     "--version", "--help"}

(* Every option the usage text offers is accepted, alone and in combination. *)
UsageIsHonoured ==
    (\A arg \in ToSet(args) : arg.key \in UsageFlags) => outcome # "rejected"
=============================================================================
