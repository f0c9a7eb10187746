---------------------------- MODULE StartUpProofs -----------------------------
(* What holds of StartUp for command lines of any length, any configuration files and
   any fate of the files they name: the options the program runs with are those it
   was asked for, and so are its files.                                        *)
EXTENDS StartUp, SequenceTheorems, WellFoundedInduction, TLAPS

-----------------------------------------------------------------------------
(* Loops.  Induction over naturals goes through the least counterexample. *)

LEMMA Least ==
    ASSUME NEW T \in SUBSET Nat, T # {} PROVE \E n \in T : \A m \in T : n <= m
<1>1. IsWellFoundedOn(OpToRel(<, Nat), Nat)
  BY NatLessThanWellFounded
<1>2. PICK n \in T : \A m \in T : ~ (<<m, n>> \in OpToRel(<, Nat))
  BY <1>1, WFMin
<1>3. \A m \in T : ~ (m < n)
  BY <1>2 DEF OpToRel
<1> QED
  BY <1>3

LEMMA StepBefore ==
    ASSUME NEW N \in Nat, NEW n \in 1..N
    PROVE  n \in 0..N /\ n - 1 \in 0..N /\ n # 0 /\ n \in Nat /\ n - 1 \in Nat
  OBVIOUS

(* A loop over 1..n: whatever a step makes of what the last one left, there is a
   function that holds what each of them leaves.                              *)
Runs(n, first, step, run) ==
    run[0] = first /\ \A i \in 1..n : run[i] = step[i][run[i - 1]]

LEMMA LoopRuns ==
    ASSUME NEW n \in Nat, NEW X, NEW first \in X, NEW step \in [1..n -> [X -> X]]
    PROVE  \E run \in [0..n -> X] : Runs(n, first, step, run)
<1> DEFINE Bad == {k \in 0..n : ~ \E run \in [0..k -> X] : Runs(k, first, step, run)}
<1> SUFFICES ASSUME Bad # {} PROVE FALSE
  BY DEF Bad
<1>1. PICK k \in Bad : \A i \in Bad : k <= i
  <2>1. Bad \in SUBSET Nat
    OBVIOUS
  <2> QED
    BY <2>1, Least
<1>2. k \in 0..n /\ ~ \E run \in [0..k -> X] : Runs(k, first, step, run)
  BY <1>1
<1>3. k # 0
  <2> SUFFICES ASSUME k = 0 PROVE FALSE
    OBVIOUS
  <2> DEFINE run == [i \in 0..k |-> first]
  <2>1. run \in [0..k -> X] /\ run[0] = first
    OBVIOUS
  <2>2. 1..k = {}
    OBVIOUS
  <2>3. Runs(k, first, step, run)
    BY <2>1, <2>2 DEF Runs
  <2> QED
    BY <1>2, <2>1, <2>3
<1>4. k - 1 \in 0..n /\ k - 1 \notin Bad
  BY <1>1, <1>2, <1>3
<1>5. PICK run \in [0..k - 1 -> X] : Runs(k - 1, first, step, run)
  BY <1>4
<1> HIDE DEF Bad
<1> DEFINE more == [i \in 0..k |-> IF i = k THEN step[k][run[k - 1]] ELSE run[i]]
<1>6. run[k - 1] \in X /\ step[k][run[k - 1]] \in X
  <2>1. k \in 1..n /\ k - 1 \in 0..k - 1
    BY <1>2, <1>3
  <2>2. run[k - 1] \in X /\ step[k] \in [X -> X]
    BY <2>1, <1>5
  <2> QED
    BY <2>2
<1>7. \A i \in 0..k : i # k => i \in 0..k - 1
  BY <1>2
<1>8. more \in [0..k -> X]
  BY <1>6, <1>7
<1>9. Runs(k, first, step, more)
  <2>1. more[0] = first
    <3>1. 0 \in 0..k /\ 0 # k
      BY <1>2, <1>3
    <3> QED
      BY <3>1, <1>5 DEF Runs
  <2>2. ASSUME NEW i \in 1..k PROVE more[i] = step[i][more[i - 1]]
    <3>1. i \in 0..k /\ i - 1 \in 0..k /\ i - 1 # k
      BY <1>2
    <3>2. more[i - 1] = run[i - 1]
      BY <3>1
    <3>3. CASE i = k
      BY <3>1, <3>2, <3>3
    <3>4. CASE i # k
      <4>1. i \in 1..k - 1
        BY <1>2, <3>4
      <4> QED
        BY <3>1, <3>2, <3>4, <4>1, <1>5 DEF Runs
    <3> QED
      BY <3>3, <3>4
  <2> QED
    BY <2>1, <2>2 DEF Runs
<1> QED
  BY <1>2, <1>8, <1>9

(* What holds at first, and again after each step, holds at the end. *)
LEMMA LoopKeeps ==
    ASSUME NEW n \in Nat, NEW Kept \in SUBSET (0..n), 0 \in Kept,
           \A i \in 1..n : i - 1 \in Kept => i \in Kept
    PROVE  \A i \in 0..n : i \in Kept
<1> DEFINE Bad == {i \in 0..n : i \notin Kept}
<1> SUFFICES ASSUME Bad # {} PROVE FALSE
  OBVIOUS
<1>1. PICK i \in Bad : \A k \in Bad : i <= k
  <2>1. Bad \in SUBSET Nat
    OBVIOUS
  <2> QED
    BY <2>1, Least
<1>2. i \in 1..n /\ i - 1 \in 0..n /\ ~(i <= i - 1)
  BY <1>1
<1>3. i - 1 \in Kept
  BY <1>1, <1>2
<1> QED
  BY <1>1, <1>2, <1>3
-----------------------------------------------------------------------------
(* The tables *)

LEMMA SettingFacts ==
    /\ Settings \subseteq DOMAIN DefaultOptions
    /\ {"none", "mode", "config_file", "dry_run", "filter_overridden", "auto_decoy"}
            \cap Settings = {}
    /\ FileLists \subseteq Settings /\ "no_auto_files" \in Settings
    /\ "strategy" \in Settings /\ "strategy" \notin FileLists
    /\ {"mode", "config_file", "dry_run", "filter_overridden", "auto_decoy"}
            \subseteq DOMAIN DefaultOptions
  BY DEF Settings, DefaultOptions, FileLists

LEMMA DefaultFacts ==
    /\ DefaultOptions.config_file = ""
    /\ \A s \in FileLists : DefaultOptions[s] = <<>>
<1>1. DefaultOptions.config_file = ""
  BY DEF DefaultOptions
<1>2. /\ DefaultOptions["rules"] = <<>> /\ DefaultOptions["exclude"] = <<>>
      /\ DefaultOptions["hostlist"] = <<>>
  BY DEF DefaultOptions
<1> QED
  BY <1>1, <1>2 DEF FileLists

(* No option is in two tables. *)
LEMMA TablesApart ==
    /\ DOMAIN FixedFlags \cap DOMAIN ValueFlags = {}
    /\ DOMAIN Modes \cap (DOMAIN FixedFlags \cup DOMAIN ValueFlags) = {}
    /\ {"--dry-run", "--config", "--filter"}
            \cap (DOMAIN FixedFlags \cup DOMAIN ValueFlags) = {}
<1>1. DOMAIN FixedFlags =
        {"--all-hosts", "--listed", "--all-tcp", "--capture-loopback", "--no-auto-files",
         "--no-stats", "--tls", "--http", "--quic", "--badseq", "--badsum",
         "--randomize-random", "--act-without-sni"}
  BY DEF Table, FixedFlags
<1>2. DOMAIN ValueFlags =
        {"--rules", "--exclude", "--hostlist", "--strategy", "--log-level", "--sni-wait",
         "--ttl", "--repeats", "--segs", "--split", "--fake-sni", "--udplen",
         "--stats-interval", "--flow-capacity", "--flow-ttl", "--flow-stream-budget",
         "--tcp-ports", "--http-ports", "--udp-ports", "--priority", "--seed"}
  BY DEF Table, ValueFlags
<1>3. DOMAIN Modes = {"--check", "--list-rules"}
  BY DEF Table, Modes
<1> QED
  BY <1>1, <1>2, <1>3

(* apply_setting: one setting changes, and with the strategy what follows from it. *)
LEMMA AppliedSets ==
    ASSUME NEW o, DOMAIN o = DOMAIN DefaultOptions, NEW key, NEW v,
           Setting(key) \in Settings
    PROVE  LET applied == Applied(o, key, v)
               s == Setting(key)
           IN  /\ DOMAIN applied = DOMAIN DefaultOptions
               /\ applied[s] = IF s \in FileLists THEN Append(o[s], Meaning(s, v))
                               ELSE Meaning(s, v)
               /\ \A t \in Settings \ {s} : applied[t] = o[t]
               /\ applied.config_file = o.config_file
<1> DEFINE s == Setting(key)
           applied == Applied(o, key, v)
<1>1. s \in DOMAIN o /\ Settings \subseteq DOMAIN o
  BY SettingFacts
<1>2. /\ "config_file" \notin Settings /\ "auto_decoy" \notin Settings
      /\ {"config_file", "auto_decoy"} \subseteq DOMAIN o
      /\ "strategy" \notin FileLists
  BY SettingFacts
<1> HIDE DEF s
<1>3. CASE s \in FileLists
  <2>1. applied = [o EXCEPT ![s] = Append(@, Meaning(s, v))]
    BY <1>3 DEF Applied, s
  <2> HIDE DEF applied
  <2> QED
    BY <1>1, <1>2, <1>3, <2>1 DEF s, applied
<1>4. CASE s = "strategy"
  <2>1. applied = [o EXCEPT ![s] = Meaning(s, v), !.auto_decoy = (Text(v) = "fake-auto")]
    BY <1>2, <1>4 DEF Applied, s
  <2> HIDE DEF applied
  <2> QED
    BY <1>1, <1>2, <1>4, <2>1 DEF s, applied
<1>5. CASE s \notin FileLists /\ s # "strategy"
  <2>1. applied = [o EXCEPT ![s] = Meaning(s, v)]
    BY <1>5 DEF Applied, s
  <2> HIDE DEF applied
  <2> QED
    BY <1>1, <1>2, <1>5, <2>1 DEF s, applied
<1> QED
  BY <1>3, <1>4, <1>5

-----------------------------------------------------------------------------
(* What the command line asks for *)

ArgsTyped == args \in Seq(ArgPool)

(* The configuration file that the first n arguments name. *)
ConfigName(n) ==
    LET named == {i \in 1..n : args[i].key = "--config"}
    IN  IF named = {} THEN "" ELSE Text(args[Max(named)].value)

LEMMA MaxIs ==
    ASSUME NEW T \in SUBSET Int, NEW m \in T, \A i \in T : i <= m
    PROVE  Max(T) = m
<1> DEFINE Top(x) == x \in T /\ \A y \in T : x >= y
<1>1. Max(T) = CHOOSE x \in T : \A y \in T : x >= y
  BY DEF Max
<1>2. \A y \in T : m >= y
  OBVIOUS
<1>3. Max(T) \in T /\ \A y \in T : Max(T) >= y
  BY <1>1, <1>2
<1>4. Max(T) >= m /\ m >= Max(T) /\ Max(T) \in Int
  BY <1>2, <1>3
<1> QED
  BY <1>4

LEMMA ConfigNameSteps ==
    ASSUME ArgsTyped
    PROVE  /\ ConfigName(0) = ""
           /\ \A n \in 1..Len(args) :
                ConfigName(n) = IF args[n].key = "--config" THEN Text(args[n].value)
                                ELSE ConfigName(n - 1)
<1> DEFINE NamedIn(n) == {i \in 1..n : args[i].key = "--config"}
<1>1. ConfigName(0) = ""
  <2>1. NamedIn(0) = {}
    OBVIOUS
  <2> QED
    BY <2>1 DEF ConfigName
<1>2. ASSUME NEW n \in 1..Len(args), args[n].key = "--config"
      PROVE  ConfigName(n) = Text(args[n].value)
  <2>1. n \in Nat /\ NamedIn(n) \in SUBSET Int /\ n \in NamedIn(n)
        /\ \A i \in NamedIn(n) : i <= n
    BY <1>2
  <2>2. Max(NamedIn(n)) = n
    <3> HIDE DEF NamedIn
    <3> QED
      BY <2>1, MaxIs
  <2>3. NamedIn(n) # {}
    BY <2>1
  <2> QED
    BY <2>2, <2>3 DEF ConfigName
<1>3. ASSUME NEW n \in 1..Len(args), args[n].key # "--config"
      PROVE  ConfigName(n) = ConfigName(n - 1)
  <2>1. n \in Nat
    OBVIOUS
  <2>2. \A i \in 1..n : i \in 1..n - 1 \/ i = n
    BY <2>1
  <2>3. \A i \in 1..n - 1 : i \in 1..n
    BY <2>1
  <2>4. NamedIn(n) = NamedIn(n - 1)
    BY <1>3, <2>2, <2>3
  <2> QED
    BY <2>4 DEF ConfigName
<1> QED
  BY <1>1, <1>2, <1>3

(* There is no such name, it is not that of a file, or LastConfig is what the file says. *)
Known == ConfigName(Len(args)) \in {""} \cup DOMAIN ConfigFiles

LEMMA LastConfigIs ==
    ASSUME ArgsTyped, Known
    PROVE  /\ LastConfig = IF ConfigName(Len(args)) = "" THEN <<>>
                           ELSE ConfigFiles[ConfigName(Len(args))]
           /\ LastConfig \in Seq(ToSet(LastConfig))
<1> DEFINE name == ConfigName(Len(args))
<1>1. DOMAIN args = 1..Len(args)
  BY DEF ArgsTyped
<1>2. LastConfig = IF name = "" THEN <<>> ELSE ConfigFiles[name]
  BY <1>1 DEF LastConfig, ConfigName
<1> HIDE DEF name
<1>3. LastConfig \in Seq(ToSet(LastConfig))
  <2>1. CASE name = ""
    <3>1. LastConfig = <<>>
      BY <1>2, <2>1
    <3> QED
      BY <3>1, EmptySeq
  <2>2. CASE name # ""
    <3>1. name \in DOMAIN ConfigFiles
      BY <2>2 DEF Known, name
    <3>2. LastConfig = ConfigFiles[name]
      BY <1>2, <2>2
    <3> QED
      BY <3>1, <3>2, ConfigAssumption DEF ConfigAssumption
  <2> QED
    BY <2>1, <2>2
<1> QED
  BY <1>2, <1>3 DEF name

LineWish(i) == [setting |-> Setting(LastConfig[i].key), value |-> LastConfig[i].value]

LEMMA WishesAre ==
    ASSUME ArgsTyped, Known
    PROVE  /\ Len(LastConfig) \in Nat /\ Len(args) \in Nat
           /\ Len(Wishes) = Len(LastConfig) + Len(args)
           /\ \A i \in 1..Len(LastConfig) : Wishes[i] = LineWish(i)
           /\ \A i \in 1..Len(args) : Wishes[Len(LastConfig) + i] = Wish(args[i])
<1> DEFINE C == Len(LastConfig)
           A == Len(args)
           first == [i \in 1..C |-> LineWish(i)]
           second == [i \in 1..A |-> Wish(args[i])]
           S == {first[i] : i \in 1..C} \cup {second[i] : i \in 1..A}
<1>1. C \in Nat /\ A \in Nat /\ DOMAIN LastConfig = 1..C /\ DOMAIN args = 1..A
  <2>1. LastConfig \in Seq(ToSet(LastConfig))
    BY LastConfigIs
  <2> QED
    BY <2>1 DEF ArgsTyped
<1>2. Wishes = first \o second
  BY <1>1 DEF Wishes, LineWish
<1> HIDE DEF C, A
<1>3. first \in [1..C -> S] /\ second \in [1..A -> S]
  OBVIOUS
<1>4. \A i \in 1..C : first[i] = LineWish(i)
  OBVIOUS
<1>5. \A i \in 1..A : second[i] = Wish(args[i])
  OBVIOUS
<1> HIDE DEF first, second, S
<1>6. first \in Seq(S) /\ Len(first) = C /\ second \in Seq(S) /\ Len(second) = A
  BY <1>1, <1>3
<1>7. /\ Len(first \o second) = Len(first) + Len(second)
      /\ \A i \in 1..Len(first) + Len(second) :
            (first \o second)[i] = IF i <= Len(first) THEN first[i] ELSE second[i - Len(first)]
  BY <1>6, ConcatProperties
<1>8. /\ Len(Wishes) = C + A
      /\ \A i \in 1..C + A : Wishes[i] = IF i <= C THEN first[i] ELSE second[i - C]
  BY <1>2, <1>6, <1>7
<1>9. ASSUME NEW i \in 1..C PROVE Wishes[i] = LineWish(i)
  <2>1. i \in 1..C + A /\ i <= C
    BY <1>1
  <2> QED
    BY <1>4, <1>8, <2>1
<1>10. ASSUME NEW i \in 1..A PROVE Wishes[C + i] = Wish(args[i])
  <2>1. C + i \in 1..C + A /\ ~(C + i <= C) /\ (C + i) - C = i
    BY <1>1
  <2>2. Wishes[C + i] = second[(C + i) - C]
    BY <1>8, <2>1
  <2> QED
    BY <1>5, <2>1, <2>2
<1> QED
  BY <1>1, <1>8, <1>9, <1>10 DEF C, A

IsValues(s, upto) ==
    upto = [n \in 0..Len(Wishes) |->
                IF n = 0 THEN <<>>
                ELSE IF Wishes[n].setting # s THEN upto[n - 1]
                ELSE Append(upto[n - 1], Meaning(s, Wishes[n].value))]

(* What is asked of a setting by the first wishes. *)
ValuesUpto(s) == CHOOSE upto : IsValues(s, upto)
AskedUpto(s, n) ==
    LET values == ValuesUpto(s)[n]
    IN  IF s \in FileLists THEN values
        ELSE IF values = <<>> THEN DefaultOptions[s] ELSE Last(values)
MeaningsOf(s) == {Meaning(s, Wishes[n].value) : n \in 1..Len(Wishes)}

LEMMA ValuesRun ==
    ASSUME ArgsTyped, Known, NEW s
    PROVE  /\ ValuesUpto(s)[0] = <<>>
           /\ \A n \in 0..Len(Wishes) : ValuesUpto(s)[n] \in Seq(MeaningsOf(s))
           /\ \A n \in 1..Len(Wishes) :
                ValuesUpto(s)[n] = IF Wishes[n].setting # s THEN ValuesUpto(s)[n - 1]
                                   ELSE Append(ValuesUpto(s)[n - 1],
                                               Meaning(s, Wishes[n].value))
           /\ Values(s) = ValuesUpto(s)[Len(Wishes)]
<1> DEFINE N == Len(Wishes)
           M == MeaningsOf(s)
           X == Seq(M)
           value(n) == Meaning(s, Wishes[n].value)
           After(n) == [x \in X |-> IF Wishes[n].setting # s THEN x ELSE Append(x, value(n))]
           step == [n \in 1..N |-> After(n)]
           upto == ValuesUpto(s)
<1>1. N \in Nat
  BY WishesAre
<1>2. Values(s) = upto[N]
  BY DEF Values, ValuesUpto, IsValues
<1>3. \A n \in 1..N : value(n) \in M
  BY DEF MeaningsOf
<1> HIDE DEF N, M, value
<1>4. step \in [1..N -> [X -> X]]
  <2>1. ASSUME NEW n \in 1..N PROVE After(n) \in [X -> X]
    <3>1. value(n) \in M
      BY <1>3
    <3>2. \A x \in X : Append(x, value(n)) \in X
      BY <3>1, AppendProperties
    <3> HIDE DEF X
    <3> QED
      BY <3>2
  <2> HIDE DEF After
  <2> QED
    BY <2>1
<1>5. <<>> \in X
  BY EmptySeq
<1>6. PICK run \in [0..N -> X] : Runs(N, <<>>, step, run)
  <2> HIDE DEF step, X
  <2> QED
    BY <1>1, <1>4, <1>5, LoopRuns
<1>7. ASSUME NEW n \in 1..N
      PROVE  run[n] = IF Wishes[n].setting # s THEN run[n - 1]
                      ELSE Append(run[n - 1], value(n))
  <2>1. run[n] = step[n][run[n - 1]]
    BY <1>6 DEF Runs
  <2>2. n - 1 \in 0..N
    BY <1>1, StepBefore
  <2>3. run[n - 1] \in X
    BY <1>6, <2>2
  <2> HIDE DEF X
  <2> QED
    BY <2>1, <2>3
<1>8. IsValues(s, run)
  <2>1. run[0] = <<>>
    BY <1>6 DEF Runs
  <2>2. \A n \in 0..N : n # 0 => n \in 1..N
    BY <1>1
  <2>3. run = [n \in 0..N |-> run[n]]
    BY <1>6
  <2>4. run = [n \in 0..N |-> IF n = 0 THEN <<>>
                              ELSE IF Wishes[n].setting # s THEN run[n - 1]
                              ELSE Append(run[n - 1], value(n))]
    BY <2>1, <2>2, <2>3, <1>7
  <2> QED
    BY <2>4 DEF IsValues, N, value
<1>9. IsValues(s, upto)
  BY <1>8 DEF ValuesUpto
<1> HIDE DEF upto
<1>10. /\ upto[0] = <<>>
       /\ \A n \in 1..N : upto[n] = IF Wishes[n].setting # s THEN upto[n - 1]
                                    ELSE Append(upto[n - 1], value(n))
  <2>1. 0 \in 0..N /\ \A n \in 1..N : n \in 0..N /\ n # 0
    BY <1>1
  <2>2. upto = [n \in 0..N |-> IF n = 0 THEN <<>>
                               ELSE IF Wishes[n].setting # s THEN upto[n - 1]
                               ELSE Append(upto[n - 1], value(n))]
    BY <1>9 DEF IsValues, N, value
  <2> QED
    BY <2>1, <2>2
<1> DEFINE Kept == {n \in 0..N : upto[n] \in X}
<1>11. 0 \in Kept
  <2>1. 0 \in 0..N
    BY <1>1
  <2>2. upto[0] \in X
    <3> HIDE DEF X
    <3> QED
      BY <1>5, <1>10
  <2> QED
    BY <2>1, <2>2
<1>12. ASSUME NEW n \in 1..N, n - 1 \in Kept PROVE n \in Kept
  <2>1. upto[n - 1] \in X /\ n \in 0..N
    BY <1>1, <1>12
  <2>2. Append(upto[n - 1], value(n)) \in X
    BY <1>3, <2>1, AppendProperties
  <2> HIDE DEF X
  <2> QED
    BY <1>10, <2>1, <2>2
<1>13. \A n \in 0..N : n \in Kept
  <2>1. Kept \in SUBSET (0..N)
    OBVIOUS
  <2> HIDE DEF Kept
  <2> QED
    BY <1>1, <1>11, <1>12, <2>1, LoopKeeps
<1> QED
  BY <1>2, <1>10, <1>13 DEF N, M, value, upto

LEMMA AskedSteps ==
    ASSUME ArgsTyped, Known, NEW s \in Settings
    PROVE  /\ AskedUpto(s, 0) = DefaultOptions[s]
           /\ \A n \in 1..Len(Wishes) :
                AskedUpto(s, n) =
                    IF Wishes[n].setting # s THEN AskedUpto(s, n - 1)
                    ELSE IF s \in FileLists
                    THEN Append(AskedUpto(s, n - 1), Meaning(s, Wishes[n].value))
                    ELSE Meaning(s, Wishes[n].value)
           /\ Asked(s) = AskedUpto(s, Len(Wishes))
           /\ s \in FileLists => Asked(s) \in Seq(MeaningsOf(s))
<1> DEFINE N == Len(Wishes)
           X == Seq(MeaningsOf(s))
           upto == ValuesUpto(s)
           value(n) == Meaning(s, Wishes[n].value)
<1>1. N \in Nat
  BY WishesAre
<1>2. /\ upto[0] = <<>> /\ \A n \in 0..N : upto[n] \in X
      /\ \A n \in 1..N : upto[n] = IF Wishes[n].setting # s THEN upto[n - 1]
                                   ELSE Append(upto[n - 1], value(n))
      /\ Values(s) = upto[N]
  BY ValuesRun
<1>3. \A n \in 1..N : value(n) \in MeaningsOf(s)
  BY DEF MeaningsOf
<1>4. \A n : AskedUpto(s, n) = IF s \in FileLists THEN upto[n]
                               ELSE IF upto[n] = <<>> THEN DefaultOptions[s]
                               ELSE Last(upto[n])
  BY DEF AskedUpto
<1>5. Asked(s) = AskedUpto(s, N)
  BY <1>2 DEF Asked, AskedUpto
<1> HIDE DEF N, upto, value
<1>6. AskedUpto(s, 0) = DefaultOptions[s]
  BY <1>2, <1>4, DefaultFacts
<1>7. ASSUME NEW n \in 1..N
      PROVE  AskedUpto(s, n) =
                IF Wishes[n].setting # s THEN AskedUpto(s, n - 1)
                ELSE IF s \in FileLists THEN Append(AskedUpto(s, n - 1), value(n))
                ELSE value(n)
  <2>1. CASE Wishes[n].setting # s
    <3>1. upto[n] = upto[n - 1]
      BY <1>2, <2>1
    <3> QED
      BY <1>4, <2>1, <3>1
  <2>2. CASE Wishes[n].setting = s
    <3> DEFINE before == upto[n - 1]
    <3>1. upto[n] = Append(before, value(n))
      BY <1>2, <2>2
    <3>2. before \in X /\ value(n) \in MeaningsOf(s)
      BY <1>1, <1>2, <1>3, StepBefore
    <3>3. /\ Append(before, value(n)) \in Seq(MeaningsOf(s))
          /\ Len(Append(before, value(n))) = Len(before) + 1
          /\ Append(before, value(n))[Len(before) + 1] = value(n)
      BY <3>2, AppendProperties
    <3>4. Len(before) \in Nat
      BY <3>2
    <3>5. Append(before, value(n)) # <<>> /\ Last(Append(before, value(n))) = value(n)
      BY <3>3, <3>4 DEF Last
    <3> HIDE DEF X
    <3>6. CASE s \in FileLists
      BY <1>4, <2>2, <3>1, <3>6
    <3>7. CASE s \notin FileLists
      BY <1>4, <2>2, <3>1, <3>5, <3>7
    <3> QED
      BY <3>6, <3>7
  <2> QED
    BY <2>1, <2>2
<1>8. s \in FileLists => Asked(s) \in X
  <2>1. N \in 0..N
    BY <1>1
  <2>2. upto[N] \in X
    BY <1>2, <2>1
  <2> QED
    BY <1>4, <1>5, <2>2
<1> QED
  BY <1>5, <1>6, <1>7, <1>8 DEF N, value

(* The command line stays what it is, and so does what it asks for. *)
LEMMA ArgsFixed ==
    ASSUME UNCHANGED args
    PROVE  /\ ArgsTyped' = ArgsTyped /\ Plain' = Plain /\ Known' = Known
           /\ LastConfig' = LastConfig /\ Wishes' = Wishes
           /\ \A n : ConfigName(n)' = ConfigName(n)
           /\ \A s, n : AskedUpto(s, n)' = AskedUpto(s, n)
           /\ \A s : Asked(s)' = Asked(s)
<1>1. \A n : ConfigName(n)' = ConfigName(n)
  BY DEF ConfigName
<1>2. LastConfig' = LastConfig
  BY DEF LastConfig
<1>3. Wishes' = Wishes
  BY <1>2 DEF Wishes, Wish
<1>4. \A s, n : AskedUpto(s, n)' = AskedUpto(s, n)
  BY <1>3 DEF AskedUpto, ValuesUpto, IsValues
<1>5. \A s : Asked(s)' = Asked(s)
  BY <1>3 DEF Asked, Values
<1>6. ArgsTyped' = ArgsTyped /\ Plain' = Plain
  BY DEF ArgsTyped, Plain, Separate, Lacks
<1>7. Known' = Known
  BY DEF Known, ConfigName
<1> QED
  BY <1>1, <1>2, <1>3, <1>4, <1>5, <1>6, <1>7

(* The options hold what the first n wishes ask for. *)
AskedSoFar(n) == \A s \in Settings : options[s] = AskedUpto(s, n)

(* The next wish is for none of the settings, or it is granted. *)
LEMMA NotAsked ==
    ASSUME ArgsTyped, Known, NEW n \in 1..Len(Wishes), AskedSoFar(n - 1),
           Wishes[n].setting \notin Settings, \A s \in Settings : options'[s] = options[s]
    PROVE  \A s \in Settings : options'[s] = AskedUpto(s, n)
<1> TAKE s \in Settings
<1>1. AskedUpto(s, n) = AskedUpto(s, n - 1)
  BY AskedSteps
<1> QED
  BY <1>1 DEF AskedSoFar

LEMMA Granted ==
    ASSUME ArgsTyped, Known, NEW n \in 1..Len(Wishes), AskedSoFar(n - 1),
           DOMAIN options = DOMAIN DefaultOptions,
           NEW key, NEW v, Setting(key) \in Settings,
           Wishes[n].setting = Setting(key), Wishes[n].value = v,
           options' = Applied(options, key, v)
    PROVE  \A s \in Settings : options'[s] = AskedUpto(s, n)
<1> TAKE s \in Settings
<1>1. AskedUpto(s, n) =
        IF Setting(key) # s THEN AskedUpto(s, n - 1)
        ELSE IF s \in FileLists THEN Append(AskedUpto(s, n - 1), Meaning(s, v))
        ELSE Meaning(s, v)
  <2>1. AskedUpto(s, n) =
            IF Wishes[n].setting # s THEN AskedUpto(s, n - 1)
            ELSE IF s \in FileLists
            THEN Append(AskedUpto(s, n - 1), Meaning(s, Wishes[n].value))
            ELSE Meaning(s, Wishes[n].value)
    BY AskedSteps
  <2> QED
    BY <2>1
<1>2. /\ options'[Setting(key)] =
            IF Setting(key) \in FileLists
            THEN Append(options[Setting(key)], Meaning(Setting(key), v))
            ELSE Meaning(Setting(key), v)
      /\ \A t \in Settings \ {Setting(key)} : options'[t] = options[t]
  BY AppliedSets
<1>3. options[s] = AskedUpto(s, n - 1)
  BY DEF AskedSoFar
<1>4. CASE Setting(key) = s
  BY <1>1, <1>2, <1>3, <1>4
<1>5. CASE Setting(key) # s
  BY <1>1, <1>2, <1>3, <1>5
<1> QED
  BY <1>4, <1>5
-----------------------------------------------------------------------------
(* The options are those asked for *)

ScanCollects ==
    /\ at <= Len(args) + 1
    /\ options.config_file = ConfigName(at - 1)
    /\ \A s \in Settings : options[s] = DefaultOptions[s]
ConfigCollects ==
    /\ options.config_file = ConfigName(Len(args)) /\ options.config_file # ""
    /\ options.config_file \in DOMAIN ConfigFiles =>
        at <= Len(LastConfig) + 1 /\ (~faulty => AskedSoFar(at - 1))
ArgsCollect ==
    Known /\ at <= Len(args) + 1 /\ AskedSoFar(Len(LastConfig) + (at - 1))
AllCollected == Known /\ \A s \in Settings : options[s] = Asked(s)

Collected ==
    /\ stage = "scan" => ScanCollects
    /\ stage = "config" => ConfigCollects
    /\ stage = "args" => ArgsCollect
    /\ stage \in {"load", "start"} \/ outcome = "running" => AllCollected

TypeInv ==
    /\ ArgsTyped
    /\ at \in Nat \ {0}
    /\ DOMAIN options = DOMAIN DefaultOptions
    /\ stage \in {"scan", "config", "args", "load", "start", "ended"}
    /\ faulty \in BOOLEAN
    /\ outcome = "running" => stage = "ended"

OptionsInv == TypeInv /\ (stage = "scan" => ~faulty) /\ (Plain => Collected)

LEMMA OptionsInit == Init => OptionsInv
<1> SUFFICES ASSUME Init PROVE OptionsInv
  OBVIOUS
<1>1. ArgsTyped
  <2>1. args \in UNION {[1..m -> ArgPool] : m \in 0..MaxArgs}
    BY DEF Init, BoundedSeq, SeqOf
  <2> QED
    <3>1. PICK m \in 0..MaxArgs : args \in [1..m -> ArgPool]
      BY <2>1
    <3>2. MaxArgs \in Nat
      BY Zenon, ArgsAssumption DEF ArgsAssumption
    <3>3. m \in Nat
      BY <3>2
    <3> QED
      BY <3>1, <3>3 DEF ArgsTyped
<1>2. ConfigName(at - 1) = ""
  <2>1. at - 1 = 0
    BY DEF Init
  <2> QED
    BY <1>1, <2>1, ConfigNameSteps
<1>3. Len(args) \in Nat
  BY <1>1 DEF ArgsTyped
<1>4. /\ at = 1 /\ stage = "scan" /\ faulty = FALSE /\ outcome = "starting"
      /\ options = DefaultOptions
  BY DEF Init
<1>5. TypeInv
  <2>1. DOMAIN options = DOMAIN DefaultOptions /\ at \in Nat \ {0}
    BY <1>4
  <2> QED
    BY Zenon, <1>1, <1>4, <2>1 DEF TypeInv
<1>6. Collected
  <2>1. at <= Len(args) + 1
    BY <1>3, <1>4
  <2>2. \A s \in Settings : options[s] = DefaultOptions[s]
    BY <1>4
  <2>3. options.config_file = ConfigName(at - 1)
    BY Zenon, <1>2, <1>4, DefaultFacts
  <2> QED
    BY Zenon, <1>4, <2>1, <2>2, <2>3 DEF Collected, ScanCollects
<1> QED
  BY <1>4, <1>5, <1>6 DEF OptionsInv

LEMMA ArgsStay == [Next]_vars => UNCHANGED args
<1> SUFFICES ASSUME [Next]_vars PROVE UNCHANGED args
  OBVIOUS
<1>1. CASE UNCHANGED vars
  BY <1>1 DEF vars, parsing
<1>2. ASSUME ParseArg PROVE UNCHANGED args
  BY <1>2 DEF ParseArg, HelpOrVersion, SetMode, DryRun, ConfigFlag, Filter, SetFixed, SetValue,
     UnknownOption, Consume, End, parsing
<1>3. CASE Next
  BY <1>2, <1>3 DEF Next, Scan, ScanDone, ConfigMissing, ConfigLine, ConfigDone, ArgsDone, Load,
     Take, LoadDone, ListRules, Refuse, PrintPlan, CannotCapture, Run, RunCheck, End, parsing
<1> QED
  BY <1>1, <1>3

(* Every step that ends the program, and what it makes of it. *)
Ending ==
    \/ \E what \in {"rejected", "exit 0", "exit 1", "refused"} : End(what)
    \/ Run

(* The steps of load_configuration. *)
Loads ==
    \/ \E dir \in {"here", "base"}, fate \in {"good", "bad", "missing"} : Load(dir, fate)
    \/ LoadDone

LEMMA StepKinds ==
    ASSUME Next
    PROVE  \/ Scan \/ ScanDone \/ ConfigLine \/ (ConfigDone /\ ~faulty)
           \/ SetMode \/ DryRun \/ ConfigFlag \/ (Filter /\ HasValue(Lacks(Arg)))
           \/ ((SetFixed \/ SetValue) /\ stage' = "args")
           \/ ArgsDone \/ Loads \/ Ending
<1>1. /\ ConfigMissing => Ending
      /\ (ConfigDone /\ faulty) => Ending
      /\ HelpOrVersion => Ending
      /\ UnknownOption => Ending
      /\ (Filter /\ ~HasValue(Lacks(Arg))) => Ending
  BY Zenon DEF ConfigMissing, ConfigDone, HelpOrVersion, UnknownOption, Filter, Ending
<1>2. SetFixed => stage' = "args" \/ Ending
  BY DEF SetFixed, AtArg, Consume, Ending
<1>3. SetValue => stage' = "args" \/ Ending
  BY DEF SetValue, AtArg, Consume, Ending
<1>4. ListRules \/ Refuse \/ PrintPlan \/ CannotCapture \/ Run => Ending
  BY Zenon DEF ListRules, Refuse, PrintPlan, CannotCapture, Ending
<1>5. (\E failures \in BOOLEAN : RunCheck(failures)) => Ending
  BY Zenon DEF RunCheck, Ending
<1> QED
  BY Zenon, <1>1, <1>2, <1>3, <1>4, <1>5 DEF Next, ParseArg, Loads

(* An option taken without a value is one step, any other is two at most. *)
LEMMA TakenIs == \A apart : Taken(apart) \in {1, 2}
  BY DEF Taken

LEMMA TypeNext == TypeInv /\ [Next]_vars => TypeInv'
<1> SUFFICES ASSUME TypeInv, [Next]_vars PROVE TypeInv'
  OBVIOUS
<1>1. ArgsTyped'
  BY ArgsStay DEF TypeInv, ArgsTyped
<1>2. /\ ArgsTyped /\ at \in Nat \ {0} /\ DOMAIN options = DOMAIN DefaultOptions
      /\ stage \in {"scan", "config", "args", "load", "start", "ended"}
      /\ faulty \in BOOLEAN /\ (outcome = "running" => stage = "ended")
  BY Zenon DEF TypeInv
<1> SUFFICES /\ at' \in Nat \ {0} /\ DOMAIN options' = DOMAIN DefaultOptions
             /\ stage' \in {"scan", "config", "args", "load", "start", "ended"}
             /\ faulty' \in BOOLEAN /\ (outcome' = "running" => stage' = "ended")
  BY Zenon, <1>1 DEF TypeInv
<1>3. CASE UNCHANGED vars
  BY <1>2, <1>3 DEF vars, parsing, loading
<1>4. CASE Scan
  <2>1. /\ at' = at + 1 \/ at' = at + Taken(Separate(Arg))
        /\ DOMAIN options' = DOMAIN options
        /\ UNCHANGED <<stage, faulty, outcome>>
    BY <1>4 DEF Scan
  <2> QED
    BY <1>2, <2>1, TakenIs
<1>5. CASE ScanDone
  <2>1. /\ stage = "scan" /\ stage' \in {"args", "config"} /\ at' = 1
        /\ UNCHANGED <<options, faulty, outcome>>
    BY <1>5 DEF ScanDone, Go
  <2> QED
    BY <1>2, <2>1
<1>6. CASE ConfigLine
  <2>1. at' = at + 1 /\ UNCHANGED <<stage, outcome>> /\ faulty' \in BOOLEAN
    BY <1>2, <1>6 DEF ConfigLine
  <2>2. \/ options' = options
        \/ \E key, v : Setting(key) \in Settings /\ options' = Applied(options, key, v)
    BY <1>6 DEF ConfigLine, Accepted
  <2>3. DOMAIN options' = DOMAIN DefaultOptions
    BY <1>2, <2>2, AppliedSets
  <2> QED
    BY <1>2, <2>1, <2>3
<1>7. CASE ConfigDone /\ ~faulty
  BY <1>2, <1>7 DEF ConfigDone, Go
<1>8. CASE SetMode \/ DryRun \/ ConfigFlag
  <2>1. at' = at + 1 /\ DOMAIN options' = DOMAIN options /\ UNCHANGED <<stage, faulty, outcome>>
    BY <1>8 DEF SetMode, DryRun, ConfigFlag, Consume
  <2> QED
    BY <1>2, <2>1
<1>9. CASE Filter /\ HasValue(Lacks(Arg))
  <2>1. /\ at' = at + Taken(Lacks(Arg)) /\ DOMAIN options' = DOMAIN options
        /\ UNCHANGED <<stage, faulty, outcome>>
    BY <1>9 DEF Filter, Consume
  <2> QED
    BY <1>2, <2>1, TakenIs
<1>10. CASE (SetFixed \/ SetValue) /\ stage' = "args"
  <2>1. ~ \E what : End(what)
    BY <1>10 DEF End
  <2>2. \/ at' = at + 1 \/ at' = at + Taken(Lacks(Arg))
    BY <1>10, <2>1 DEF SetFixed, SetValue, Consume
  <2>3. \E key, v : Setting(key) \in Settings /\ options' = Applied(options, key, v)
    BY <1>10, <2>1 DEF SetFixed, SetValue, Consume, Accepted
  <2>4. UNCHANGED <<stage, faulty, outcome>>
    BY <1>10, <2>1 DEF SetFixed, SetValue, Consume
  <2>5. DOMAIN options' = DOMAIN DefaultOptions
    BY <1>2, <2>3, AppliedSets
  <2> QED
    BY <1>2, <2>2, <2>4, <2>5, TakenIs
<1>11. CASE ArgsDone
  BY <1>2, <1>11 DEF ArgsDone, Go
<1>12. CASE Loads
  BY <1>2, <1>12 DEF Loads, Load, Take, LoadDone, parsing
<1>13. CASE Ending
  BY <1>2, <1>13 DEF Ending, Run, Mode, End, parsing
<1> QED
  BY Zenon, <1>3, <1>4, <1>5, <1>6, <1>7, <1>8, <1>9, <1>10, <1>11, <1>12, <1>13, StepKinds

(* What the command line asks for up to where the next state is. *)
LEMMA SoFarNext ==
    ASSUME UNCHANGED args
    PROVE  /\ ConfigName(at - 1)' = ConfigName(at' - 1)
           /\ ConfigName(Len(args))' = ConfigName(Len(args))
           /\ (\A s \in Settings : options'[s] = AskedUpto(s, at' - 1))
                => AskedSoFar(at - 1)'
           /\ (\A s \in Settings : options'[s] = AskedUpto(s, Len(LastConfig) + (at' - 1)))
                => AskedSoFar(Len(LastConfig) + (at - 1))'
           /\ (\A s \in Settings : options'[s] = Asked(s))
                => (\A s \in Settings : options[s] = Asked(s))'
<1>1. ConfigName(at - 1)' = ConfigName(at' - 1)
      /\ ConfigName(Len(args))' = ConfigName(Len(args))
  BY DEF ConfigName
<1>2. LastConfig' = LastConfig /\ Wishes' = Wishes
  BY ArgsFixed
<1>3. \A s : AskedUpto(s, at - 1)' = AskedUpto(s, at' - 1)
  BY <1>2 DEF AskedUpto, ValuesUpto, IsValues
<1>4. \A s : AskedUpto(s, Len(LastConfig) + (at - 1))'
                = AskedUpto(s, Len(LastConfig) + (at' - 1))
  BY <1>2 DEF AskedUpto, ValuesUpto, IsValues
<1>5. \A s : Asked(s)' = Asked(s)
  BY ArgsFixed
<1>6. (\A s \in Settings : options'[s] = AskedUpto(s, at' - 1)) => AskedSoFar(at - 1)'
  BY <1>3 DEF AskedSoFar
<1>7. (\A s \in Settings : options'[s] = AskedUpto(s, Len(LastConfig) + (at' - 1)))
        => AskedSoFar(Len(LastConfig) + (at - 1))'
  BY <1>4 DEF AskedSoFar
<1> QED
  BY <1>1, <1>5, <1>6, <1>7

(* An option in the form of the usage text is one step, and its value is its own. *)
LEMMA PlainArg ==
    ASSUME ArgsTyped, Plain, at \in 1..Len(args)
    PROVE  /\ Arg.key \in DOMAIN ValueFlags \cup {"--filter"} =>
                /\ HasValue(Lacks(Arg)) /\ Taken(Lacks(Arg)) = 1
                /\ ValueOf(Lacks(Arg)) = Arg.value
           /\ Arg.key = "--config" =>
                /\ HasValue(Separate(Arg)) /\ Taken(Separate(Arg)) = 1
                /\ ValueOf(Separate(Arg)) = Arg.value
<1>1. Arg \in ToSet(args)
  BY DEF ArgsTyped, ToSet, Arg
<1>2. /\ Arg.key \in DOMAIN ValueFlags \cup {"--filter"} => ~Lacks(Arg)
      /\ Arg.key = "--config" => ~Separate(Arg)
  BY Zenon, <1>1 DEF Plain
<1>3. \A apart : ~apart => HasValue(apart) /\ Taken(apart) = 1 /\ ValueOf(apart) = Arg.value
  BY Zenon DEF HasValue, Taken, ValueOf
<1> QED
  BY Zenon, <1>2, <1>3

LEMMA ScanCollected ==
    ASSUME OptionsInv, Plain, Scan, TypeInv' PROVE Collected'
<1>1. /\ ArgsTyped /\ at \in Nat \ {0} /\ DOMAIN options = DOMAIN DefaultOptions
      /\ stage = "scan" /\ ScanCollects /\ at <= Len(args)
      /\ UNCHANGED args /\ stage' = "scan"
  BY DEF OptionsInv, TypeInv, Collected, Scan
<1>2. outcome' # "running"
  BY <1>1 DEF TypeInv
<1>3. Len(args) \in Nat
  BY <1>1 DEF ArgsTyped
<1>4. PICK n \in 1..Len(args) : n = at
  BY <1>1, <1>3
<1>5. at' = at + 1
      /\ options' = IF Arg.key = "--config"
                    THEN [options EXCEPT !.config_file = Text(Arg.value)] ELSE options
  BY <1>1, <1>4, PlainArg DEF Scan
<1>6. n - 1 = at - 1 /\ n = at' - 1 /\ at' <= Len(args) + 1
  BY <1>3, <1>4, <1>5
<1>7. ConfigName(n) = IF Arg.key = "--config" THEN Text(Arg.value) ELSE ConfigName(n - 1)
  BY <1>1, <1>4, ConfigNameSteps DEF Arg
<1>8. options.config_file = ConfigName(n - 1)
      /\ \A s \in Settings : options[s] = DefaultOptions[s]
  BY <1>1, <1>6 DEF ScanCollects
<1>9. "config_file" \in DOMAIN options /\ "config_file" \notin Settings
      /\ Settings \subseteq DOMAIN options
  BY <1>1, SettingFacts
<1>10. options'.config_file = ConfigName(n)
  BY <1>5, <1>7, <1>8, <1>9
<1>11. \A s \in Settings : options'[s] = DefaultOptions[s]
  BY <1>5, <1>8, <1>9
<1>12. ScanCollects'
  BY <1>1, <1>6, <1>10, <1>11, SoFarNext DEF ScanCollects
<1> QED
  BY Zenon, <1>1, <1>2, <1>12 DEF Collected

LEMMA ScanDoneCollected ==
    ASSUME OptionsInv, Plain, ScanDone, TypeInv' PROVE Collected'
<1>1. /\ ArgsTyped /\ at \in Nat \ {0} /\ stage = "scan" /\ ScanCollects /\ ~faulty
      /\ at > Len(args) /\ UNCHANGED <<args, options, faulty>> /\ at' = 1
  BY DEF OptionsInv, TypeInv, Collected, ScanDone, Go
<1>2. stage' = IF options.config_file = "" THEN "args" ELSE "config"
  BY DEF ScanDone, Go
<1>3. outcome' # "running"
  BY <1>2 DEF TypeInv
<1>4. Len(args) \in Nat /\ at - 1 = Len(args) /\ at' - 1 = 0
  BY <1>1 DEF ArgsTyped, ScanCollects
<1>5. options.config_file = ConfigName(Len(args))
      /\ \A s \in Settings : options[s] = DefaultOptions[s]
  BY <1>1, <1>4 DEF ScanCollects
<1>6. CASE options.config_file = ""
  <2>1. Known /\ ConfigName(Len(args)) = ""
    BY <1>5, <1>6 DEF Known
  <2>2. LastConfig = <<>>
    BY <1>1, <2>1, LastConfigIs
  <2>3. Len(LastConfig) + (at' - 1) = 0
    BY <1>4, <2>2
  <2>4. \A s \in Settings : options'[s] = AskedUpto(s, Len(LastConfig) + (at' - 1))
    BY <1>1, <1>5, <2>1, <2>3, AskedSteps
  <2>5. AskedSoFar(Len(LastConfig) + (at - 1))'
    BY <1>1, <2>4, SoFarNext
  <2>6. Known'
    BY Zenon, <1>1, <2>1, ArgsFixed
  <2>7. at' <= Len(args') + 1
    BY <1>1, <1>4
  <2>8. ArgsCollect'
    BY <2>5, <2>6, <2>7 DEF ArgsCollect
  <2> QED
    BY <1>2, <1>3, <1>6, <2>8 DEF Collected
<1>7. CASE options.config_file # ""
  <2>1. options.config_file \in DOMAIN ConfigFiles =>
            at' <= Len(LastConfig) + 1 /\ AskedSoFar(at - 1)'
    <3> SUFFICES ASSUME options.config_file \in DOMAIN ConfigFiles
                 PROVE  at' <= Len(LastConfig) + 1 /\ AskedSoFar(at - 1)'
      OBVIOUS
    <3>1. Known
      BY <1>5 DEF Known
    <3>2. Len(LastConfig) \in Nat
      BY <1>1, <3>1, WishesAre
    <3>3. \A s \in Settings : options'[s] = AskedUpto(s, at' - 1)
      BY <1>1, <1>4, <1>5, <3>1, AskedSteps
    <3>4. AskedSoFar(at - 1)'
      BY <1>1, <3>3, SoFarNext
    <3> QED
      BY <1>1, <3>2, <3>4
  <2>2. ConfigName(Len(args))' = ConfigName(Len(args)) /\ LastConfig' = LastConfig
    BY <1>1, SoFarNext, ArgsFixed
  <2>3. ConfigCollects'
    BY <1>1, <1>5, <1>7, <2>1, <2>2 DEF ConfigCollects
  <2> QED
    BY <1>2, <1>3, <1>7, <2>3 DEF Collected
<1> QED
  BY <1>6, <1>7

LEMMA ConfigLineCollected ==
    ASSUME OptionsInv, Plain, ConfigLine, TypeInv' PROVE Collected'
<1>1. /\ ArgsTyped /\ at \in Nat \ {0} /\ DOMAIN options = DOMAIN DefaultOptions
      /\ stage = "config" /\ ConfigCollects /\ at <= Len(ConfigLines)
      /\ UNCHANGED args /\ stage' = "config" /\ at' = at + 1
  BY DEF OptionsInv, TypeInv, Collected, ConfigLine
<1>2. outcome' # "running"
  BY <1>1 DEF TypeInv
<1>3. options.config_file \in DOMAIN ConfigFiles
  BY <1>1 DEF ConfigLines
<1>4. Known /\ options.config_file = ConfigName(Len(args)) /\ options.config_file # ""
      /\ (~faulty => AskedSoFar(at - 1))
  BY <1>1, <1>3 DEF ConfigCollects, Known
<1>5. ConfigLines = LastConfig
  BY <1>1, <1>3, <1>4, LastConfigIs DEF ConfigLines
<1>6. /\ Len(LastConfig) \in Nat /\ Len(args) \in Nat
      /\ Len(Wishes) = Len(LastConfig) + Len(args)
      /\ \A i \in 1..Len(LastConfig) : Wishes[i] = LineWish(i)
  BY <1>1, <1>4, WishesAre
<1>7. PICK n \in 1..Len(Wishes) : n = at /\ n \in 1..Len(LastConfig)
  BY <1>1, <1>5, <1>6
<1>8. n - 1 = at - 1 /\ n = at' - 1 /\ at' <= Len(LastConfig) + 1
  BY <1>1, <1>6, <1>7
<1> DEFINE line == LastConfig[n]
<1>9. Wishes[n].setting = Setting(line.key) /\ Wishes[n].value = line.value
  <2>1. Wishes[n] = LineWish(n)
    BY <1>6, <1>7
  <2>2. LineWish(n) = [setting |-> Setting(line.key), value |-> line.value]
    BY Zenon DEF LineWish
  <2> HIDE DEF line
  <2> QED
    BY <2>1, <2>2
<1>10. \/ /\ Setting(line.key) \in Settings
          /\ options' = Applied(options, line.key, line.value) /\ UNCHANGED faulty
       \/ faulty' = TRUE /\ UNCHANGED options
  BY <1>5, <1>7 DEF ConfigLine, Accepted
<1> HIDE DEF line
<1>11. options'.config_file = options.config_file
  BY <1>1, <1>10, AppliedSets
<1>12. ~faulty' => AskedSoFar(at - 1)'
  <2> SUFFICES ASSUME ~faulty' PROVE AskedSoFar(at - 1)'
    OBVIOUS
  <2>1. Setting(line.key) \in Settings /\ options' = Applied(options, line.key, line.value)
        /\ AskedSoFar(n - 1)
    BY <1>4, <1>8, <1>10
  <2>2. \A s \in Settings : options'[s] = AskedUpto(s, n)
    BY <1>1, <1>4, <1>9, <2>1, Granted
  <2> QED
    BY <1>1, <1>8, <2>2, SoFarNext
<1>13. ConfigName(Len(args))' = ConfigName(Len(args)) /\ LastConfig' = LastConfig
  BY <1>1, SoFarNext, ArgsFixed
<1>14. ConfigCollects'
  BY <1>4, <1>8, <1>11, <1>12, <1>13 DEF ConfigCollects
<1> QED
  BY Zenon, <1>1, <1>2, <1>14 DEF Collected

LEMMA ConfigDoneCollected ==
    ASSUME OptionsInv, Plain, ConfigDone, ~faulty, TypeInv' PROVE Collected'
<1>1. /\ ArgsTyped /\ at \in Nat \ {0} /\ stage = "config" /\ ConfigCollects
      /\ options.config_file \in DOMAIN ConfigFiles /\ at > Len(ConfigLines)
      /\ UNCHANGED <<args, options>> /\ stage' = "args" /\ at' = 1
  BY DEF OptionsInv, TypeInv, Collected, ConfigDone, Go
<1>2. outcome' # "running"
  BY <1>1 DEF TypeInv
<1>3. Known /\ options.config_file = ConfigName(Len(args)) /\ options.config_file # ""
      /\ AskedSoFar(at - 1) /\ at <= Len(LastConfig) + 1
  BY <1>1 DEF ConfigCollects, Known
<1>4. ConfigLines = LastConfig
  BY <1>1, <1>3, LastConfigIs DEF ConfigLines
<1>5. Len(LastConfig) \in Nat /\ Len(args) \in Nat
  BY <1>1, <1>3, WishesAre
<1>6. Len(LastConfig) + (at' - 1) = at - 1
  <2>1. at > Len(LastConfig) /\ at' - 1 = 0
    BY <1>1, <1>4
  <2>2. at \in Nat /\ at <= Len(LastConfig) + 1 /\ Len(LastConfig) \in Nat
    BY Zenon, <1>1, <1>3, <1>5
  <2>3. at = Len(LastConfig) + 1
    BY <2>1, <2>2
  <2> QED
    BY <2>1, <2>2, <2>3
<1>7. AskedSoFar(Len(LastConfig) + (at - 1))'
  BY <1>1, <1>3, <1>6, SoFarNext DEF AskedSoFar
<1>8. Known'
  BY Zenon, <1>1, <1>3, ArgsFixed
<1>9. at' <= Len(args') + 1
  BY <1>1, <1>5
<1>10. ArgsCollect'
  BY <1>7, <1>8, <1>9 DEF ArgsCollect
<1> QED
  BY Zenon, <1>1, <1>2, <1>10 DEF Collected

(* In the second loop: where it stands among the wishes, and what it has granted. *)
LEMMA AtWish ==
    ASSUME OptionsInv, Plain, stage = "args", at <= Len(args)
    PROVE  /\ ArgsTyped /\ Known /\ at \in 1..Len(args) /\ Len(args) \in Nat
           /\ DOMAIN options = DOMAIN DefaultOptions /\ outcome # "running"
           /\ Len(LastConfig) + at \in 1..Len(Wishes)
           /\ (Len(LastConfig) + at) - 1 = Len(LastConfig) + (at - 1)
           /\ Len(LastConfig) + ((at + 1) - 1) = Len(LastConfig) + at
           /\ AskedSoFar((Len(LastConfig) + at) - 1)
           /\ Wishes[Len(LastConfig) + at] = Wish(Arg)
<1>1. /\ ArgsTyped /\ Known /\ at \in Nat \ {0} /\ DOMAIN options = DOMAIN DefaultOptions
      /\ outcome # "running" /\ ArgsCollect
  BY DEF OptionsInv, TypeInv, Collected, ArgsCollect
<1>2. /\ Len(LastConfig) \in Nat /\ Len(args) \in Nat
      /\ Len(Wishes) = Len(LastConfig) + Len(args)
      /\ \A i \in 1..Len(args) : Wishes[Len(LastConfig) + i] = Wish(args[i])
  BY <1>1, WishesAre
<1>3. at \in 1..Len(args)
  BY <1>1, <1>2
<1>4. /\ Len(LastConfig) + at \in 1..Len(Wishes)
      /\ (Len(LastConfig) + at) - 1 = Len(LastConfig) + (at - 1)
      /\ Len(LastConfig) + ((at + 1) - 1) = Len(LastConfig) + at
  BY <1>2, <1>3
<1>5. Wishes[Len(LastConfig) + at] = Wish(Arg)
  BY <1>2, <1>3 DEF Arg
<1>6. AskedSoFar((Len(LastConfig) + at) - 1)
  BY <1>1, <1>4 DEF ArgsCollect
<1> QED
  BY <1>1, <1>2, <1>3, <1>4, <1>5, <1>6

(* One argument further, with what it wishes for granted. *)
LEMMA NextArg ==
    ASSUME OptionsInv, Plain, stage = "args", at <= Len(args), TypeInv', at' = at + 1,
           UNCHANGED <<args, stage>>,
           \A s \in Settings : options'[s] = AskedUpto(s, Len(LastConfig) + at)
    PROVE  Collected'
<1>1. /\ ArgsTyped /\ Known /\ at \in 1..Len(args) /\ Len(args) \in Nat
      /\ Len(LastConfig) + ((at + 1) - 1) = Len(LastConfig) + at
  BY AtWish
<1>2. outcome' # "running"
  BY DEF TypeInv
<1>3. AskedSoFar(Len(LastConfig) + (at - 1))'
  BY <1>1, SoFarNext
<1>4. Known'
  BY Zenon, <1>1, ArgsFixed
<1>5. at' <= Len(args') + 1
  BY <1>1
<1>6. ArgsCollect'
  BY <1>3, <1>4, <1>5 DEF ArgsCollect
<1> QED
  BY <1>2, <1>6 DEF Collected

LEMMA OtherArgCollected ==
    ASSUME OptionsInv, Plain, TypeInv',
           SetMode \/ DryRun \/ ConfigFlag \/ (Filter /\ HasValue(Lacks(Arg)))
    PROVE  Collected'
<1>1. /\ stage = "args" /\ at <= Len(args)
      /\ Arg.key \in DOMAIN Modes \cup {"--dry-run", "--config", "--filter"}
      /\ UNCHANGED <<args, stage>>
      /\ at' = at + 1 \/ (Arg.key = "--filter" /\ at' = at + Taken(Lacks(Arg)))
  BY DEF SetMode, DryRun, ConfigFlag, Filter, AtArg, Consume
<1>2. \/ options' = options
      \/ options' = [options EXCEPT !.mode = Modes[Arg.key][2]]
      \/ options' = [options EXCEPT !.dry_run = TRUE]
      \/ options' = [options EXCEPT !.filter_overridden = TRUE]
  BY DEF SetMode, DryRun, ConfigFlag, Filter, Consume
<1>3. /\ ArgsTyped /\ Known /\ at \in 1..Len(args)
      /\ DOMAIN options = DOMAIN DefaultOptions
      /\ Len(LastConfig) + at \in 1..Len(Wishes)
      /\ AskedSoFar((Len(LastConfig) + at) - 1)
      /\ Wishes[Len(LastConfig) + at] = Wish(Arg)
  BY <1>1, AtWish
<1>4. at' = at + 1
  BY <1>1, <1>3, PlainArg
<1>5. Wishes[Len(LastConfig) + at].setting \notin Settings
  <2>1. Arg.key \notin DOMAIN FixedFlags /\ Arg.key \notin DOMAIN ValueFlags
    BY <1>1, TablesApart
  <2>2. Wish(Arg) = [setting |-> "none", value |-> Nothing]
    BY Zenon, <2>1 DEF Wish
  <2>3. Wish(Arg).setting = "none"
    BY <2>2
  <2> QED
    BY <1>3, <2>3, SettingFacts
<1>6. \A s \in Settings : options'[s] = options[s]
  BY <1>2, <1>3, SettingFacts
<1>7. PICK n \in 1..Len(Wishes) : n = Len(LastConfig) + at
  BY <1>3
<1>8. \A s \in Settings : options'[s] = AskedUpto(s, n)
  BY <1>3, <1>5, <1>6, <1>7, NotAsked
<1> QED
  BY <1>1, <1>4, <1>7, <1>8, NextArg

LEMMA SettingCollected ==
    ASSUME OptionsInv, Plain, TypeInv', SetFixed \/ SetValue, stage' = "args"
    PROVE  Collected'
<1>1. /\ stage = "args" /\ at <= Len(args)
      /\ Arg.key \in DOMAIN FixedFlags \cup DOMAIN ValueFlags
      /\ UNCHANGED <<args, stage>>
  BY DEF SetFixed, SetValue, AtArg, Consume, End
<1>2. /\ ArgsTyped /\ Known /\ at \in 1..Len(args)
      /\ DOMAIN options = DOMAIN DefaultOptions
      /\ Len(LastConfig) + at \in 1..Len(Wishes)
      /\ AskedSoFar((Len(LastConfig) + at) - 1)
      /\ Wishes[Len(LastConfig) + at] = Wish(Arg)
  BY <1>1, AtWish
<1> DEFINE row == FixedFlags[Arg.key]
           flag == ValueFlags[Arg.key][2]
<1>3. /\ at' = at + 1
      /\ \E key, v : /\ Wish(Arg) = [setting |-> Setting(key), value |-> v]
                     /\ Setting(key) \in Settings /\ options' = Applied(options, key, v)
  <2>1. CASE SetFixed
    <3>1. Arg.key \in DOMAIN FixedFlags
      BY <2>1 DEF SetFixed, AtArg
    <3>2. Consume(1, Applied(options, row[2], Word(row[3]))) /\ Accepted(row[2], Word(row[3]))
      BY <2>1 DEF SetFixed, End
    <3>3. Wish(Arg) = [setting |-> Setting(row[2]), value |-> Word(row[3])]
      BY Zenon, <3>1 DEF Wish
    <3> QED
      BY Zenon, <3>2, <3>3 DEF Consume, Accepted
  <2>2. CASE SetValue
    <3>1. Arg.key \in DOMAIN ValueFlags /\ Arg.key \notin DOMAIN FixedFlags
      BY <2>2, TablesApart DEF SetValue, AtArg
    <3>2. /\ Consume(Taken(Lacks(Arg)), Applied(options, flag, ValueOf(Lacks(Arg))))
          /\ Accepted(flag, ValueOf(Lacks(Arg)))
      BY <2>2 DEF SetValue, End
    <3>3. Taken(Lacks(Arg)) = 1 /\ ValueOf(Lacks(Arg)) = Arg.value
      BY <1>2, <3>1, PlainArg
    <3>4. Wish(Arg) = [setting |-> Setting(flag), value |-> Arg.value]
      BY Zenon, <3>1 DEF Wish
    <3> QED
      BY Zenon, <3>2, <3>3, <3>4 DEF Consume, Accepted
  <2> QED
    BY <2>1, <2>2
<1>4. PICK key, v : /\ Wish(Arg) = [setting |-> Setting(key), value |-> v]
                    /\ Setting(key) \in Settings /\ options' = Applied(options, key, v)
  BY <1>3
<1>5. Wishes[Len(LastConfig) + at].setting = Setting(key)
      /\ Wishes[Len(LastConfig) + at].value = v
  BY <1>2, <1>4
<1>6. PICK n \in 1..Len(Wishes) : n = Len(LastConfig) + at
  BY <1>2
<1>7. \A s \in Settings : options'[s] = AskedUpto(s, n)
  BY <1>2, <1>4, <1>5, <1>6, Granted
<1> QED
  BY <1>1, <1>3, <1>6, <1>7, NextArg

LEMMA ArgsDoneCollected ==
    ASSUME OptionsInv, Plain, TypeInv', ArgsDone PROVE Collected'
<1>1. /\ ArgsTyped /\ Known /\ at \in Nat \ {0} /\ ArgsCollect /\ at > Len(args)
      /\ UNCHANGED <<args, options>> /\ stage' = "load"
  BY DEF OptionsInv, TypeInv, Collected, ArgsCollect, ArgsDone, Go
<1>2. /\ Len(LastConfig) \in Nat /\ Len(args) \in Nat
      /\ Len(Wishes) = Len(LastConfig) + Len(args)
  BY <1>1, WishesAre
<1>3. Len(LastConfig) + (at - 1) = Len(Wishes)
  <2>1. at \in Nat /\ at <= Len(args) + 1 /\ at > Len(args)
    BY Zenon, <1>1 DEF ArgsCollect
  <2>2. at = Len(args) + 1
    BY <1>2, <2>1
  <2> QED
    BY <1>2, <2>2
<1>4. \A s \in Settings : options'[s] = Asked(s)
  BY <1>1, <1>3, AskedSteps DEF ArgsCollect, AskedSoFar
<1>5. (\A s \in Settings : options[s] = Asked(s))'
  BY <1>1, <1>4, SoFarNext
<1>6. AllCollected'
  BY Zenon, <1>1, <1>5, ArgsFixed DEF AllCollected
<1> QED
  BY <1>1, <1>6 DEF Collected

(* The steps that leave the options and the command line alone. *)
LEMMA StillCollected ==
    ASSUME OptionsInv, Plain, TypeInv', Loads \/ Ending PROVE Collected'
<1>1. UNCHANGED <<args, options>>
  BY DEF Loads, Load, Take, LoadDone, Ending, Run, End, parsing
<1>2. /\ stage' \notin {"scan", "config", "args"}
      /\ stage' \in {"load", "start"} \/ outcome' = "running" => stage \in {"load", "start"}
  BY DEF Loads, Load, Take, LoadDone, Ending, Run, Mode, End, OptionsInv, TypeInv
<1>3. ASSUME AllCollected PROVE AllCollected'
  <2>1. (\A s \in Settings : options[s] = Asked(s))'
    BY <1>1, <1>3, SoFarNext DEF AllCollected
  <2> QED
    BY Zenon, <1>1, <1>3, <2>1, ArgsFixed DEF AllCollected
<1> QED
  BY <1>2, <1>3 DEF Collected, OptionsInv

LEMMA CollectedNext == OptionsInv /\ [Next]_vars => OptionsInv'
<1> SUFFICES ASSUME OptionsInv, [Next]_vars PROVE OptionsInv'
  OBVIOUS
<1>1. TypeInv'
  BY TypeNext DEF OptionsInv
<1>2. (stage = "scan" => ~faulty)'
  BY DEF OptionsInv, Next, vars, parsing, loading, Scan, ScanDone, ConfigMissing, ConfigLine,
     ConfigDone, ParseArg, HelpOrVersion, SetMode, DryRun, ConfigFlag, Filter, SetFixed,
     SetValue, UnknownOption, AtArg, Consume, Go, ArgsDone, Load, Take, LoadDone, ListRules, Refuse,
     PrintPlan, CannotCapture, Run, RunCheck, End
<1>3. ASSUME Plain' PROVE Collected'
  <2>1. Plain
    BY <1>3, ArgsStay, ArgsFixed
  <2>2. CASE UNCHANGED vars
    <3>1. /\ UNCHANGED <<args, at, stage, options, faulty, outcome>>
      BY <2>2 DEF vars, parsing
    <3>2. Collected
      BY <2>1 DEF OptionsInv
    <3>3. /\ ConfigName(at - 1)' = ConfigName(at - 1)
          /\ ConfigName(Len(args))' = ConfigName(Len(args))
          /\ AskedSoFar(at - 1) => AskedSoFar(at - 1)'
          /\ AskedSoFar(Len(LastConfig) + (at - 1))
                => AskedSoFar(Len(LastConfig) + (at - 1))'
          /\ (\A s \in Settings : options[s] = Asked(s))
                => (\A s \in Settings : options[s] = Asked(s))'
          /\ Known' = Known /\ LastConfig' = LastConfig
      BY <3>1, SoFarNext, ArgsFixed DEF AskedSoFar
    <3> QED
      BY <3>1, <3>2, <3>3
         DEF Collected, ScanCollects, ConfigCollects, ArgsCollect, AllCollected
  <2> QED
    BY Zenon, <1>1, <2>1, <2>2, StepKinds, ScanCollected, ScanDoneCollected,
       ConfigLineCollected, ConfigDoneCollected, OtherArgCollected, SettingCollected,
       ArgsDoneCollected, StillCollected
<1> QED
  BY <1>1, <1>2, <1>3 DEF OptionsInv
-----------------------------------------------------------------------------
(* The files are those asked for *)

LEMMA ConcatSet ==
    ASSUME NEW S, NEW p \in Seq(S), NEW q \in Seq(S)
    PROVE  p \o q \in Seq(S) /\ ToSet(p \o q) = ToSet(p) \cup ToSet(q)
<1>1. p \o q \in Seq(S)
  BY ConcatProperties
<1>2. Range(p \o q) = Range(p) \cup Range(q)
  BY RangeConcatenation
<1> QED
  BY Zenon, <1>1, <1>2 DEF Range, ToSet

LEMMA HeadAndTail ==
    ASSUME NEW S, NEW q \in Seq(S), q # <<>>
    PROVE  /\ Head(q) \in S /\ Tail(q) \in Seq(S)
           /\ \A x \in ToSet(q) : x = Head(q) \/ x \in ToSet(Tail(q))
<1>1. /\ Head(q) \in S /\ Tail(q) \in Seq(S) /\ Len(Tail(q)) = Len(q) - 1
      /\ \A i \in 1..Len(Tail(q)) : Tail(q)[i] = q[i + 1]
  BY HeadTailProperties
<1>2. Len(q) \in Nat /\ DOMAIN q = 1..Len(q) /\ DOMAIN Tail(q) = 1..Len(q) - 1
  BY <1>1
<1>3. ASSUME NEW i \in 1..Len(q) PROVE q[i] = Head(q) \/ q[i] \in ToSet(Tail(q))
  <2>1. CASE i = 1
    BY <2>1
  <2>2. CASE i # 1
    <3>1. i - 1 \in 1..Len(q) - 1 /\ (i - 1) + 1 = i
      BY <1>2, <1>3, <2>2
    <3>2. Tail(q)[i - 1] = q[(i - 1) + 1]
      BY <1>1, <3>1
    <3> QED
      BY <1>2, <3>1, <3>2 DEF ToSet
  <2> QED
    BY <2>1, <2>2
<1> QED
  BY <1>1, <1>2, <1>3 DEF ToSet

LEMMA AppendSet ==
    ASSUME NEW S, NEW q \in Seq(S), NEW x \in S
    PROVE  Append(q, x) \in Seq(S) /\ ToSet(Append(q, x)) = ToSet(q) \cup {x}
<1>1. /\ Append(q, x) \in Seq(S) /\ Len(Append(q, x)) = Len(q) + 1
      /\ \A i \in 1..Len(q) : Append(q, x)[i] = q[i]
      /\ Append(q, x)[Len(q) + 1] = x
  BY AppendProperties
<1>2. /\ Len(q) \in Nat /\ DOMAIN q = 1..Len(q)
      /\ DOMAIN Append(q, x) = 1..Len(q) + 1
      /\ \A i \in 1..Len(q) + 1 : i \in 1..Len(q) \/ i = Len(q) + 1
      /\ \A i \in 1..Len(q) : i \in 1..Len(q) + 1
      /\ Len(q) + 1 \in 1..Len(q) + 1
  BY <1>1
<1> DEFINE r == Append(q, x)
<1> HIDE DEF r
<1> QED
  BY <1>1, <1>2 DEF ToSet, r

LEMMA PairSet ==
    ASSUME NEW a, NEW b PROVE ToSet(<<a, b>>) = {a, b} /\ <<a, b>> \in Seq({a, b})
<1> DEFINE pair == <<a, b>>
<1>1. pair \in Seq({a, b}) /\ DOMAIN pair = 1..2 /\ pair[1] = a /\ pair[2] = b
  OBVIOUS
<1> HIDE DEF pair
<1>2. \A i \in 1..2 : i = 1 \/ i = 2
  OBVIOUS
<1>3. 1 \in 1..2 /\ 2 \in 1..2
  OBVIOUS
<1>4. ToSet(pair) = {a, b}
  BY <1>1, <1>2, <1>3 DEF ToSet
<1> QED
  BY <1>1, <1>4 DEF pair

(* The files load_configuration is to load, in sets. *)
Automatic == IF options.no_auto_files THEN {} ELSE ToSet(AutoFiles)
Requested(list) ==
    {[path |-> path, list |-> list, auto |-> FALSE] : path \in ToSet(options[list])}
Wanted ==
    Automatic \cup Requested("rules") \cup Requested("exclude") \cup Requested("hostlist")
RuleReads ==
    {At(dir, file.path, file.list) :
        dir \in {"here", "base"}, file \in {f \in Wanted : f.list # "hostlist"}}

LEMMA WantedFacts ==
    /\ \A file \in ToSet(AutoFiles) : file.list \in {"rules", "exclude"} /\ file.auto = TRUE
    /\ AutoFiles \in Seq(ToSet(AutoFiles))
    /\ \A list \in FileLists : \A path \in ToSet(options[list]) :
            [path |-> path, list |-> list, auto |-> FALSE] \in Wanted
    /\ \A file \in Wanted :
            \/ file \in Automatic
            \/ \E list \in FileLists : \E path \in ToSet(options[list]) :
                    file = [path |-> path, list |-> list, auto |-> FALSE]
<1> DEFINE first == AutoFiles[1]
           second == AutoFiles[2]
<1>1. AutoFiles = <<first, second>>
  BY DEF AutoFiles
<1>2. first.list = "rules" /\ first.auto = TRUE /\ second.list = "exclude" /\ second.auto = TRUE
  BY DEF AutoFiles
<1> HIDE DEF first, second
<1>3. ToSet(AutoFiles) = {first, second} /\ AutoFiles \in Seq(ToSet(AutoFiles))
  BY <1>1, PairSet
<1>4. FileLists = {"rules", "exclude", "hostlist"}
  BY DEF FileLists
<1>5. \A file \in ToSet(AutoFiles) : file.list \in {"rules", "exclude"} /\ file.auto = TRUE
  BY <1>2, <1>3
<1>6. \A list \in FileLists : \A path \in ToSet(options[list]) :
            [path |-> path, list |-> list, auto |-> FALSE] \in Wanted
  BY <1>4 DEF Wanted, Requested
<1>7. \A file \in Wanted :
            \/ file \in Automatic
            \/ \E list \in FileLists : \E path \in ToSet(options[list]) :
                    file = [path |-> path, list |-> list, auto |-> FALSE]
  BY <1>4 DEF Wanted, Requested
<1> QED
  BY <1>3, <1>5, <1>6, <1>7

(* A file has been looked for, and where it was taken from: what is noted of that, and
   what became of its entries.                                                *)
Place(file) ==
    IF file.auto THEN At("base", file.path, file.list) ELSE Resolved(file.path, file.list)
Read(file) ==
    /\ ~file.auto => At("here", file.path, file.list) \in DOMAIN found
    /\ Place(file) \in DOMAIN found
    /\ ~problems => \/ found[Place(file)] = "good"
                    \/ found[Place(file)] = "missing" /\ file.auto = TRUE
    /\ found[Place(file)] # "missing" /\ file.list # "hostlist" => Place(file) \in ToSet(loaded)

FilesLeft ==
    /\ to_load \in Seq(Wanted)
    /\ loaded \in Seq(RuleReads)
    /\ \A file \in Wanted : file \in ToSet(to_load) \/ Read(file)
    /\ stage # "load" => to_load = <<>>

FilesInv ==
    /\ stage \in {"scan", "config", "args"} => loaded = <<>>
    /\ outcome = "running" => ~problems
    /\ Plain /\ (stage \in {"load", "start"} \/ outcome = "running") => FilesLeft

LEMMA FilesInit == Init => FilesInv
  BY DEF Init, FilesInv

(* What the second loop leaves is what load_configuration starts from. *)
LEMMA FilesFound ==
    ASSUME OptionsInv, OptionsInv', Plain, Plain', loaded = <<>>, ArgsDone PROVE FilesLeft'
<1>1. /\ UNCHANGED <<args, options, loaded>> /\ stage' = "load"
      /\ to_load' = (IF options.no_auto_files THEN <<>> ELSE AutoFiles)
                    \o Named("rules") \o Named("exclude") \o Named("hostlist")
  BY DEF ArgsDone, Go
<1>2. AllCollected'
  BY <1>1 DEF OptionsInv, Collected
<1>3. /\ ArgsTyped /\ Known /\ \A s \in Settings : options[s] = Asked(s)
  <2>1. ArgsTyped /\ Known' /\ (\A s \in Settings : options[s] = Asked(s))'
    BY <1>2 DEF AllCollected, OptionsInv, TypeInv
  <2>2. Known
    BY Zenon, <1>1, <2>1, ArgsFixed
  <2>3. \A s \in Settings : options[s] = Asked(s)
    BY <1>1, <2>1, ArgsFixed
  <2> QED
    BY <2>1, <2>2, <2>3
<1>4. ASSUME NEW list \in FileLists
      PROVE  Named(list) \in Seq(Wanted) /\ ToSet(Named(list)) = Requested(list)
  <2> DEFINE paths == options[list]
             file(path) == [path |-> path, list |-> list, auto |-> FALSE]
  <2>1. paths \in Seq(MeaningsOf(list))
    BY <1>3, AskedSteps, SettingFacts
  <2>2. Len(paths) \in Nat /\ DOMAIN paths = 1..Len(paths)
    BY <2>1
  <2>3. Named(list) = [i \in 1..Len(paths) |-> file(paths[i])]
    BY <2>2 DEF Named
  <2>4. \A i \in 1..Len(paths) : paths[i] \in ToSet(paths) /\ file(paths[i]) \in Wanted
    BY <2>2, WantedFacts DEF ToSet
  <2>5. Requested(list) = {file(path) : path \in ToSet(paths)}
    BY DEF Requested
  <2> HIDE DEF paths, file
  <2>6. Named(list) \in [1..Len(paths) -> Wanted]
    BY <2>3, <2>4
  <2>7. Named(list) \in Seq(Wanted)
    BY <2>2, <2>6
  <2>8. ToSet(Named(list)) = {file(paths[i]) : i \in 1..Len(paths)}
    BY <2>3 DEF ToSet
  <2>9. ToSet(Named(list)) = Requested(list)
    BY <2>2, <2>5, <2>8 DEF ToSet
  <2> QED
    BY <2>7, <2>9
<1> DEFINE autos == IF options.no_auto_files THEN <<>> ELSE AutoFiles
<1>5. autos \in Seq(Wanted) /\ ToSet(autos) = Automatic
  <2>1. CASE options.no_auto_files
    <3>1. autos = <<>> /\ Automatic = {}
      BY <2>1 DEF Automatic
    <3>2. ToSet(<<>>) = {}
      BY DEF ToSet
    <3> QED
      BY <3>1, <3>2, EmptySeq
  <2>2. CASE ~options.no_auto_files
    <3>1. autos = AutoFiles /\ Automatic = ToSet(AutoFiles)
      BY <2>2 DEF Automatic
    <3>2. ToSet(AutoFiles) \subseteq Wanted
      BY <3>1 DEF Wanted
    <3> QED
      BY <3>1, <3>2, WantedFacts, SeqMonotonic
  <2> QED
    BY <2>1, <2>2
<1> DEFINE two == autos \o Named("rules")
           three == two \o Named("exclude")
           four == three \o Named("hostlist")
<1> HIDE DEF autos
<1>6. /\ Named("rules") \in Seq(Wanted) /\ ToSet(Named("rules")) = Requested("rules")
      /\ Named("exclude") \in Seq(Wanted) /\ ToSet(Named("exclude")) = Requested("exclude")
      /\ Named("hostlist") \in Seq(Wanted) /\ ToSet(Named("hostlist")) = Requested("hostlist")
  BY <1>4 DEF FileLists
<1>7. two \in Seq(Wanted) /\ ToSet(two) = Automatic \cup Requested("rules")
  BY <1>5, <1>6, ConcatSet
<1> HIDE DEF two
<1>8. three \in Seq(Wanted)
      /\ ToSet(three) = Automatic \cup Requested("rules") \cup Requested("exclude")
  BY <1>6, <1>7, ConcatSet
<1> HIDE DEF three
<1>9. four \in Seq(Wanted) /\ ToSet(four) = Wanted
  BY <1>6, <1>8, ConcatSet DEF Wanted
<1> HIDE DEF four
<1>10. to_load' = four
  BY <1>1 DEF four, three, two, autos
<1>11. Wanted' = Wanted /\ RuleReads' = RuleReads
  BY <1>1 DEF RuleReads, Wanted, Automatic, Requested, At
<1>12. loaded' \in Seq(RuleReads')
  BY <1>1, EmptySeq
<1>13. to_load' \in Seq(Wanted') /\ \A file \in Wanted' : file \in ToSet(to_load')
  BY <1>9, <1>10, <1>11
<1> QED
  BY <1>1, <1>12, <1>13 DEF FilesLeft

(* The step that looks for a file: what was noted before stays so. *)
LEMMA FileTaken ==
    ASSUME NEW dir \in {"here", "base"}, NEW fate \in {"good", "bad", "missing"},
           Load(dir, fate), NEW next, next = Head(to_load), next.auto \in BOOLEAN
    PROVE  LET read == At(dir, next.path, next.list)
           IN  /\ read \in DOMAIN found' /\ found'[read] = fate
               /\ next.auto => read = At("base", next.path, next.list)
               /\ ~next.auto => /\ At("here", next.path, next.list) \in DOMAIN found'
                               /\ read = Resolved(next.path, next.list)'
               /\ \A r \in DOMAIN found : r \in DOMAIN found' /\ found'[r] = found[r]
               /\ loaded' = IF fate = "missing" \/ next.list = "hostlist" THEN loaded
                            ELSE Append(loaded, read)
<1> DEFINE read == At(dir, next.path, next.list)
           tried == {At(d, next.path, next.list) : d \in IF next.auto THEN {} ELSE {"here"}}
           looked == [r \in tried \cup {read} |-> IF r = read THEN fate ELSE "missing"]
<1>1. /\ next.auto => dir = "base"
      /\ dir = "here" => fate # "missing"
      /\ Agree(looked)
      /\ found' = [r \in DOMAIN found \cup DOMAIN looked |->
                        IF r \in DOMAIN looked THEN looked[r] ELSE found[r]]
      /\ loaded' = IF fate = "missing" \/ next.list = "hostlist" THEN loaded
                   ELSE Append(loaded, read)
  BY DEF Load, Take
<1>2. /\ DOMAIN looked = tried \cup {read} /\ looked[read] = fate
      /\ \A r \in tried : r # read => looked[r] = "missing"
  OBVIOUS
<1>3. ~next.auto => At("here", next.path, next.list) \in tried
  OBVIOUS
<1>4. dir = "base" => At("here", next.path, next.list) # read
  <2>1. read.dir = dir /\ At("here", next.path, next.list).dir = "here"
    BY DEF At
  <2> QED
    BY <2>1
<1> HIDE DEF looked, tried
<1>5. read \in DOMAIN found' /\ found'[read] = fate
  BY <1>1, <1>2
<1>6. \A r \in DOMAIN found : r \in DOMAIN found' /\ found'[r] = found[r]
  BY <1>1 DEF Agree
<1>7. ASSUME ~next.auto
      PROVE  /\ At("here", next.path, next.list) \in DOMAIN found'
             /\ read = Resolved(next.path, next.list)'
  <2>1. /\ At("here", next.path, next.list) \in DOMAIN found'
        /\ found'[At("here", next.path, next.list)]
                = looked[At("here", next.path, next.list)]
    BY <1>1, <1>2, <1>3, <1>7
  <2>2. Resolved(next.path, next.list)' =
            IF looked[At("here", next.path, next.list)] = "missing"
            THEN At("base", next.path, next.list) ELSE At("here", next.path, next.list)
    BY <2>1 DEF Resolved, At
  <2>3. CASE dir = "here"
    BY <1>1, <1>2, <2>1, <2>2, <2>3
  <2>4. CASE dir = "base"
    BY <1>2, <1>3, <1>4, <1>7, <2>1, <2>2, <2>4
  <2> QED
    BY <2>1, <2>3, <2>4
<1>8. next.auto => read = At("base", next.path, next.list)
  BY <1>1
<1> QED
  BY <1>1, <1>5, <1>6, <1>7, <1>8

LEMMA FileLoaded ==
    ASSUME FilesLeft, stage = "load", to_load # <<>>,
           NEW dir \in {"here", "base"}, NEW fate \in {"good", "bad", "missing"},
           Load(dir, fate)
    PROVE  FilesLeft'
<1>1. Head(to_load) \in Wanted
  BY HeadAndTail DEF FilesLeft
<1> PICK next \in Wanted : next = Head(to_load)
  BY <1>1
<1>2. /\ UNCHANGED <<options, stage>> /\ to_load' = Tail(to_load)
      /\ problems' = (problems \/ fate = "bad" \/ (fate = "missing" /\ ~next.auto))
  BY DEF Load, Take, parsing
<1>3. /\ Tail(to_load) \in Seq(Wanted)
      /\ \A file \in ToSet(to_load) : file = next \/ file \in ToSet(Tail(to_load))
  BY HeadAndTail DEF FilesLeft
<1>4. Wanted' = Wanted /\ RuleReads' = RuleReads
  BY <1>2 DEF RuleReads, Wanted, Automatic, Requested, At
<1>5. next.auto \in BOOLEAN
  <2>1. \/ next \in ToSet(AutoFiles)
        \/ \E list \in FileLists : \E path \in ToSet(options[list]) :
                next = [path |-> path, list |-> list, auto |-> FALSE]
    BY WantedFacts DEF Automatic
  <2>2. CASE next \in ToSet(AutoFiles)
    BY <2>2, WantedFacts
  <2>3. ASSUME NEW list \in FileLists, NEW path \in ToSet(options[list]),
               next = [path |-> path, list |-> list, auto |-> FALSE]
        PROVE  next.auto = FALSE
    BY <2>3
  <2> QED
    BY <2>1, <2>2, <2>3
<1> DEFINE read == At(dir, next.path, next.list)
<1>6. /\ read \in DOMAIN found' /\ found'[read] = fate
      /\ next.auto => read = At("base", next.path, next.list)
      /\ ~next.auto => /\ At("here", next.path, next.list) \in DOMAIN found'
                      /\ read = Resolved(next.path, next.list)'
      /\ \A r \in DOMAIN found : r \in DOMAIN found' /\ found'[r] = found[r]
      /\ loaded' = IF fate = "missing" \/ next.list = "hostlist" THEN loaded
                   ELSE Append(loaded, read)
  BY <1>5, FileTaken
<1>7. next.list # "hostlist" => read \in RuleReads
  BY DEF RuleReads
<1> HIDE DEF read
<1>8. /\ loaded' \in Seq(RuleReads) /\ ToSet(loaded) \subseteq ToSet(loaded')
      /\ fate # "missing" /\ next.list # "hostlist" => read \in ToSet(loaded')
  <2>1. CASE fate = "missing" \/ next.list = "hostlist"
    BY <1>6, <2>1 DEF FilesLeft
  <2>2. CASE ~(fate = "missing" \/ next.list = "hostlist")
    <3>1. read \in RuleReads
      BY <1>7, <2>2
    <3>2. loaded' = Append(loaded, read)
      BY <1>6, <2>2
    <3>3. loaded \in Seq(RuleReads)
      BY DEF FilesLeft
    <3> QED
      BY <3>1, <3>2, <3>3, AppendSet
  <2> QED
    BY <2>1, <2>2
<1>9. Read(next)'
  <2>1. Place(next)' = read
    <3>1. CASE next.auto
      BY <1>6, <3>1 DEF Place, At
    <3>2. CASE ~next.auto
      BY <1>6, <3>2 DEF Place
    <3> QED
      BY <3>1, <3>2
  <2>2. ~problems' => fate = "good" \/ (fate = "missing" /\ next.auto = TRUE)
    BY <1>2, <1>5
  <2>3. ~next.auto => At("here", next.path, next.list)' \in DOMAIN found'
    BY <1>6 DEF At
  <2> QED
    BY <1>6, <1>8, <2>1, <2>2, <2>3 DEF Read
<1>10. ASSUME NEW file \in Wanted, Read(file) PROVE Read(file)'
  <2>1. Place(file)' = Place(file)
    BY <1>6, <1>10 DEF Read, Place, Resolved, At
  <2>2. /\ Place(file) \in DOMAIN found'
        /\ found'[Place(file)] = found[Place(file)]
        /\ ~file.auto => At("here", file.path, file.list)' \in DOMAIN found'
    BY <1>6, <1>10 DEF Read, At
  <2>3. ~problems' => ~problems
    BY <1>2
  <2> QED
    BY <1>8, <1>10, <2>1, <2>2, <2>3 DEF Read
<1>11. \A file \in Wanted : file \in ToSet(to_load') \/ Read(file)'
  BY <1>2, <1>3, <1>9, <1>10 DEF FilesLeft
<1> QED
  BY <1>2, <1>3, <1>4, <1>8, <1>11 DEF FilesLeft

LEMMA FilesStay ==
    ASSUME FilesLeft, UNCHANGED <<options, loading>>, stage' # "load" => to_load = <<>>
    PROVE  FilesLeft'
<1>1. UNCHANGED <<options, to_load, found, loaded, problems>>
  BY DEF loading
<1>2. Wanted' = Wanted /\ RuleReads' = RuleReads
  BY <1>1 DEF RuleReads, Wanted, Automatic, Requested, At
<1>3. ASSUME NEW file PROVE Read(file)' = Read(file)
  <2>1. Place(file)' = Place(file)
    BY <1>1 DEF Place, Resolved, At
  <2> QED
    BY <1>1, <2>1 DEF Read, At
<1> QED
  BY <1>1, <1>2, <1>3 DEF FilesLeft

LEMMA FilesNext == OptionsInv /\ OptionsInv' /\ FilesInv /\ [Next]_vars => FilesInv'
<1> SUFFICES ASSUME OptionsInv, OptionsInv', FilesInv, [Next]_vars PROVE FilesInv'
  OBVIOUS
<1>1. Plain' = Plain
  BY ArgsStay, ArgsFixed
<1>2. outcome = "running" => stage = "ended"
  BY DEF OptionsInv, TypeInv
<1>3. ASSUME UNCHANGED vars PROVE FilesInv'
  <2>1. UNCHANGED <<stage, options, loading, loaded, problems, outcome>>
    BY <1>3 DEF vars, parsing, loading
  <2>2. FilesLeft => FilesLeft'
    BY <2>1, FilesStay DEF FilesLeft
  <2> QED
    BY <1>1, <2>1, <2>2 DEF FilesInv
<1>4. ASSUME ArgsDone PROVE FilesInv'
  <2>1. stage = "args" /\ UNCHANGED <<loaded, outcome>> /\ stage' = "load"
    BY <1>4 DEF ArgsDone, Go
  <2>2. loaded = <<>> /\ outcome' # "running"
    BY <1>2, <2>1 DEF FilesInv
  <2>3. Plain' => FilesLeft'
    BY <1>1, <1>4, <2>2, FilesFound
  <2> QED
    BY <2>1, <2>2, <2>3 DEF FilesInv
<1>5. ASSUME NEW dir \in {"here", "base"}, NEW fate \in {"good", "bad", "missing"},
             Load(dir, fate)
      PROVE  FilesInv'
  <2>1. stage = "load" /\ to_load # <<>> /\ stage' = "load" /\ UNCHANGED outcome
    BY <1>5 DEF Load, Take
  <2>2. Plain' => FilesLeft'
    BY <1>1, <1>5, <2>1, FileLoaded DEF FilesInv
  <2> QED
    BY <1>2, <2>1, <2>2 DEF FilesInv
<1>6. ASSUME LoadDone PROVE FilesInv'
  <2>1. /\ stage = "load" /\ to_load = <<>> /\ stage' = "start"
        /\ UNCHANGED <<options, loading, outcome>>
    BY <1>6 DEF LoadDone, parsing
  <2>2. Plain' => FilesLeft'
    BY <1>1, <2>1, FilesStay DEF FilesInv
  <2> QED
    BY <1>2, <2>1, <2>2 DEF FilesInv
<1>7. ASSUME Run PROVE FilesInv'
  <2>1. /\ stage = "start" /\ stage' = "ended" /\ ~problems
        /\ UNCHANGED <<problems, options, loading>>
    BY <1>7 DEF Run, Mode, End, parsing, loading
  <2>2. Plain => FilesLeft
    BY <2>1 DEF FilesInv
  <2>3. Plain' => FilesLeft'
    BY <1>1, <2>1, <2>2, FilesStay DEF FilesLeft
  <2> QED
    BY <2>1, <2>3 DEF FilesInv
<1>8. ASSUME NEW what \in {"rejected", "exit 0", "exit 1", "refused"}, End(what)
      PROVE  FilesInv'
  BY <1>8 DEF End, FilesInv
<1>9. ASSUME stage \in {"scan", "config", "args"}, stage' \in {"scan", "config", "args"},
             UNCHANGED <<loading, outcome>>
      PROVE  FilesInv'
  <2>1. UNCHANGED <<loaded, outcome>> /\ outcome' # "running"
    BY <1>2, <1>9 DEF loading
  <2> QED
    BY <1>9, <2>1 DEF FilesInv
<1>10. ASSUME Scan \/ ScanDone \/ ConfigLine \/ (ConfigDone /\ ~faulty)
       PROVE  /\ stage \in {"scan", "config", "args"} /\ stage' \in {"scan", "config", "args"}
              /\ UNCHANGED <<loading, outcome>>
  BY <1>10 DEF Scan, ScanDone, ConfigLine, ConfigDone, Go
<1>11. ASSUME \/ SetMode \/ DryRun \/ ConfigFlag \/ (Filter /\ HasValue(Lacks(Arg)))
              \/ ((SetFixed \/ SetValue) /\ stage' = "args")
       PROVE  stage = "args" /\ stage' = "args" /\ UNCHANGED <<loading, outcome>>
  BY <1>11 DEF SetMode, DryRun, ConfigFlag, Filter, SetFixed, SetValue, AtArg, Consume, End
<1> QED
  BY Zenon, <1>3, <1>4, <1>5, <1>6, <1>7, <1>8, <1>9, <1>10, <1>11, StepKinds
     DEF Loads, Ending

LEMMA StartUpInvariant == Spec => [](OptionsInv /\ FilesInv)
<1>1. OptionsInv /\ FilesInv /\ [Next]_vars => OptionsInv' /\ FilesInv'
  BY CollectedNext, FilesNext
<1> QED
  BY <1>1, OptionsInit, FilesInit, PTL DEF Spec
-----------------------------------------------------------------------------
(* The theorems *)

(* Whatever the command line and the file it names, and wherever --config stands: once
   parse_command_line is through, every setting is what its last flag says, else the
   last line of that file, else the default, and the lists of files hold all of them. *)
THEOREM FlagsAlwaysOverride == Spec => []FlagsOverrideFile
<1>1. OptionsInv => FlagsOverrideFile
  BY DEF OptionsInv, Collected, AllCollected, FlagsOverrideFile
<1> QED
  BY <1>1, StartUpInvariant, PTL

(* main() never starts capturing without a file it was asked for, or with one that could
   not be read, whatever has become of the files load_configuration looked for.   *)
THEOREM AlwaysRunsWithItsFiles == Spec => []RunsWithItsFiles
<1>1. ASSUME OptionsInv, FilesInv, outcome = "running", Plain
      PROVE  /\ \A list \in FileLists : \A path \in ToSet(Asked(list)) :
                    /\ found[Resolved(path, list)] = "good"
                    /\ list # "hostlist" => Resolved(path, list) \in ToSet(loaded)
             /\ \A file \in ToSet(AutoFiles) :
                    LET read == At("base", file.path, file.list)
                    IN  IF Asked("no_auto_files")
                        THEN read \in ToSet(loaded) => file.path \in ToSet(Asked(file.list))
                        ELSE \/ found[read] = "missing"
                             \/ found[read] = "good" /\ read \in ToSet(loaded)
  <2>1. /\ ~problems /\ loaded \in Seq(RuleReads)
        /\ \A s \in Settings : options[s] = Asked(s)
    BY <1>1 DEF OptionsInv, FilesInv, FilesLeft, Collected, AllCollected
  <2>2. \A file \in Wanted : Read(file)
    <3>1. stage = "ended"
      BY <1>1 DEF OptionsInv, TypeInv
    <3>2. to_load = <<>> /\ \A file \in Wanted : file \in ToSet(to_load) \/ Read(file)
      BY <1>1, <3>1 DEF FilesInv, FilesLeft
    <3>3. ToSet(<<>>) = {}
      BY DEF ToSet
    <3> QED
      BY <3>2, <3>3
  <2>3. ASSUME NEW list \in FileLists, NEW path \in ToSet(Asked(list))
        PROVE  /\ found[Resolved(path, list)] = "good"
               /\ list # "hostlist" => Resolved(path, list) \in ToSet(loaded)
    <3> DEFINE file == [path |-> path, list |-> list, auto |-> FALSE]
    <3>1. options[list] = Asked(list)
      BY <2>1, SettingFacts
    <3>2. file \in Wanted
      BY <3>1, WantedFacts
    <3>3. file.path = path /\ file.list = list /\ file.auto = FALSE
      OBVIOUS
    <3> HIDE DEF file
    <3>4. Place(file) = Resolved(path, list)
      BY <3>3 DEF Place
    <3> QED
      BY <2>1, <2>2, <3>2, <3>3, <3>4 DEF Read
  <2>4. ASSUME NEW file \in ToSet(AutoFiles), Asked("no_auto_files"),
               At("base", file.path, file.list) \in ToSet(loaded)
        PROVE  file.path \in ToSet(Asked(file.list))
    <3>1. ToSet(loaded) \subseteq RuleReads
      BY <2>1 DEF ToSet
    <3>2. PICK dir \in {"here", "base"}, source \in {f \in Wanted : f.list # "hostlist"} :
                At(dir, source.path, source.list) = At("base", file.path, file.list)
      BY <2>4, <3>1 DEF RuleReads
    <3>3. Automatic = {}
      BY <2>1, <2>4, SettingFacts DEF Automatic
    <3>4. PICK list \in FileLists : \E path \in ToSet(options[list]) :
                source = [path |-> path, list |-> list, auto |-> FALSE]
      BY <3>2, <3>3, WantedFacts
    <3>5. PICK path \in ToSet(options[list]) :
                source = [path |-> path, list |-> list, auto |-> FALSE]
      BY <3>4
    <3>6. source.path = path /\ source.list = list /\ list \in {"rules", "exclude"}
      BY <3>2, <3>5 DEF FileLists
    <3>7. file.path = path /\ Reader(file.list) = Reader(list)
      <4>1. /\ At(dir, source.path, source.list).path = source.path
            /\ At("base", file.path, file.list).path = file.path
            /\ At(dir, source.path, source.list).reader = Reader(source.list)
            /\ At("base", file.path, file.list).reader = Reader(file.list)
        BY DEF At
      <4> QED
        BY <3>2, <3>6, <4>1
    <3>8. file.list \in {"rules", "exclude"}
      BY WantedFacts
    <3>9. file.list = list
      BY <3>6, <3>7, <3>8 DEF Reader
    <3>10. options[list] = Asked(list)
      BY <2>1, SettingFacts
    <3> QED
      BY <3>5, <3>7, <3>9, <3>10
  <2>5. ASSUME NEW file \in ToSet(AutoFiles), ~Asked("no_auto_files")
        PROVE  \/ found[At("base", file.path, file.list)] = "missing"
               \/ /\ found[At("base", file.path, file.list)] = "good"
                  /\ At("base", file.path, file.list) \in ToSet(loaded)
    <3>1. options["no_auto_files"] = Asked("no_auto_files")
      BY <2>1, SettingFacts
    <3>2. file \in Wanted
      BY <2>5, <3>1 DEF Wanted, Automatic
    <3>3. Place(file) = At("base", file.path, file.list)
      BY WantedFacts DEF Place
    <3> QED
      BY <2>1, <2>2, <3>2, <3>3, WantedFacts DEF Read
  <2> QED
    BY <2>3, <2>4, <2>5
<1>2. OptionsInv /\ FilesInv => RunsWithItsFiles
  BY Zenon, <1>1 DEF RunsWithItsFiles
<1> QED
  BY <1>2, StartUpInvariant, PTL
=============================================================================
