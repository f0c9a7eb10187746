------------------------------ MODULE RuleFiles -------------------------------
(* RuleSet::load_file, load_text, parse_rule_line and load_exclude_file
   (src/rules.cpp): rule files and exclude lists, their includes, and what of them
   becomes a rule or an excluded name of module RuleSet.

   A file is a sequence of lines, and a rule line a sequence of tokens, classified
   as far as the parsers tell them apart.  A rule file may include an exclude list and
   the other way round, so a line is given as each of the two loaders takes it; lines
   both pass over (empty, or a comment) are left out.                          *)
EXTENDS RuleSet

CONSTANTS
    Files,              \* the paths that occur
    Missing,            \* an include of a file that is not there
    NoPath,             \* an include without a path
    Disks,              \* the contents the files may have
    RuleFileNames, ExcludeFileNames,    \* the files the options may name
    MaxIncludeDepth,    \* kMaxIncludeDepth
    MaxLoads            \* bound: files the options name

VARIABLES
    disk,       \* the lines of every file, as each loader takes them
    problems,   \* how many problems have been added
    ok,         \* every load so far has returned true
    loads       \* history: the files loaded, and as what

vars == <<rules, excludes, disk, problems, ok, loads>>

(* A token: a network matcher ("ip:", "port:", ...), the name of a strategy, a host
   name, "priority=" or another option.  An invalid one has the form but not a legal
   value.                                                                      *)
Token ==
    [kind : {"network"}, valid : BOOLEAN, matcher : NetworkMatcher]
        \cup [kind : {"host"}, valid : BOOLEAN, matcher : HostMatcher]
        \cup [kind : {"action", "option"}, valid : BOOLEAN]
        \cup [kind : {"priority"}, valid : BOOLEAN, priority : Int]
Matching(token) == token.kind \in {"network", "host"}

(* load_text takes a line as an include or as the tokens of a rule; load_exclude_file
   as an include, a domain, or junk.  A name that begins with "include" is an include
   without a path to it, and a rule may be a domain.                           *)
FilePaths == Files \cup {Missing, NoPath}
RuleLine ==
    [kind : {"include"}, path : FilePaths]
        \cup [kind : {"rule"}, tokens : Seq(Token) \ {<<>>}]
ExcludeLine ==
    [kind : {"include"}, path : FilePaths]
        \cup [kind : {"entry"}, text : Hosts \ {Unnamed}, subdomains_only : BOOLEAN]
        \cup [kind : {"junk"}]
FileLine == [rules : RuleLine, excludes : ExcludeLine]

(* What is loaded: a file, as a rule file or as an exclude list. *)
FileKinds == {"rules", "excludes"}
Sources == [list : FileKinds, path : Files]
SourcePaths == [list : FileKinds, path : FilePaths]

ASSUME FilesAssumption ==
    /\ {Missing, NoPath} \cap Files = {}
    /\ RuleFileNames \cup ExcludeFileNames \subseteq Files \cup {Missing}
    /\ \A d \in Disks : d \in [Files -> Seq(FileLine)]
ASSUME DepthAssumption == {MaxIncludeDepth, MaxLoads} \subseteq Nat

IsInclude(line) == line.kind = "include"

(* The lines of a source; an include leads to a source of the same kind. *)
Taken(list, line) ==
    IF IsInclude(line) THEN [line EXCEPT !.path = [list |-> list, path |-> @]] ELSE line
LinesOf(source) ==
    [n \in DOMAIN disk[source.path] |->
        Taken(source.list, disk[source.path][n][source.list])]

-----------------------------------------------------------------------------
(* parse_rule_line() *)

Blank == [ok |-> TRUE, acts |-> FALSE, priority |-> 0, matchers |-> <<>>]

(* Before the action a token is a matcher or the action, behind it an option; a
   network matcher is recognised by its prefix anywhere.                      *)
Take(line, token) ==
    IF ~line.ok \/ ~token.valid THEN [line EXCEPT !.ok = FALSE]
    ELSE IF token.kind = "network" \/ (token.kind = "host" /\ ~line.acts)
    THEN [line EXCEPT !.matchers = Append(@, token.matcher)]
    ELSE IF token.kind = "action" /\ ~line.acts THEN [line EXCEPT !.acts = TRUE]
    ELSE IF token.kind = "priority" /\ line.acts THEN [line EXCEPT !.priority = token.priority]
    ELSE IF token.kind = "option" /\ line.acts THEN line
    ELSE [line EXCEPT !.ok = FALSE]

Accepted(line) == line.ok /\ line.acts /\ line.matchers # <<>>

-----------------------------------------------------------------------------
(* What a line, or a file with all it includes, comes to. *)

Nothing == [rules |-> <<>>, excludes |-> {}, problems |-> 0, ok |-> TRUE]
Problem == [Nothing EXCEPT !.problems = 1, !.ok = FALSE]

(* Mutants: the last line decides, or nothing is read behind a failure. *)
FollowedForgivingly(a, b) ==
    [rules |-> a.rules \o b.rules, excludes |-> a.excludes \cup b.excludes,
     problems |-> a.problems + b.problems, ok |-> b.ok]
FollowedIfOk(a, b) ==
    IF ~a.ok THEN a
    ELSE [rules |-> a.rules \o b.rules, excludes |-> a.excludes \cup b.excludes,
          problems |-> a.problems + b.problems, ok |-> b.ok]

Followed(a, b) ==
    [rules |-> a.rules \o b.rules, excludes |-> a.excludes \cup b.excludes,
     problems |-> a.problems + b.problems, ok |-> a.ok /\ b.ok]

ParseRuleLine(tokens) ==
    LET Upto[n \in 0..Len(tokens)] ==
            IF n = 0 THEN Blank ELSE Take(Upto[n - 1], tokens[n])
        line == Upto[Len(tokens)]
    IN  IF Accepted(line)
        THEN [Nothing EXCEPT !.rules =
                <<[priority |-> line.priority, matchers |-> line.matchers]>>]
        ELSE Problem

(* An exclude line that is no domain is passed over in silence. *)
ReadExcludeLine(line) ==
    IF line.kind = "entry"
    THEN [Nothing EXCEPT !.excludes =
            {[text |-> line.text, subdomains_only |-> line.subdomains_only]}]
    ELSE Nothing

(* load_text, load_exclude_file: every line in turn, with what includes come to. *)
Text(lines, included) ==
    LET LineRead(line) ==
            IF IsInclude(line) THEN included[line.path]
            ELSE IF line.kind = "rule" THEN ParseRuleLine(line.tokens)
            ELSE ReadExcludeLine(line)
        Upto[n \in 0..Len(lines)] ==
            IF n = 0 THEN Nothing ELSE Followed(Upto[n - 1], LineRead(lines[n]))
    IN  Upto[Len(lines)]

(* left is how much deeper includes may nest. *)
Loaded[left \in 0..MaxIncludeDepth + 1] ==
    [source \in SourcePaths |->
        IF source \notin Sources \/ left = 0 THEN Problem
        ELSE Text(LinesOf(source), Loaded[left - 1])]

Init ==
    /\ rules = <<>> /\ excludes = {}
    /\ disk \in Disks
    /\ problems = 0 /\ ok = TRUE /\ loads = <<>>

Load(source) ==
    LET read == Loaded[MaxIncludeDepth + 1][source]
    IN  /\ Len(loads) < MaxLoads
        /\ rules' = rules \o read.rules
        /\ excludes' = excludes \cup read.excludes
        /\ problems' = problems + read.problems
        /\ ok' = (ok /\ read.ok)
        /\ loads' = Append(loads, source)
        /\ UNCHANGED disk

(* load_configuration (src/app/main.cpp): rule files come before exclude files. *)
Next ==
    \/ \E path \in RuleFileNames :
        /\ \A loaded \in ToSet(loads) : loaded.list = "rules"
        /\ Load([list |-> "rules", path |-> path])
    \/ \E path \in ExcludeFileNames : Load([list |-> "excludes", path |-> path])

Spec == Init /\ [][Next]_vars

-----------------------------------------------------------------------------
(* The files as they are written, and the properties *)

(* Where a line is read: its number, behind the numbers of the includes that lead to
   it.  Places come in the order of the text, includes replaced by their files. *)
Nowhere == [list |-> "rules", path |-> Missing]

Follow(source, n) ==
    IF source \in Sources /\ n \in DOMAIN LinesOf(source) /\ IsInclude(LinesOf(source)[n])
    THEN LinesOf(source)[n].path ELSE Nowhere

SourceAt(source, place) ==
    LET At[n \in 0..Len(place) - 1] ==
            IF n = 0 THEN source ELSE Follow(At[n - 1], place[n])
    IN  At[Len(place) - 1]

LineAt(source, place) == LinesOf(SourceAt(source, place))[Last(place)]

Places(source) ==
    LET numbers == UNION {DOMAIN LinesOf(s) : s \in Sources}
        all == UNION {[1..n -> numbers] : n \in 1..MaxIncludeDepth + 1}
    IN  {p \in all : /\ SourceAt(source, p) \in Sources
                     /\ Last(p) \in DOMAIN LinesOf(SourceAt(source, p))}

Before(p, q) ==
    \E n \in DOMAIN p \cap DOMAIN q :
        p[n] < q[n] /\ \A m \in 1..n - 1 : p[m] = q[m]

(* A rule line has one action; matchers before it, options behind it, network
   matchers on either side; nothing illegal; and something to match.          *)
WellFormed(tokens) ==
    /\ \A t \in ToSet(tokens) : t.valid
    /\ \E t \in ToSet(tokens) : Matching(t)
    /\ \E k \in DOMAIN tokens :
        /\ tokens[k].kind = "action"
        /\ \A i \in 1..k - 1 : Matching(tokens[i])
        /\ \A i \in k + 1..Len(tokens) : tokens[i].kind \in {"network", "priority", "option"}

Fails(source, place) ==
    LET line == LineAt(source, place)
    IN  IF IsInclude(line) THEN line.path \notin Sources \/ Len(place) > MaxIncludeDepth
        ELSE line.kind = "rule" /\ ~WellFormed(line.tokens)

Good(source, kind) ==
    {p \in Places(source) : LineAt(source, p).kind = kind /\ ~Fails(source, p)}

(* The elements of S in order: in front of the n-th there are n - 1. *)
Sorted(S, Less(_, _)) ==
    LET rank == [x \in S |-> Cardinality({y \in S : Less(y, x)})]
    IN  [n \in 1..Cardinality(S) |-> CHOOSE x \in S : rank[x] = n - 1]

Written(tokens) ==
    LET priorities == {i \in DOMAIN tokens : tokens[i].kind = "priority"}
        matching == Sorted({i \in DOMAIN tokens : Matching(tokens[i])}, <)
    IN  [priority |-> IF priorities = {} THEN 0 ELSE tokens[Max(priorities)].priority,
         matchers |-> [n \in DOMAIN matching |-> tokens[matching[n]].matcher]]

(* A place below the loads has the number of the load in front. *)
RulesWritten ==
    LET below == UNION {{<<k>> \o p : p \in Good(loads[k], "rule")} : k \in DOMAIN loads}
        places == Sorted(below, Before)
    IN  [n \in DOMAIN places |->
            Written(LineAt(loads[Head(places[n])], Tail(places[n])).tokens)]

EntriesWritten(source) ==
    {[text |-> LineAt(source, p).text,
      subdomains_only |-> LineAt(source, p).subdomains_only] : p \in Good(source, "entry")}

(* What is loaded is what the files say: every well-formed line, in the order of the
   text with each include in its place ("an include cycle must be reported, not
   followed forever", tests/test_rules.cpp:356, but what can be read of it is), a
   bad line costs no other, and exclude lists add up.                         *)
LoadedAsWritten ==
    /\ rules = RulesWritten
    /\ excludes = UNION {EntriesWritten(f) : f \in ToSet(loads)}

Readable(source) == source \in Sources

(* "A missing include is an error, not a silent skip" (tests/test_rules.cpp:329), and
   so is everything else that cannot be read: the loads are reported as good exactly
   if no line anywhere below them fails, and a problem is noted if and only if they
   are not (load_configuration looks at both).                                *)
FailuresReported ==
    /\ ok <=> \A f \in ToSet(loads) :
                Readable(f) /\ \A p \in Places(f) : ~Fails(f, p)
    /\ ok <=> problems = 0
=============================================================================
