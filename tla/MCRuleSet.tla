------------------------------ MODULE MCRuleSet -------------------------------
(* Small instances of RuleFiles for TLC: the names under one top level, two
   destinations, and the files a run chooses from.                            *)
EXTENDS RuleFiles, TLC

CONSTANTS main, inner, hosts, more

Com == <<"c", "o", "m">>
Site == <<"s", "i", "t", "e">>
OtherSite == <<"x">> \o Site
Cdn == <<"c", "d", "n">>
SplitAction == <<"s", "p", "l", "i", "t">>
TheLabels == {Com, Site, OtherSite, Cdn, SplitAction}
TheCharacters == UNION {Range(l) : l \in TheLabels}

TheHosts ==
    {<<>>, <<Com>>, <<Com, Site>>, <<Com, Site, Cdn>>, <<Com, OtherSite>>, <<SplitAction>>}
TheDestinations == {"web", "dns"}

Host(kind, text, below) ==
    [kind |-> "host", valid |-> TRUE,
     matcher |-> [kind |-> kind, text |-> text, subdomains_only |-> below]]
Suffix(text) == Host("host_suffix", text, FALSE)
Below(text) == Host("host_suffix", text, TRUE)
Exact(text) == Host("host_exact", text, FALSE)
Network(dests) ==
    [kind |-> "network", valid |-> TRUE, matcher |-> [kind |-> "network", dests |-> dests]]
Action == [kind |-> "action", valid |-> TRUE]
Priority(n) == [kind |-> "priority", valid |-> TRUE, priority |-> n]
Ttl == [kind |-> "option", valid |-> TRUE]
Illegal(token) == [token EXCEPT !.valid = FALSE]

(* A line of tokens.  To the exclude loader it is the domain behind the first token, or
   the only token, if that is one: "split" in "site.com split".               *)
Domain(text, below) == [kind |-> "entry", text |-> text, subdomains_only |-> below]
Junk == [kind |-> "junk"]
AsDomain(tokens) ==
    LET last == Last(tokens)
    IN  IF Len(tokens) > 2 \/ ~last.valid THEN Junk
        ELSE CASE last.kind = "host" -> Domain(last.matcher.text, last.matcher.subdomains_only)
               [] last.kind = "action" -> Domain(<<SplitAction>>, FALSE)
               [] OTHER -> Junk
Line(tokens) ==
    [rules |-> [kind |-> "rule", tokens |-> tokens], excludes |-> AsDomain(tokens)]

(* "include path", and what is an include to one loader alone: ".include path", and a
   name that begins with "include".                                           *)
Include(path) == [kind |-> "include", path |-> path]
Includes(path) == [rules |-> Include(path), excludes |-> Include(path)]
DotInclude(path) == [rules |-> Include(path), excludes |-> Junk]
IncludeName(text) == [Line(<<Suffix(text)>>) EXCEPT !.excludes = Include(NoPath)]

Rule(priority, matchers) ==
    Line(matchers \o (IF priority = 0 THEN <<Action>> ELSE <<Action, Priority(priority)>>))
Bad == Line(<<Illegal(Suffix(<<Com>>)), Action>>)

(* Suffix and network rules, alone and combined, and exact rules. *)
RuleLines ==
    {Rule(0, <<Suffix(<<Com>>)>>), Rule(0, <<Suffix(<<Com, Site>>)>>),
     Rule(0, <<Below(<<Com, Site>>)>>), Rule(1, <<Below(<<Com, Site>>)>>),
     Rule(0, <<Network({"web"})>>), Rule(2, <<Network({"dns"})>>),
     Rule(0, <<Suffix(<<Com>>), Network({"dns"})>>),
     Rule(0, <<Suffix(<<Com, Site>>), Suffix(<<Com, Site, Cdn>>)>>),
     Rule(1, <<Exact(<<Com, Site, Cdn>>)>>),
     Rule(0, <<Exact(<<Com, Site, Cdn>>), Network({"dns"})>>),
     Rule(0, <<Exact(<<Com, Site, Cdn>>), Suffix(<<Com, Site, Cdn>>)>>)}

UpTo(n, S) == UNION {[1..k -> S] : k \in 0..n}
Disk(m, i, h, o) == main :> m @@ inner :> i @@ hosts :> h @@ more :> o

(* Rules that compete, over two files; *)
RuleDisks ==
    {Disk(<<r>> \o m, <<s>>, <<>>, <<>>) : r, s \in RuleLines,
        m \in {<<>>, <<Includes(inner)>>} \cup {<<t>> : t \in RuleLines}}

(* more of them for one name than there is room for; *)
CrowdedDisks ==
    LET lines == {Rule(0, <<Suffix(<<Com>>)>>), Rule(0, <<Suffix(<<Com, Site>>)>>),
                  Rule(1, <<Below(<<Com, Site>>)>>),
                  Rule(0, <<Suffix(<<Com>>), Network({"dns"})>>)}
    IN  {Disk(<<r, Includes(inner), s>>, <<t, u>>, <<>>, <<>>) : r, s, t, u \in lines}

(* includes of each other, of themselves, of nothing, among good and bad lines; *)
IncludeDisks ==
    LET good == Rule(0, <<Suffix(<<Com>>)>>)
        other == Rule(1, <<Network({"web"})>>)
        lines == {good, other, Bad, Includes(main), Includes(inner), Includes(Missing), Includes(NoPath)}
    IN  {Disk(m, i, <<>>, <<>>) : m \in UpTo(3, lines), i \in UpTo(1, lines) \cup {<<good, Includes(main)>>}}

(* every line of up to three tokens, and of four if they may be a rule; *)
TokenDisks ==
    LET tokens == {Suffix(<<Com>>), Exact(<<Com, Site>>), Network({"web"}), Action,
                   Priority(1), Priority(2), Ttl, Illegal(Network({}))}
        four == {l \in [1..4 -> tokens] : Action \in Range(l) /\ Illegal(Network({})) \notin Range(l)}
    IN  {Disk(<<Line(l)>>, <<>>, <<>>, <<>>) : l \in (UpTo(3, tokens) \ {<<>>}) \cup four}

(* Exclude lists; *)
ExcludeDisks ==
    LET lines == {Line(<<Below(<<Com, Site>>)>>), Line(<<Suffix(<<Com, OtherSite>>)>>),
                  Line(<<Suffix(<<Com, Site>>)>>), Line(<<Illegal(Suffix(<<Com>>))>>),
                  IncludeName(<<Com>>), Includes(more), Includes(Missing)}
    IN  {Disk(<<>>, <<>>, h, o) : h \in UpTo(2, lines), o \in UpTo(1, lines)}

(* and rule files and exclude lists that include each other. *)
CrossDisks ==
    LET rule == Rule(0, <<Suffix(<<Com, Site>>)>>)
        name == Line(<<Suffix(<<Com, Site>>)>>)
    IN  {Disk(m, <<>>, h, <<>>) :
            m \in UpTo(2, {rule, IncludeName(<<Com>>), Includes(hosts), DotInclude(hosts)}),
            h \in UpTo(2, {rule, name, Includes(main), DotInclude(main)})}

AllDisks == RuleDisks \cup CrowdedDisks \cup IncludeDisks \cup TokenDisks \cup ExcludeDisks \cup CrossDisks

(* One exact rule among suffix rules of the same priority. *)
TiedDisks ==
    {Disk(m, <<>>, <<>>, <<>>) :
        m \in UpTo(3, {Rule(0, <<Suffix(<<Com>>)>>), Rule(0, <<Suffix(<<Com, Site>>)>>),
                       Rule(0, <<Exact(<<Com, Site, Cdn>>)>>)})}
=============================================================================
