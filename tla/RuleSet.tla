------------------------------- MODULE RuleSet -------------------------------
(* zc::RuleSet (include/zc/rules.hpp, src/rules.cpp): the index compile() builds over
   the rules that are loaded, and the rule match() picks for a host name and a
   destination, against what the rule language promises.  RuleFiles loads them.

   A host name is the sequence of its labels from the top level down, as the trie has
   them, and Dotted gives its characters, as host_matches_suffix() compares them.   *)
EXTENDS Integers, FiniteSets, SequencesExt

CONSTANTS
    Hosts,          \* the host names that occur, "" (the empty sequence) included
    Labels,         \* the labels they are made of, each a sequence of characters
    Characters, Dot,
    Destinations,   \* address, port and protocol of a packet
    MaxHostCandidates, MaxAddressOnlyRules

VARIABLES
    rules,          \* rules_
    excludes        \* exact_excludes_, suffix_excludes_ and subdomain_excludes_

Unnamed == <<>>

(* What a rule may ask for.  A network matcher (ip:, cidr:, port:, proto:) is the
   set of destinations it holds for.                                          *)
HostMatcher ==
    [kind : {"host_exact", "host_suffix"}, text : Hosts \ {Unnamed},
     subdomains_only : BOOLEAN]
NetworkMatcher == [kind : {"network"}, dests : SUBSET Destinations]

IsHostMatcher(m) == m.kind \in {"host_exact", "host_suffix"}

ASSUME HostsAssumption ==
    /\ Unnamed \in Hosts /\ Hosts \subseteq Seq(Labels)
    /\ Labels \subseteq Seq(Characters) /\ <<>> \notin Labels
    /\ Dot \notin Characters
ASSUME BoundsAssumption == {MaxHostCandidates, MaxAddressOnlyRules} \subseteq Nat

-----------------------------------------------------------------------------
(* Names *)

(* The dotted form of the first n labels; *)
DottedUpto ==
    [h \in Hosts |->
        LET Upto[n \in 0..Len(h)] ==
                IF n = 0 THEN <<>>
                ELSE IF n = 1 THEN h[1] ELSE h[n] \o <<Dot>> \o Upto[n - 1]
        IN  Upto]
Dotted(h) == DottedUpto[h][Len(h)]

(* and how many bytes match() counts for them. *)
Consumed ==
    [h \in Hosts |->
        LET Upto[n \in 0..Len(h)] ==
                IF n = 0 THEN 0
                ELSE Upto[n - 1] + Len(h[n]) + (IF Upto[n - 1] = 0 THEN 0 ELSE 1)
        IN  Upto]
NameSize(h) == Consumed[h][Len(h)]

(* Mutants: only the name itself matches, or the last label is not whole. *)
HostIsSuffix(host, suffix, subdomains_only) == host = suffix /\ ~subdomains_only
HostEndsWith(host, suffix, subdomains_only) ==
    /\ IsSuffix(Dotted(suffix), Dotted(host))
    /\ host = suffix => ~subdomains_only

(* Names of one length are compared whole; a longer one needs a dot before the suffix. *)
HostMatchesSuffix(host, suffix, subdomains_only) ==
    LET size == Len(Dotted(host)) - Len(Dotted(suffix))
    IN  \/ size = 0 /\ ~subdomains_only /\ Dotted(host) = Dotted(suffix)
        \/ /\ size > 0 /\ Dotted(host)[size] = Dot
           /\ SubSeq(Dotted(host), size + 1, Len(Dotted(host))) = Dotted(suffix)

(* Rule::satisfies: every matcher holds. *)
Holds(m, host, dest) ==
    \/ m.kind = "host_exact" /\ host = m.text
    \/ /\ m.kind = "host_suffix" /\ host # Unnamed
       /\ HostMatchesSuffix(host, m.text, m.subdomains_only)
    \/ m.kind = "network" /\ dest \in m.dests

Satisfies(i, host, dest) ==
    \A m \in ToSet(rules[i].matchers) : Holds(m, host, dest)

HostMatchers(i) == {n \in DOMAIN rules[i].matchers : IsHostMatcher(rules[i].matchers[n])}
RequiresHost(i) == HostMatchers(i) # {}
HostSuffixLength(i) ==
    IF RequiresHost(i) THEN NameSize(rules[i].matchers[Min(HostMatchers(i))].text) ELSE 0

-----------------------------------------------------------------------------
(* compile() *)

RulesWith(kind, text) ==
    {i \in DOMAIN rules : \E m \in ToSet(rules[i].matchers) : m.kind = kind /\ m.text = text}

InFileOrder(S) ==
    LET Upto[n \in 0..Len(rules)] ==
            IF n = 0 THEN <<>>
            ELSE IF n \in S THEN Append(Upto[n - 1], n) ELSE Upto[n - 1]
    IN  Upto[Len(rules)]

FirstOf(n, seq) == SubSeq(seq, 1, IF Len(seq) < n THEN Len(seq) ELSE n)

(* exact_hosts_ keeps one rule of each name, the first. *)
ExactHosts(host) ==
    FirstOf(1, InFileOrder(RulesWith("host_exact", host)))

(* Mutant: a node of the trie keeps one rule. *)
TrieRule(path) == FirstOf(1, InFileOrder(RulesWith("host_suffix", path)))

(* The rules at a node of the reversed-label trie. *)
TrieRules(path) == InFileOrder(RulesWith("host_suffix", path))

AddressOnlyRules ==
    FirstOf(MaxAddressOnlyRules, InFileOrder({i \in DOMAIN rules : ~RequiresHost(i)}))

-----------------------------------------------------------------------------
(* match() *)

NoRule == 0

(* Mutants: the suffix is compared before the priority, or not at all. *)
BetterBySuffix(current, candidate, current_suffix, candidate_suffix) ==
    LET candidate_wins ==
            \/ current = NoRule
            \/ /\ candidate # NoRule
               /\ \/ candidate_suffix > current_suffix
                  \/ /\ candidate_suffix = current_suffix
                     /\ rules[candidate].priority > rules[current].priority
    IN  IF candidate_wins THEN candidate ELSE current

BetterByPriority(current, candidate, current_suffix, candidate_suffix) ==
    LET candidate_wins ==
            \/ current = NoRule
            \/ /\ candidate # NoRule
               /\ \/ rules[candidate].priority > rules[current].priority
                  \/ /\ rules[candidate].priority = rules[current].priority
                     /\ candidate < current
    IN  IF candidate_wins THEN candidate ELSE current

Better(current, candidate, current_suffix, candidate_suffix) ==
    LET candidate_wins ==
            \/ current = NoRule
            \/ /\ candidate # NoRule
               /\ \/ rules[candidate].priority > rules[current].priority
                  \/ /\ rules[candidate].priority = rules[current].priority
                     /\ \/ candidate_suffix > current_suffix
                        \/ candidate_suffix = current_suffix /\ candidate < current
    IN  IF candidate_wins THEN candidate ELSE current

Collected(candidates) == FirstOf(MaxHostCandidates, candidates)

(* The candidates and how much of the host each accounts for: the exact rule,
   then the rules down the path from the top level, as many as fit.           *)
Candidates(host) ==
    LET At(indices, depth) ==
            [n \in DOMAIN indices |-> [rule |-> indices[n], depth |-> depth]]
        Down[n \in 0..Len(host)] ==
            IF n = 0 THEN At(ExactHosts(host), NameSize(host))
            ELSE Down[n - 1] \o At(TrieRules(SubSeq(host, 1, n)), Consumed[host][n])
    IN  Collected(Down[Len(host)])

(* One pass over them; the suffix of the last one that is satisfied is kept,
   whether it became the best or not.                                         *)
BestHostRule(host, dest) ==
    LET candidates == Candidates(host)
        Best[n \in 0..Len(candidates)] ==
            IF n = 0 THEN [rule |-> NoRule, suffix |-> 0]
            ELSE LET best == Best[n - 1]
                     c == candidates[n]
                 IN  IF ~Satisfies(c.rule, host, dest) THEN best
                     ELSE [rule |-> Better(best.rule, c.rule, best.suffix, c.depth),
                           suffix |-> c.depth]
    IN  Best[Len(candidates)].rule

BestAddressRule(host, dest) ==
    LET Best[n \in 0..Len(AddressOnlyRules)] ==
            IF n = 0 THEN NoRule
            ELSE IF ~Satisfies(AddressOnlyRules[n], host, dest) THEN Best[n - 1]
            ELSE Better(Best[n - 1], AddressOnlyRules[n], 0, 0)
    IN  Best[Len(AddressOnlyRules)]

Match(host, dest) ==
    LET host_rule == IF host = Unnamed THEN NoRule ELSE BestHostRule(host, dest)
        address_rule == BestAddressRule(host, dest)
    IN  IF host_rule = NoRule THEN address_rule
        ELSE Better(host_rule, address_rule, HostSuffixLength(host_rule), 0)

(* excluded(host): an entry is a name with its subdomains, or those alone. *)
Excluded(host) ==
    /\ host # Unnamed
    /\ \E e \in excludes : HostMatchesSuffix(host, e.text, e.subdomains_only)

-----------------------------------------------------------------------------
(* The rule language, and the properties *)

Eligible(host, dest) == {i \in DOMAIN rules : Satisfies(i, host, dest)}

(* How much of the host name a rule asks for. *)
Specificity(i) ==
    LET sizes == {NameSize(rules[i].matchers[n].text) : n \in HostMatchers(i)}
    IN  IF sizes = {} THEN 0 ELSE Max(sizes)

Beats(i, j) ==
    \/ rules[i].priority > rules[j].priority
    \/ /\ rules[i].priority = rules[j].priority
       /\ \/ Specificity(i) > Specificity(j)
          \/ Specificity(i) = Specificity(j) /\ i < j

Winner(host, dest) ==
    IF Eligible(host, dest) = {} THEN NoRule
    ELSE CHOOSE i \in Eligible(host, dest) :
            \A j \in Eligible(host, dest) \ {i} : Beats(i, j)

(* The candidates a host has: the rules that give its name or n labels of it. *)
Named(host) ==
    {c \in (DOMAIN rules) \X (0..Len(host)) :
        IF c[2] = 0 THEN c[1] \in RulesWith("host_exact", host)
        ELSE c[1] \in RulesWith("host_suffix", SubSeq(host, 1, c[2]))}

(* There is room for all that a host is compared with: MaxHostCandidates candidates,
   MaxAddressOnlyRules rules without a name, and one exact rule (or copies of it). *)
Roomy(host) ==
    /\ Cardinality(Named(host)) <= MaxHostCandidates
    /\ Cardinality({i \in DOMAIN rules : ~RequiresHost(i)}) <= MaxAddressOnlyRules
    /\ \A i, j \in RulesWith("host_exact", host) : rules[i] = rules[j]

WinnerMatches(host) == \A dest \in Destinations : Match(host, dest) = Winner(host, dest)

(* "Ties are broken by priority, then by the longest matching hostname suffix,
   then by file order" (include/zc/rules.hpp:33-34): match() returns the rule
   that wins by that order among all that are satisfied.                      *)
MatchIsWinner == \A host \in Hosts : Roomy(host) => WinnerMatches(host)

(* The same, as far as the code does it: with one priority and no exact rules, the
   longest matching suffix wins ("the longest matching suffix wins",
   README.md:110), then file order, with network rules last.                  *)
LongestSuffixWins ==
    /\ \A i, j \in DOMAIN rules : rules[i].priority = rules[j].priority
    /\ \A host \in Hosts : RulesWith("host_exact", host) = {}
    => MatchIsWinner

(* Whatever the suffixes are, no satisfied rule has a higher priority than the
   rule that is chosen, among as many candidates as there is room for.        *)
PriorityDecides ==
    \A host \in Hosts, dest \in Destinations : \A i \in Eligible(host, dest) :
        Roomy(host) => rules[i].priority <= rules[Match(host, dest)].priority

(* "Multiple matchers on one line are ANDed; separate lines are ORed"
   (include/zc/rules.hpp:33): a rule that is satisfied is not overlooked so that
   nothing matches, for as many candidates as there is room for, and what matches
   is satisfied.                                                              *)
MatchIffSatisfied ==
    \A host \in Hosts, dest \in Destinations :
        IF Match(host, dest) = NoRule THEN Roomy(host) => Eligible(host, dest) = {}
        ELSE Match(host, dest) \in Eligible(host, dest)

(* "notexample.com" is not below "example.com" (src/rules.cpp:86-87): a host is
   excluded exactly if it is a listed name or a subdomain of one, label by label, and
   for "*.example.com" if it is a subdomain.                                  *)
ExcludedByLabels ==
    \A host \in Hosts :
        Excluded(host) <=>
            \E e \in excludes :
                /\ IsPrefix(e.text, host)
                /\ e.subdomains_only => Len(host) > Len(e.text)
=============================================================================
