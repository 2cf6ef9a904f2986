------------------------------ MODULE RuleLint ------------------------------
(***************************************************************************)
(* The rules of a note, how they match a message (src/main/triage/         *)
(* matcher.ts), and what lint can tell of that from their text alone       *)
(* (lint.ts).  A message is classified here with all lookups made, which   *)
(* LazyClassify shows to be what a pass settles on.                        *)
(*                                                                         *)
(* A rule, as the parser (parser.ts) returns it, is a set of OR-groups and *)
(* a group a set of AND-terms; `*` is the empty group.  Matching ignores   *)
(* case everywhere, so values are taken up to case.  An address has a      *)
(* local part and a domain; a text stands for a phrase.                    *)
(***************************************************************************)
EXTENDS Naturals, Sequences

CONSTANTS
    LocalParts,     \* of addresses
    LocalPatterns,  \* local parts of patterns, with wildcards or without
    AnyLocal,       \* the pattern `*`
    Fits,           \* <<pattern, local part>>: the pattern matches it
    Domains,
    Under,          \* <<domain, base>>: the same domain or a subdomain of it
    Texts,
    Within,         \* <<phrase, text>>: the phrase occurs in the text
    OtherKeys,      \* predicates lint knows nothing about but their value
    OtherValues,
    Filed,          \* the value of `thread:`
    Folders,        \* mail folders, by their full path
    AtThread,       \* the move target @thread
    NoThread,       \* the thread of a message is filed nowhere
    Destinations,   \* names of directories attachments are saved to
    Writings        \* the same rule in different words: in what order its
                    \*   terms and actions stand, and what else it does

AddressKeys == {"party", "sender", "to", "cc"}
TextKeys    == {"subject", "body"}

Patterns  == [local : LocalPatterns, domain : Domains, deep : BOOLEAN]
Addresses == [local : LocalParts, domain : Domains]

Terms ==
    [key : AddressKeys, value : Patterns, negated : BOOLEAN]
        \cup [key : TextKeys, value : Texts, negated : BOOLEAN]
        \cup [key : OtherKeys, value : OtherValues, negated : BOOLEAN]
        \cup [key : {"thread"}, value : {Filed}, negated : BOOLEAN]

\* The actions that name something.
Actions ==
    [kind : {"move"}, value : Folders \cup {AtThread}]
        \cup [kind : {"save-attachments"}, value : Destinations]
        \cup [kind : {"tag", "untag"}, value : OtherValues]

\* What parseRule returns: `*` is only ever the sole term of a sole group.
Rules == {r \in [groups : SUBSET (SUBSET Terms), actions : SUBSET Actions, written : Writings] :
             r.groups # {} /\ ({} \in r.groups => r.groups = {{}})}

\* What parseRules returns: whether all of the note could be parsed, its rule
\* blocks, the destinations it declares and those whose path is not below a
\* permitted root, and whether it declares categories, and which.
Labels == {"inbound", "aged", "default"}
Blocks == [label : Labels, rules : Seq(Rules)]
ParseResults == [parses : BOOLEAN, blocks : Seq(Blocks),
                 destinations : SUBSET Destinations, outside : SUBSET Destinations,
                 declares : BOOLEAN, categories : SUBSET OtherValues]

ASSUME FitsAssumption   == \A l \in LocalParts : <<AnyLocal, l>> \in Fits
ASSUME UnderAssumption  ==
    /\ \A d \in Domains : <<d, d>> \in Under
    /\ \A c, d, e \in Domains : <<c, d>> \in Under /\ <<d, e>> \in Under => <<c, e>> \in Under
ASSUME WithinAssumption ==
    \A s, t, u \in Texts : <<s, t>> \in Within /\ <<t, u>> \in Within => <<s, u>> \in Within
ASSUME KeysAssumption   == OtherKeys \cap (AddressKeys \cup TextKeys \cup {"thread"}) = {}

\* A message with its lookups made: who it is from and to, what it says, the
\* other predicates it satisfies (its folder and categories among them), the
\* conversation it is in, the newest message first, and where that is filed.
Siblings == [folder : Folders, own : BOOLEAN]
Records == [from : Addresses, to : SUBSET Addresses, cc : SUBSET Addresses,
            subject : Texts, body : Texts,
            holds : SUBSET (OtherKeys \X OtherValues),
            siblings : Seq(Siblings), thread : Folders \cup {NoThread}]

-----------------------------------------------------------------------------
\* Matching

MatchesAddress(pattern, address) ==
    /\ IF pattern.deep THEN <<address.domain, pattern.domain>> \in Under
                       ELSE address.domain = pattern.domain
    /\ <<pattern.local, address.local>> \in Fits

AnyAddressMatches(pattern, addresses) == \E a \in addresses : MatchesAddress(pattern, a)

EvaluatePredicate(t, r) ==
    \/ t.key = "party"   /\ AnyAddressMatches(t.value, {r.from} \cup r.to \cup r.cc)
    \/ t.key = "sender"  /\ MatchesAddress(t.value, r.from)
    \/ t.key = "to"      /\ AnyAddressMatches(t.value, r.to)
    \/ t.key = "cc"      /\ AnyAddressMatches(t.value, r.cc)
    \/ t.key = "subject" /\ <<t.value, r.subject>> \in Within
    \/ t.key = "body"    /\ <<t.value, r.body>> \in Within
    \/ t.key = "thread"  /\ r.thread # NoThread
    \/ t.key \in OtherKeys /\ <<t.key, t.value>> \in r.holds

EvaluateTerm(t, r) == IF t.negated THEN ~EvaluatePredicate(t, r) ELSE EvaluatePredicate(t, r)

EvaluateGroup(g, r) == \A t \in g : EvaluateTerm(t, r)

MatchRule(rule, r) == \E g \in rule.groups : EvaluateGroup(g, r)

\* Mutant: the index counts from zero.
ClassifyFromZero(rules, r, i) ==
    /\ i \in 0 .. Len(rules)
    /\ i < Len(rules) => MatchRule(rules[i + 1], r)
    /\ \A j \in 1 .. i : ~MatchRule(rules[j], r)

\* classify: i is the first rule of the list that matches, or one past the end.
Classify(rules, r, i) ==
    /\ i \in 1 .. Len(rules) + 1
    /\ i <= Len(rules) => MatchRule(rules[i], r)
    /\ \A j \in 1 .. (i - 1) : ~MatchRule(rules[j], r)

-----------------------------------------------------------------------------
\* What lint knows of matching

\* Every address that matches narrow matches broad, as far as can be told.
PatternSubsumes(broad, narrow) ==
    \/ broad = narrow
    \/ /\ IF broad.deep THEN <<narrow.domain, broad.domain>> \in Under
                        ELSE ~narrow.deep /\ narrow.domain = broad.domain
       /\ broad.local \in {AnyLocal, narrow.local}

\* Term u holding guarantees that term t holds.
Implies(u, t) ==
    \/ u.key = t.key /\ u.value = t.value
    \/ /\ {u.key, t.key} \subseteq AddressKeys
       /\ t.key \in {"party", u.key}
       /\ PatternSubsumes(t.value, u.value)
    \/ /\ u.key = t.key
       /\ t.key \in TextKeys
       /\ <<t.value, u.value>> \in Within

\* Mutant: a negated condition is compared like the others.
GroupSubsumesNegated(h, g) == \A t \in h : \E u \in g : Implies(u, t)

\* Every condition of h is guaranteed by one of g; negation is unknowable.
GroupSubsumes(h, g) ==
    /\ \A t \in h : ~t.negated
    /\ \A t \in h : \E u \in g : ~u.negated /\ Implies(u, t)

RuleShadows(earlier, later) ==
    /\ later.groups # {}
    /\ \A g \in later.groups : \E h \in earlier.groups : GroupSubsumes(h, g)

IsFallback(rule) == rule.groups = {{}}

-----------------------------------------------------------------------------
\* Findings

\* checkShadowing: the rules that can never fire.
ShadowedRules(rules) ==
    {i \in DOMAIN rules : ~IsFallback(rules[i]) /\ \E j \in 1 .. (i - 1) : RuleShadows(rules[j], rules[i])}

\* Two rules are duplicates when they read the same, in the order written.
DuplicateRules(rules) == {i \in DOMAIN rules : \E j \in 1 .. (i - 1) : rules[j] = rules[i]}

\* Mutant: a block without rules has nothing to fall back from.
MissingFallbackUnlessEmpty(rules) == rules # <<>> /\ ~IsFallback(rules[Len(rules)])

\* checkFallback
MissingFallback(rules) == ~(rules # <<>> /\ IsFallback(rules[Len(rules)]))

MisplacedFallback(rules) == \E i \in 1 .. (Len(rules) - 1) : IsFallback(rules[i])

ToThread(rule) == [kind |-> "move", value |-> AtThread] \in rule.actions

\* Mutant: one OR-arm that tests the thread is enough.
UntestedThreadTargetSome(rules) ==
    \E i \in DOMAIN rules :
        /\ ToThread(rules[i])
        /\ \A g \in rules[i].groups : ~\E t \in g : t.key = "thread" /\ ~t.negated

\* checkThreadTargets: every OR-arm must test the thread, un-negated.
UntestedThreadTarget(rules) ==
    \E i \in DOMAIN rules :
        /\ ToThread(rules[i])
        /\ \E g \in rules[i].groups : ~\E t \in g : t.key = "thread" /\ ~t.negated

\* What the rule's actions of these kinds name.
NamedBy(rule, kinds) == {a.value : a \in {b \in rule.actions : b.kind \in kinds}}

\* Mutant: a note that declares no destination has none to compare with.
UnknownDestinationIfAny(rules, declared) ==
    declared # {} /\ \E i \in DOMAIN rules : ~(NamedBy(rules[i], {"save-attachments"}) \subseteq declared)

\* checkDestinations
UnknownDestination(rules, declared) ==
    \E i \in DOMAIN rules : ~(NamedBy(rules[i], {"save-attachments"}) \subseteq declared)

\* checkCategories: the names a rule tests for, sets or removes.
CategoryNames(rule) ==
    NamedBy(rule, {"tag", "untag"}) \cup {t.value : t \in {u \in UNION rule.groups : u.key = "category"}}

UnknownCategory(rules, declared) == \E i \in DOMAIN rules : ~(CategoryNames(rules[i]) \subseteq declared)

\* checkDeclaredDestinations
OutsideRoots(parsed) == parsed.destinations \cap parsed.outside # {}
=============================================================================
