--------------------------- MODULE RuleGateProofs ---------------------------
(***************************************************************************)
(* Lint is sound for every note and every message: what it reports as      *)
(* unreachable is, and what it lets through is defined.                    *)
(***************************************************************************)
EXTENDS RuleGate, TLAPS

-----------------------------------------------------------------------------
\* Lint and the matcher agree

LEMMA PatternSubsumesSound ==
    ASSUME NEW broad \in Patterns, NEW narrow \in Patterns, NEW a \in Addresses,
           PatternSubsumes(broad, narrow), MatchesAddress(narrow, a)
    PROVE  MatchesAddress(broad, a)
<1>0. /\ broad.domain \in Domains /\ narrow.domain \in Domains /\ a.domain \in Domains
      /\ a.local \in LocalParts /\ broad.deep \in BOOLEAN /\ narrow.deep \in BOOLEAN
  BY DEF Patterns, Addresses
<1>1. CASE broad = narrow
  BY <1>1
<1>2. CASE broad # narrow
  <2>1. <<broad.local, a.local>> \in Fits
    BY <1>0, <1>2, FitsAssumption DEF PatternSubsumes, MatchesAddress
  <2>2. CASE broad.deep
    <3>1. <<narrow.domain, broad.domain>> \in Under
      BY <1>2, <2>2 DEF PatternSubsumes
    <3>2. <<a.domain, narrow.domain>> \in Under
      BY <1>0, UnderAssumption DEF MatchesAddress
    <3> QED
      BY <1>0, <2>1, <2>2, <3>1, <3>2, UnderAssumption DEF MatchesAddress
  <2>3. CASE ~broad.deep
    BY <1>2, <2>1, <2>3 DEF PatternSubsumes, MatchesAddress
  <2> QED
    BY <2>2, <2>3
<1> QED
  BY <1>1, <1>2

\* The value of a term is of the type of its key.
LEMMA TermValues ==
    ASSUME NEW t \in Terms
    PROVE  /\ t.key \in AddressKeys => t.value \in Patterns
           /\ t.key \in TextKeys => t.value \in Texts
BY KeysAssumption DEF Terms, AddressKeys, TextKeys

LEMMA ImpliesSound ==
    ASSUME NEW u \in Terms, NEW t \in Terms, NEW m \in Records,
           Implies(u, t), EvaluatePredicate(u, m)
    PROVE  EvaluatePredicate(t, m)
<1>1. CASE u.key = t.key /\ u.value = t.value
  BY <1>1 DEF EvaluatePredicate
<1>2. CASE /\ {u.key, t.key} \subseteq AddressKeys
           /\ t.key \in {"party", u.key}
           /\ PatternSubsumes(t.value, u.value)
  <2>1. t.value \in Patterns /\ u.value \in Patterns
    BY <1>2, TermValues
  <2>2. m.from \in Addresses /\ m.to \subseteq Addresses /\ m.cc \subseteq Addresses
    BY DEF Records
  <2>3. ASSUME NEW S \in SUBSET Addresses, AnyAddressMatches(u.value, S)
        PROVE  AnyAddressMatches(t.value, S)
    BY <1>2, <2>1, <2>3, PatternSubsumesSound DEF AnyAddressMatches
  <2>4. MatchesAddress(u.value, m.from) => MatchesAddress(t.value, m.from)
    BY <1>2, <2>1, <2>2, PatternSubsumesSound
  <2>5. {m.from} \cup m.to \cup m.cc \in SUBSET Addresses
    BY <2>2
  <2>6. u.key \notin OtherKeys /\ t.key \notin OtherKeys
    BY <1>2, KeysAssumption
  <2>7. CASE t.key = u.key
    BY <1>2, <2>2, <2>3, <2>4, <2>5, <2>6, <2>7 DEF EvaluatePredicate, AddressKeys
  <2>8. CASE t.key = "party"
    <3>1. AnyAddressMatches(u.value, {m.from} \cup m.to \cup m.cc)
      BY <1>2, <2>6 DEF EvaluatePredicate, AddressKeys, AnyAddressMatches
    <3> QED
      BY <2>3, <2>5, <2>8, <3>1 DEF EvaluatePredicate
  <2> QED
    BY <1>2, <2>7, <2>8
<1>3. CASE /\ u.key = t.key
           /\ t.key \in TextKeys
           /\ <<t.value, u.value>> \in Within
  <2>1. t.value \in Texts /\ u.value \in Texts /\ m.subject \in Texts /\ m.body \in Texts
    BY <1>3, TermValues DEF Records
  <2>2. u.key \notin OtherKeys
    BY <1>3, KeysAssumption
  <2> QED
    BY <1>3, <2>1, <2>2, WithinAssumption DEF EvaluatePredicate, TextKeys
<1> QED
  BY <1>1, <1>2, <1>3 DEF Implies

LEMMA GroupSubsumesSound ==
    ASSUME NEW h \in SUBSET Terms, NEW g \in SUBSET Terms, NEW m \in Records,
           GroupSubsumes(h, g), EvaluateGroup(g, m)
    PROVE  EvaluateGroup(h, m)
<1> SUFFICES ASSUME NEW t \in h PROVE EvaluateTerm(t, m)
  BY DEF EvaluateGroup
<1>1. ~t.negated
  BY DEF GroupSubsumes
<1>2. PICK u \in g : ~u.negated /\ Implies(u, t)
  BY DEF GroupSubsumes
<1>3. EvaluatePredicate(u, m)
  BY <1>2 DEF EvaluateGroup, EvaluateTerm
<1> QED
  BY <1>1, <1>2, <1>3, ImpliesSound DEF EvaluateTerm

\* A shadowed rule matches nothing that the earlier rule does not.
LEMMA RuleShadowsSound ==
    ASSUME NEW earlier \in Rules, NEW later \in Rules, NEW m \in Records,
           RuleShadows(earlier, later), MatchRule(later, m)
    PROVE  MatchRule(earlier, m)
<1>1. PICK g \in later.groups : EvaluateGroup(g, m)
  BY DEF MatchRule
<1>2. PICK h \in earlier.groups : GroupSubsumes(h, g)
  BY <1>1 DEF RuleShadows
<1>3. g \in SUBSET Terms /\ h \in SUBSET Terms
  BY DEF Rules
<1> QED
  BY <1>1, <1>2, <1>3, GroupSubsumesSound DEF MatchRule

-----------------------------------------------------------------------------
\* The gate

\* A pass that runs has passed the gate, and the match is the first rule of its
\* block that matches the message, whose thread is one that was found.
GateInv ==
    /\ TypeOK
    /\ stage = "running" => ~Blocking /\ block \in DOMAIN note.blocks
    /\ Classified => Classify(List, message, match) /\ ThreadFound(message, message.thread)

LEMMA InitGateInv == ASSUME Init PROVE GateInv
BY NotesAssumption DEF Init, GateInv, TypeOK, Classified, ParseResults

LEMMA NextGateInv == ASSUME GateInv, [Next]_vars PROVE GateInv'
<1>0. /\ note.blocks \in Seq(Blocks) /\ Len(note.blocks) \in Nat
      /\ DOMAIN note.blocks = 1 .. Len(note.blocks)
  BY NotesAssumption DEF GateInv, TypeOK, ParseResults
<1>1. CASE Refuse
  BY <1>1 DEF Refuse, GateInv, TypeOK, Classified
<1>2. CASE Run
  <2>1. message = NoMessage
    BY <1>2 DEF Run, GateInv, TypeOK, Classified
  <2>2. block' \in DOMAIN note.blocks /\ block' \in 1 .. Len(note.blocks)
    BY <1>0, <1>2 DEF Run, SelectBlock, FirstLabelled
  <2>3. ~Blocking'
    BY <1>2 DEF Run, Blocking, BlockingIn
  <2> QED
    BY <1>0, <1>2, <2>1, <2>2, <2>3 DEF Run, GateInv, TypeOK, Classified
<1>3. CASE NextMessage
  BY <1>3 DEF NextMessage, GateInv, TypeOK, Classified, Blocking, BlockingIn
<1>4. ASSUME NEW m \in Messages, ClassifyMessage(m) PROVE GateInv'
  <2>1. List' = List
    BY <1>4 DEF ClassifyMessage, List
  <2>2. PICK f \in Folders \cup {NoThread} : ThreadFound(m, f) /\ message' = [m EXCEPT !.thread = f]
    BY <1>4 DEF ClassifyMessage
  <2>3. m \in Records
    BY MessagesAssumption
  <2>4. message' \in Records /\ message'.thread = f /\ message'.siblings = m.siblings
    BY <2>2, <2>3 DEF Records
  <2>5. Classify(List, message', match')
    BY <1>4 DEF ClassifyMessage
  <2>6. match' \in 1 .. Len(List) + 1
    BY <2>5 DEF Classify
  <2>7. ThreadFound(message, message.thread)'
    BY <1>4, <2>2, <2>4 DEF ClassifyMessage, ThreadFound
  <2>8. TypeOK'
    BY <1>4, <2>1, <2>4, <2>6 DEF ClassifyMessage, GateInv, TypeOK
  <2>9. (stage = "running" => ~Blocking /\ block \in DOMAIN note.blocks)'
    BY <1>4 DEF ClassifyMessage, GateInv, Blocking, BlockingIn
  <2> QED
    BY <2>1, <2>5, <2>7, <2>8, <2>9 DEF GateInv
<1>5. CASE UNCHANGED vars
  BY <1>5 DEF vars, GateInv, TypeOK, Classified, Blocking, BlockingIn, List, ThreadFound
<1> QED
  BY <1>1, <1>2, <1>3, <1>4, <1>5 DEF Next

LEMMA GateInvariant == Spec => []GateInv
BY InitGateInv, NextGateInv, PTL DEF Spec

\* What is known of a classified message.
LEMMA ClassifiedFacts ==
    ASSUME GateInv, Classified
    PROVE  /\ message \in Records
           /\ List \in Seq(Rules)
           /\ Classify(List, message, match)
           /\ ~Blocking
           /\ block \in DOMAIN note.blocks
           /\ ~BlockingIn(note.blocks[block])
           /\ note.destinations \cap note.outside = {}
<1>1. stage = "running" /\ message \in Records
  BY DEF GateInv, TypeOK, Classified
<1>2. note \in ParseResults /\ note.blocks \in Seq(Blocks) /\ block \in DOMAIN note.blocks
  BY <1>1, NotesAssumption DEF GateInv, TypeOK, ParseResults
<1>3. note.blocks[block] \in Blocks
  BY <1>2
<1>4. ~Blocking
  BY <1>1 DEF GateInv
<1>5. ~BlockingIn(note.blocks[block]) /\ note.destinations \cap note.outside = {}
  BY <1>2, <1>4 DEF Blocking, OutsideRoots
<1> QED
  BY <1>1, <1>2, <1>3, <1>4, <1>5 DEF GateInv, List, Blocks

-----------------------------------------------------------------------------
\* The variables keep their types.
THEOREM TypeCorrect == Spec => []TypeOK
<1>1. GateInv => TypeOK
  BY DEF GateInv
<1> QED
  BY <1>1, GateInvariant, PTL

\* A rule that lint.ts reports as unreachable or duplicate is never the one
\* that matcher.ts finds, whatever the note and the message.
THEOREM LintIsSound == Spec => []ReportedNeverFires
<1>1. ASSUME GateInv, Classified, match \in DOMAIN List,
             NEW j \in 1 .. (match - 1),
             RuleShadows(List[j], List[match]) \/ List[j] = List[match]
      PROVE  FALSE
  <2>1. List \in Seq(Rules) /\ Classify(List, message, match) /\ message \in Records
    BY <1>1, ClassifiedFacts
  <2>2. match \in 1 .. Len(List) /\ j \in 1 .. Len(List)
    BY <1>1, <2>1
  <2>3. MatchRule(List[match], message) /\ ~MatchRule(List[j], message)
    BY <1>1, <2>1, <2>2 DEF Classify
  <2>4. List[match] \in Rules /\ List[j] \in Rules
    BY <2>1, <2>2
  <2> QED
    BY <1>1, <2>1, <2>3, <2>4, RuleShadowsSound
<1>2. GateInv => ReportedNeverFires
  BY <1>1 DEF ReportedNeverFires, ShadowedRules, DuplicateRules
<1> QED
  BY <1>2, GateInvariant, PTL

\* A triage pass over a block labelled inbound that passes the gate of run.ts
\* finds a rule for every message.
THEOREM EveryMessageClassified == Spec => []NothingUnclassified
<1>1. ASSUME GateInv, Classified, pass = "inbound", note.blocks[block].label = "inbound"
      PROVE  match <= Len(List)
  <2>1. /\ List \in Seq(Rules) /\ Classify(List, message, match)
        /\ ~BlockingIn(note.blocks[block])
    BY <1>1, ClassifiedFacts
  <2>2. ~MissingFallback(List)
    BY <1>1, <2>1 DEF BlockingIn, List
  <2>3. Len(List) \in 1 .. Len(List) /\ IsFallback(List[Len(List)])
    BY <2>1, <2>2 DEF MissingFallback
  <2>4. MatchRule(List[Len(List)], message)
    BY <2>3 DEF IsFallback, MatchRule, EvaluateGroup
  <2> QED
    BY <2>1, <2>3, <2>4 DEF Classify
<1>2. GateInv => NothingUnclassified
  BY <1>1 DEF NothingUnclassified
<1> QED
  BY <1>2, GateInvariant, PTL

\* What a conversation is found to be filed in is a folder the inbound block
\* files mail into.
LEMMA ThreadIsFiled ==
    ASSUME NEW blocks, NEW siblings, NEW f, f # NoThread, ResolveThread(blocks, siblings, f)
    PROVE  f \in FiledFolders(blocks)
<1>1. PICK i \in DOMAIN siblings : StandsFor(blocks, siblings[i].folder) = {f}
  BY DEF ResolveThread, Tells
<1> QED
  BY <1>1 DEF StandsFor, Feeders

\* A rule whose move is @thread matches only messages whose thread is filed, so
\* bindThreadTarget (run.ts) always has a folder to bind, and that folder is
\* one the inbound block files mail into.
THEOREM ThreadTargetsDefined == Spec => []ThreadTargetDefined
<1>1. ASSUME GateInv, Classified, match <= Len(List), ToThread(List[match])
      PROVE  message.thread \in FiledFolders(note.blocks)
  <2>1. /\ List \in Seq(Rules) /\ Classify(List, message, match)
        /\ ~BlockingIn(note.blocks[block])
    BY <1>1, ClassifiedFacts
  <2>2. match \in DOMAIN List /\ MatchRule(List[match], message)
    BY <1>1, <2>1 DEF Classify
  <2>3. PICK g \in List[match].groups : EvaluateGroup(g, message)
    BY <2>2 DEF MatchRule
  <2>4. ~UntestedThreadTarget(List)
    BY <2>1 DEF BlockingIn, List
  <2>5. PICK t \in g : t.key = "thread" /\ ~t.negated
    BY <1>1, <2>2, <2>3, <2>4 DEF UntestedThreadTarget
  <2>6. EvaluatePredicate(t, message)
    BY <2>3, <2>5 DEF EvaluateGroup, EvaluateTerm
  <2>7. message.thread # NoThread
    BY <2>5, <2>6, KeysAssumption DEF EvaluatePredicate
  <2> QED
    BY <1>1, <2>7, ThreadIsFiled DEF GateInv, ThreadFound
<1>2. GateInv => ThreadTargetDefined
  BY <1>1 DEF ThreadTargetDefined
<1> QED
  BY <1>2, GateInvariant, PTL

\* Every destination that the actions of a claimed message's rule name is
\* declared and within the roots, and every category is on the note's list.
THEOREM NamesResolve == Spec => []ActionsResolve
<1>1. ASSUME GateInv, Classified, match <= Len(List)
      PROVE  /\ NamedBy(List[match], {"save-attachments"}) \subseteq note.destinations \ note.outside
             /\ note.declares => CategoryNames(List[match]) \subseteq note.categories
  <2>1. /\ List \in Seq(Rules) /\ Classify(List, message, match)
        /\ ~BlockingIn(note.blocks[block])
        /\ note.destinations \cap note.outside = {}
    BY <1>1, ClassifiedFacts
  <2>2. match \in DOMAIN List
    BY <1>1, <2>1 DEF Classify
  <2>3. NamedBy(List[match], {"save-attachments"}) \subseteq note.destinations
    BY <2>1, <2>2 DEF BlockingIn, List, UnknownDestination
  <2>4. note.declares => CategoryNames(List[match]) \subseteq note.categories
    BY <2>1, <2>2 DEF BlockingIn, List, UnknownCategory
  <2> QED
    BY <2>1, <2>3, <2>4
<1>2. GateInv => ActionsResolve
  BY <1>1 DEF ActionsResolve
<1> QED
  BY <1>2, GateInvariant, PTL
=============================================================================
