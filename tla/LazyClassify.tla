---------------------------- MODULE LazyClassify ----------------------------
(***************************************************************************)
(* How a pass classifies one message (src/main/triage/run.ts 435-474,      *)
(* lookups.ts, matcher.ts).  The first rule that matches wins, but whether *)
(* a rule matches may depend on where the message's thread is filed and on *)
(* the owner's forwards of it, which cost Graph calls.  They are looked up *)
(* only when the current match could depend on them, and the message is    *)
(* classified again with what was found.                                   *)
(*                                                                         *)
(* A rule is a set of OR-groups and a group a set of AND-terms; a term is  *)
(* a test of the message itself, of its thread, or of the forwards to an   *)
(* address, possibly negated.  A failed lookup reads as nothing found, so  *)
(* it is a world in which there is nothing.                                *)
(***************************************************************************)
EXTENDS Naturals, Sequences

CONSTANTS
    Tests,       \* what a rule may ask of the message itself
    Addresses,   \* addresses that forwarded-to: terms name
    RuleLists    \* the rule blocks considered

Terms ==
    [key : {"plain"}, value : Tests, negated : BOOLEAN]
        \cup [key : {"thread"}, value : {"filed"}, negated : BOOLEAN]
        \cup [key : {"forwarded-to"}, value : Addresses, negated : BOOLEAN]

Groups == SUBSET Terms

ASSUME RuleListsAssumption == RuleLists \subseteq Seq(SUBSET Groups)

\* A message and the mailbox around it: the tests it passes, whether it has a
\* conversation, whether that is filed, and how often each address got it.
Worlds == [plain : SUBSET Tests, conversation : BOOLEAN, filed : BOOLEAN,
           forwards : [Addresses -> 0 .. 2]]

VARIABLES
    rules,     \* the block
    world,     \* the message
    match,     \* index of the rule that matches, one past the end for none
    looked,    \* threadLooked
    asked,     \* the addresses whose forwards were looked up
    done       \* the loop is over

vars == <<rules, world, match, looked, asked, done>>

-----------------------------------------------------------------------------
\* Matching, with what the lookups made known so far

IsForward(t) == t.key = "forwarded-to"
IsThread(t)  == t.key = "thread"

\* evaluatePredicate: an absent thread is not filed, an address not looked up
\* has no forward, and only exactly one forward counts.
Predicate(t, threadKnown, known) ==
    \/ t.key = "plain" /\ t.value \in world.plain
    \/ IsThread(t) /\ threadKnown /\ world.conversation /\ world.filed
    \/ IsForward(t) /\ t.value \in known /\ world.forwards[t.value] = 1

HoldsTerm(t, threadKnown, known) ==
    IF t.negated THEN ~Predicate(t, threadKnown, known) ELSE Predicate(t, threadKnown, known)

HoldsGroup(g, threadKnown, known) == \A t \in g : HoldsTerm(t, threadKnown, known)

Matches(i, threadKnown, known) == \E g \in rules[i] : HoldsGroup(g, threadKnown, known)

NoMatch == Len(rules) + 1

\* Mutant: the index counts from zero.
IsFirstFromZero(i, threadKnown, known) ==
    /\ i \in 0 .. Len(rules)
    /\ i < Len(rules) => Matches(i + 1, threadKnown, known)
    /\ \A j \in 1 .. i : ~Matches(j, threadKnown, known)

\* classify: i is the index of the first rule that matches.
IsFirst(i, threadKnown, known) ==
    /\ i \in 1 .. NoMatch
    /\ i # NoMatch => Matches(i, threadKnown, known)
    /\ \A j \in 1 .. (i - 1) : ~Matches(j, threadKnown, known)

Classify(threadKnown, known) ==
    \E i \in 0 .. NoMatch : IsFirst(i, threadKnown, known) /\ match' = i

-----------------------------------------------------------------------------
\* What there is to look up

\* Mutant: a negated thread: test is not counted as one.
TestsThreadHeld(i) == \E g \in rules[i] : \E t \in g : IsThread(t) /\ ~t.negated

TestsThread(i) == \E g \in rules[i] : \E t \in g : IsThread(t)

\* match.ruleIndex is -1, or at or below the first rule that tests the thread.
ThreadMatters ==
    /\ world.conversation
    /\ ~looked
    /\ \E i \in 1 .. Len(rules) : i <= match /\ TestsThread(i)

\* Mutant: the other terms of the group are not tested.
AddressesOfReachable ==
    {a \in Addresses \ asked : \E i \in 1 .. Len(rules) :
        i <= match /\ \E g \in rules[i] : \E t \in g : IsForward(t) /\ t.value = a}

\* forwardAddressesToResolve
AddressesToResolve ==
    {a \in Addresses \ asked : \E i \in 1 .. Len(rules) :
        /\ i <= match
        /\ \E g \in rules[i] :
            /\ \E t \in g : IsForward(t) /\ t.value = a
            /\ \A t \in g : IsForward(t) \/ HoldsTerm(t, looked, asked)}

-----------------------------------------------------------------------------
Init ==
    /\ rules \in RuleLists
    /\ world \in Worlds
    /\ match \in 1 .. NoMatch
    /\ IsFirst(match, FALSE, {})
    /\ looked = FALSE
    /\ asked = {}
    /\ done = FALSE

LookUpThread ==
    /\ ~done
    /\ ThreadMatters
    /\ looked' = TRUE
    /\ Classify(TRUE, asked)
    /\ UNCHANGED <<rules, world, asked, done>>

\* Mutant: the forwards found before are not carried over.
LookUpForwardsForgets ==
    /\ ~done
    /\ ~ThreadMatters
    /\ AddressesToResolve # {}
    /\ asked' = AddressesToResolve
    /\ Classify(looked, asked')
    /\ UNCHANGED <<rules, world, looked, done>>

LookUpForwards ==
    /\ ~done
    /\ ~ThreadMatters
    /\ AddressesToResolve # {}
    /\ asked' = asked \cup AddressesToResolve
    /\ Classify(looked, asked')
    /\ UNCHANGED <<rules, world, looked, done>>

Settle ==
    /\ ~done
    /\ ~ThreadMatters
    /\ AddressesToResolve = {}
    /\ done' = TRUE
    /\ UNCHANGED <<rules, world, match, looked, asked>>

Next == LookUpThread \/ LookUpForwards \/ Settle

Spec == Init /\ [][Next]_vars

FairSpec == Spec /\ WF_vars(Next)

-----------------------------------------------------------------------------
TypeOK ==
    /\ rules \in Seq(SUBSET Groups)
    /\ world \in Worlds
    /\ match \in 1 .. NoMatch
    /\ looked \in BOOLEAN
    /\ asked \in SUBSET Addresses
    /\ done \in BOOLEAN

\* The rule a pass settles on is the one that matches first when everything is
\* looked up: being lazy about the lookups never changes where a message goes.
LazyIsEager == done => IsFirst(match, TRUE, Addresses)

\* A forward is searched for only when a group that tests it holds in all that
\* the message itself says.
LooksUpRelevant ==
    \A a \in asked : \E i \in 1 .. Len(rules) : \E g \in rules[i] :
        /\ \E t \in g : IsForward(t) /\ t.value = a
        /\ \A t \in g : t.key = "plain" => HoldsTerm(t, looked, asked)

\* The loop ends for every message and every rule block.
Settles == <>done
=============================================================================
