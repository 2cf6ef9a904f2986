------------------------- MODULE LazyClassifyProofs -------------------------
(***************************************************************************)
(* Lazy classification settles on the rule that eager classification would *)
(* choose, for every rule block and every message.                         *)
(***************************************************************************)
EXTENDS LazyClassify, TLAPS

\* The match is always the first rule that matches with what is known, and the
\* loop ends only when there is nothing left to look up.
LazyInv ==
    /\ TypeOK
    /\ IsFirst(match, looked, asked)
    /\ done => ~ThreadMatters /\ AddressesToResolve = {}

\* With nothing left to look up, no rule down to the match reads differently
\* from what it reads when all is known.
LEMMA NothingLeftToLearn ==
    ASSUME LazyInv, ~ThreadMatters, AddressesToResolve = {},
           NEW i \in 1 .. Len(rules), i <= match
    PROVE  Matches(i, looked, asked) = Matches(i, TRUE, Addresses)
<1>1. ASSUME NEW g \in rules[i]
      PROVE  HoldsGroup(g, looked, asked) = HoldsGroup(g, TRUE, Addresses)
  <2>1. ASSUME NEW t \in g, ~IsForward(t)
        PROVE  HoldsTerm(t, looked, asked) = HoldsTerm(t, TRUE, Addresses)
    <3>1. CASE ~IsThread(t)
      BY <2>1, <3>1 DEF HoldsTerm, Predicate
    <3>2. CASE IsThread(t) /\ looked
      BY <2>1, <3>2 DEF HoldsTerm, Predicate, LazyInv, TypeOK
    <3>3. CASE IsThread(t) /\ ~looked
      <4>1. TestsThread(i)
        BY <1>1, <2>1, <3>3 DEF TestsThread
      <4>2. ~world.conversation
        BY <4>1, <3>3 DEF ThreadMatters
      <4> QED
        BY <2>1, <3>3, <4>2 DEF HoldsTerm, Predicate, IsForward, IsThread
    <3> QED
      BY <3>1, <3>2, <3>3 DEF LazyInv, TypeOK
  <2>2. CASE \E t \in g : ~IsForward(t) /\ ~HoldsTerm(t, looked, asked)
    BY <2>1, <2>2 DEF HoldsGroup
  <2>3. CASE \A t \in g : IsForward(t) \/ HoldsTerm(t, looked, asked)
    <3>1. g \in SUBSET Terms
      BY <1>1 DEF LazyInv, TypeOK, Groups
    <3>2. ASSUME NEW t \in g, IsForward(t)
          PROVE  t.value \in Addresses /\ t.value \in asked
      <4>1. t.value \in Addresses
        BY <3>1, <3>2 DEF Terms, IsForward
      <4> QED
        BY <4>1, <1>1, <2>3, <3>2 DEF AddressesToResolve
    <3>3. ASSUME NEW t \in g, IsForward(t)
          PROVE  HoldsTerm(t, looked, asked) = HoldsTerm(t, TRUE, Addresses)
      BY <3>2, <3>3 DEF HoldsTerm, Predicate, IsForward, IsThread
    <3> QED
      BY <2>1, <3>3 DEF HoldsGroup
  <2> QED
    BY <2>2, <2>3
<1> QED
  BY <1>1 DEF Matches

-----------------------------------------------------------------------------
LEMMA InitLazyInv == ASSUME Init PROVE LazyInv
<1>1. rules \in Seq(SUBSET Groups)
  BY RuleListsAssumption DEF Init
<1> QED
  BY <1>1 DEF Init, LazyInv, TypeOK

LEMMA NextLazyInv == ASSUME LazyInv, [Next]_vars PROVE LazyInv'
<1> USE DEF LazyInv
<1>1. CASE LookUpThread
  <2>1. IsFirst(match', TRUE, asked) /\ match' \in 1 .. NoMatch
    BY <1>1 DEF LookUpThread, Classify, IsFirst
  <2>2. IsFirst(match, looked, asked)'
    BY <1>1, <2>1 DEF LookUpThread, IsFirst, Matches, HoldsGroup, HoldsTerm, Predicate, NoMatch
  <2>3. TypeOK'
    BY <1>1, <2>1 DEF LookUpThread, TypeOK, NoMatch
  <2> QED
    BY <1>1, <2>2, <2>3 DEF LookUpThread
<1>2. CASE LookUpForwards
  <2>1. IsFirst(match', looked, asked') /\ match' \in 1 .. NoMatch
    BY <1>2 DEF LookUpForwards, Classify, IsFirst
  <2>2. IsFirst(match, looked, asked)'
    BY <1>2, <2>1 DEF LookUpForwards, IsFirst, Matches, HoldsGroup, HoldsTerm, Predicate, NoMatch
  <2>3. TypeOK'
    BY <1>2, <2>1 DEF LookUpForwards, TypeOK, NoMatch, AddressesToResolve
  <2> QED
    BY <1>2, <2>2, <2>3 DEF LookUpForwards
<1>3. CASE Settle
  <2>1. IsFirst(match, looked, asked)'
    BY <1>3 DEF Settle, IsFirst, Matches, HoldsGroup, HoldsTerm, Predicate, NoMatch
  <2>2. TypeOK'
    BY <1>3 DEF Settle, TypeOK, NoMatch
  <2>3. (~ThreadMatters /\ AddressesToResolve = {})'
    BY <1>3 DEF Settle, ThreadMatters, TestsThread, AddressesToResolve, HoldsTerm, Predicate
  <2> QED
    BY <2>1, <2>2, <2>3
<1>4. CASE UNCHANGED vars
  BY <1>4 DEF vars, TypeOK, IsFirst, Matches, HoldsGroup, HoldsTerm, Predicate, NoMatch,
              ThreadMatters, TestsThread, AddressesToResolve
<1> QED
  BY <1>1, <1>2, <1>3, <1>4 DEF Next

LEMMA LazyInvariant == Spec => []LazyInv
BY InitLazyInv, NextLazyInv, PTL DEF Spec

-----------------------------------------------------------------------------
\* The variables keep their types.
THEOREM TypeCorrect == Spec => []TypeOK
<1>1. LazyInv => TypeOK
  BY DEF LazyInv
<1> QED
  BY <1>1, LazyInvariant, PTL

\* The rule a pass settles on is the one it would settle on if it had looked up
\* the thread and every address before it classified (run.ts, lookups.ts).
THEOREM LazyMatchesEager == Spec => []LazyIsEager
<1>1. ASSUME LazyInv, done PROVE IsFirst(match, TRUE, Addresses)
  <2>1. ~ThreadMatters /\ AddressesToResolve = {}
    BY <1>1 DEF LazyInv
  <2>2. match \in 1 .. NoMatch /\ Len(rules) \in Nat
    BY <1>1 DEF LazyInv, TypeOK
  <2>3. match # NoMatch => Matches(match, TRUE, Addresses)
    <3>1. match # NoMatch => match \in 1 .. Len(rules) /\ match <= match
      BY <2>2 DEF NoMatch
    <3> QED
      BY <1>1, <2>1, <3>1, NothingLeftToLearn DEF LazyInv, IsFirst
  <2>4. ASSUME NEW j \in 1 .. (match - 1) PROVE ~Matches(j, TRUE, Addresses)
    <3>1. j \in 1 .. Len(rules) /\ j <= match
      BY <2>2 DEF NoMatch
    <3> QED
      BY <1>1, <2>1, <3>1, NothingLeftToLearn DEF LazyInv, IsFirst
  <2> QED
    BY <2>2, <2>3, <2>4 DEF IsFirst
<1>2. LazyInv => LazyIsEager
  BY <1>1 DEF LazyIsEager
<1> QED
  BY <1>2, LazyInvariant, PTL

\* A search for forwards is never made for a message that no group testing that
\* address is about (lookups.ts, forwardAddressesToResolve).
THEOREM OnlyRelevantLookups == Spec => []LooksUpRelevant
<1>1. Init => LooksUpRelevant
  BY DEF Init, LooksUpRelevant
<1>2. ASSUME LooksUpRelevant, [Next]_vars PROVE LooksUpRelevant'
  <2>1. CASE LookUpForwards
    <3>1. ASSUME NEW a \in asked'
          PROVE  \E i \in 1 .. Len(rules) : \E g \in rules[i] :
                    /\ \E t \in g : IsForward(t) /\ t.value = a
                    /\ \A t \in g : t.key = "plain" => HoldsTerm(t, looked, asked)
      <4>1. CASE a \in asked
        BY <1>2, <4>1 DEF LooksUpRelevant
      <4>2. CASE a \in AddressesToResolve
        BY <4>2 DEF AddressesToResolve, IsForward
      <4> QED
        BY <2>1, <3>1, <4>1, <4>2 DEF LookUpForwards
    <3> QED
      BY <2>1, <3>1 DEF LookUpForwards, LooksUpRelevant, HoldsTerm, Predicate, IsForward, IsThread
  <2>2. CASE LookUpThread
    BY <1>2, <2>2 DEF LookUpThread, LooksUpRelevant, HoldsTerm, Predicate, IsForward, IsThread
  <2>3. CASE Settle
    BY <1>2, <2>3 DEF Settle, LooksUpRelevant, HoldsTerm, Predicate, IsForward, IsThread
  <2>4. CASE UNCHANGED vars
    BY <1>2, <2>4 DEF vars, LooksUpRelevant, HoldsTerm, Predicate, IsForward, IsThread
  <2> QED
    BY <1>2, <2>1, <2>2, <2>3, <2>4 DEF Next
<1> QED
  BY <1>1, <1>2, PTL DEF Spec
=============================================================================
