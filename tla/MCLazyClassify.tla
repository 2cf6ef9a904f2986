--------------------------- MODULE MCLazyClassify ---------------------------
EXTENDS LazyClassify, FiniteSets

Term(key, value, negated) == [key |-> key, value |-> value, negated |-> negated]

MCTests == {"sender"}
MCAddresses == {"a", "b"}

MCTerms ==
    {Term("plain", "sender", FALSE), Term("thread", "filed", FALSE), Term("thread", "filed", TRUE),
     Term("forwarded-to", "a", FALSE), Term("forwarded-to", "a", TRUE),
     Term("forwarded-to", "b", FALSE)}

MCGroups == {g \in SUBSET MCTerms : Cardinality(g) \in 1 .. 2}

\* Every block of two rules of one group, every single rule of two groups, and
\* every block of three rules of one term, or of one that tests the message and
\* one that needs a lookup.
Simple == {g \in MCGroups : Cardinality(g) = 1 \/ \E t \in g : t.key = "plain"}

MCRuleLists ==
    {<<{g}, {h}>> : g, h \in MCGroups}
        \cup {<<{g, h}>> : g, h \in MCGroups}
        \cup {<<{g}, {h}, {k}>> : g, h, k \in Simple}
=============================================================================
