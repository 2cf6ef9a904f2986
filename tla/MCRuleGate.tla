----------------------------- MODULE MCRuleGate -----------------------------
EXTENDS RuleGate, FiniteSets

CONSTANTS short, long, other, flagged

\* mail.example is a subdomain of example.
MCFits == {<<p, l>> \in {"*", "ann"} \X {"ann", "bob"} : p \in {"*", l}}
MCUnder == {<<"example", "example">>, <<"mail.example", "mail.example">>, <<"mail.example", "example">>}
MCWithin == {<<short, short>>, <<long, long>>, <<short, long>>, <<other, other>>}

Term(key, value) == [key |-> key, value |-> value, negated |-> FALSE]
Not(t) == [t EXCEPT !.negated = TRUE]
Pattern(local, domain, deep) == [local |-> local, domain |-> domain, deep |-> deep]

Ann  == Pattern("ann", "example", FALSE)
All  == Pattern("*", "example", FALSE)
Deep == Pattern("*", "example", TRUE)
Mail == Pattern("*", "mail.example", FALSE)

MCTerms ==
    {Term("sender", p) : p \in {Ann, All, Deep, Mail}}
        \cup {Term("party", p) : p \in {Ann, Deep}}
        \cup {Term("to", Ann), Term("subject", short), Term("subject", long),
              Term("thread", Filed), Term("status", flagged)}

MCGroups ==
    {{t} : t \in MCTerms \cup {Not(Term("thread", Filed)), Not(Term("sender", All))}}
        \cup {{s, t} : s \in MCTerms, t \in {Term("subject", short), Not(Term("thread", Filed))}}

Move(f) == [kind |-> "move", value |-> f]
Save(d) == [kind |-> "save-attachments", value |-> d]

Rule(groups, actions) == [groups |-> groups, actions |-> actions, written |-> "in order"]
Reordered(rule) == [rule EXCEPT !.written = "reordered"]
Filing(groups) == Rule(groups, {Move("work")})
Following(groups) == Rule(groups, {Move(AtThread)})
Fallback == Rule({{}}, {Move("unknown")})

Arms == {{s, Term("thread", Filed)} : s \in {Term("sender", All), Term("subject", long)}}
            \cup {{Term("thread", Filed)}, {Not(Term("thread", Filed))}, {Term("to", Ann)}}

\* Two rules of one group and the fallback; the same rule twice, its terms in
\* another order; the fallback missing, misplaced or alone; a rule of two OR-arms
\* above or below another, or filing with the thread.
RuleLists ==
    {<<Filing({g}), Filing({h}), Fallback>> : g, h \in MCGroups}
        \cup {<<Filing({g, h}), Filing({k}), Fallback>> : g, h, k \in Arms}
        \cup {<<Filing({k}), Filing({g, h}), Fallback>> : g, h, k \in Arms}
        \cup {<<Following({g, h}), Filing({{Term("cc", Mail)}}), Fallback>> : g, h \in MCGroups}
        \cup {<<Filing({g}), Reordered(Filing({g})), Fallback>> : g \in MCGroups}
        \cup {<<>>, <<Fallback>>, <<Fallback, Fallback>>, <<Filing({{Term("to", Ann)}})>>,
              <<Fallback, Filing({{Term("to", Ann)}}), Fallback>>}

Block(label, rules) == [label |-> label, rules |-> rules]

Note(blocks) == [parses |-> TRUE, blocks |-> blocks, destinations |-> {}, outside |-> {},
                 declares |-> FALSE, categories |-> {}]

\* Replies follow their thread; the aged block archives from one folder or two.
Replies == <<Following({{Term("thread", Filed)}}), Filing({{Term("to", Ann)}}),
             Rule({{Term("subject", short)}}, {Move("home")}), Fallback>>
Archiving(fs) == <<Rule({{Term("folder", f), Term("status", flagged)} : f \in fs}, {Move("archive")})>>

\* Rules that save, test and set categories, over every declaration.
Naming == {{Save("receipts"), Move("work")}, {[kind |-> "tag", value |-> "Done"]},
           {[kind |-> "untag", value |-> "Todo"], Save("bills")}}

Declaring ==
    {[parses |-> p, blocks |-> bs, destinations |-> d, outside |-> o, declares |-> cs # {}, categories |-> cs] :
        p \in BOOLEAN, d \in SUBSET {"receipts", "bills"}, o \in {{}, {"bills"}},
        cs \in {{}, {"Done"}, {"Todo", "Done"}},
        bs \in {<<Block("inbound", <<Rule({{Term("category", "Todo")}}, as), Fallback>>)>> : as \in Naming}
          \cup {<<Block("inbound", <<Fallback>>), Block("aged", <<Rule({{Term("to", Ann)}}, as)>>)>> : as \in Naming}}

\* A note with one block, or with both, where the aged one is as it may be.
MCNotes ==
    {Note(<<Block("inbound", l)>>) : l \in RuleLists}
        \cup {Note(<<Block("inbound", <<Fallback>>), Block("aged", l)>>) :
                l \in {<<>>, <<Filing({{Term("to", Ann)}})>>,
                       <<Following({{Term("to", Ann)}})>>, <<Following({{Term("thread", Filed)}})>>}}
        \cup {Note(<<Block("inbound", Replies), Block("aged", Archiving(fs))>>) :
                fs \in {{"work"}, {"work", "home"}, {"unknown"}}}
        \cup {Note(<<Block("aged", <<Fallback>>), Block("default", <<>>)>>)}
        \cup Declaring

Address(local, domain) == [local |-> local, domain |-> domain]
Senders == {Address("ann", "example"), Address("bob", "example"), Address("bob", "mail.example")}

In(f) == [folder |-> f, own |-> FALSE]

MCMessages ==
    {[from |-> from, to |-> to, cc |-> {Address("bob", "mail.example")}, subject |-> subject, body |-> other,
      holds |-> holds, siblings |-> <<>>, thread |-> NoThread] :
        from \in Senders, to \in {{}, {Address("ann", "example")}}, subject \in {short, long, other},
        holds \in {{}, {<<"status", flagged>>}, {<<"category", "Todo">>, <<"folder", "work">>}}}
        \cup {[from |-> from, to |-> {Address("ann", "example")}, cc |-> {}, subject |-> subject, body |-> other,
               holds |-> {<<"status", flagged>>}, siblings |-> siblings, thread |-> NoThread] :
        from \in Senders, subject \in {short, other},
        siblings \in {<<In("work")>>, <<In("unknown")>>, <<In("archive"), In("home")>>,
                      <<[In("home") EXCEPT !.own = TRUE], In("archive")>>}}
=============================================================================
