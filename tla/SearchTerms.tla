---------------------------- MODULE SearchTerms ----------------------------
(***************************************************************************)
(* What a message search asks of Graph: buildSearchParams of               *)
(* src/main/email/search.ts and the KQL builders of src/utils/kql.ts.      *)
(*                                                                         *)
(* A search has text terms, by property, and filters.  The value of a text *)
(* term is                                                                 *)
(*   blank   nothing but white space, or not given                         *)
(*   hollow  something, of which nothing is left once quotes and control   *)
(*           characters are dropped                                        *)
(*   words   the words any one of which makes a message match: more than   *)
(*           one is an OR, which only the query can hold                   *)
(* and a message satisfies it if it has one of the words.  A filter is the *)
(* word that a message must have.                                          *)
(***************************************************************************)
EXTENDS FiniteSets

Properties == {"subject", "from", "to"}
TextTerms == Properties \cup {"query"}
Filters == {"hasAttachments", "unreadOnly", "receivedAfter", "receivedBefore"}

Blank == [kind |-> "blank", words |-> {}]
Hollow == [kind |-> "hollow", words |-> {}]
Words(ws) == [kind |-> "words", words |-> ws]

\* A search with no term but these.
Search(text, filters) ==
    [text |-> [t \in TextTerms |-> IF t \in DOMAIN text THEN text[t] ELSE Blank], filters |-> filters]

-----------------------------------------------------------------------------
\* A KQL query, and a $filter, is a set of clauses joined with AND; a clause
\* is a set of words of which a message must have one.

kqlPropertyClause(term) == term.words

\* Bracketed, so that an OR of the caller's own stays inside its clause.
kqlFreeTextClause(term) == term.words

Clause(search, t) ==
    IF t = "query" THEN kqlFreeTextClause(search.text[t]) ELSE kqlPropertyClause(search.text[t])

Given(search) == {t \in TextTerms : search.text[t].kind # "blank"}

\* A term of which nothing is left is an error, never a search without it.
Unsearchable(search) == \E t \in Given(search) : Clause(search, t) = {}

addBooleanFilters(search) == {{f} : f \in search.filters}

\* Mutant: $search and $filter do not mix, so the filters are left out.
FiltersLeftOut(clauses, search) == clauses

\* Graph cannot mix $search and $filter: the filters join the text clauses.
addFiltersAsKQL(clauses, search) == clauses \cup {{f} : f \in search.filters}

buildSearchParams(search) ==
    LET kqlTerms == {Clause(search, t) : t \in Given(search)}
    IN  IF kqlTerms # {}
        THEN [kind |-> "search", clauses |-> addFiltersAsKQL(kqlTerms, search)]
        ELSE [kind |-> "filter", clauses |-> addBooleanFilters(search)]

\* What Graph finds: a message with the words `has`.
Matched(params, has) == \A clause \in params.clauses : clause \cap has # {}

-----------------------------------------------------------------------------

\* What the caller asked for: every term given and every filter.
Wanted(search, has) ==
    /\ \A t \in Given(search) : search.text[t].words \cap has # {}
    /\ search.filters \subseteq has
=============================================================================
