---------------------------- MODULE GraphClient ----------------------------
(***************************************************************************)
(* The one HTTP client of the tools (src/main/graph-client/index.ts): how  *)
(* a path reaches Graph, and how a request settles.  There is no timeout,  *)
(* and a response that breaks off settles nothing.                         *)
(***************************************************************************)
EXTENDS Naturals, Sequences

CONSTANT Odd   \* the names with a character encodeURIComponent changes

-----------------------------------------------------------------------------
\* Paths.  A segment is a name, with or without a query string glued to it,
\* and the number of times it has been encoded.

Segment(name, query) == [name |-> name, query |-> query, times |-> 0]

encodeURIComponent(seg) ==
    IF seg.name \in Odd \/ seg.query \/ seg.times > 0
    THEN [seg EXCEPT !.times = @ + 1]
    ELSE seg

\* callGraphAPI encodes every segment of a path it is given.
OnTheWire(seg) == encodeURIComponent(seg)

\* Graph decodes a segment once; what is left must be the name and only that.
Unreadable == "no such name"
Reaches(seg) == IF seg.times <= 1 /\ ~seg.query THEN seg.name ELSE Unreadable

-----------------------------------------------------------------------------
\* Answers: a document with the wanted field; an empty or other document;
\* 2xx that does not parse; a status that is no success; 401; an error of the
\* connection; a response that breaks off after its head.

Answers == {"ok", "bare", "garbled", "refused", "unauthorized", "lost", "cut"}

\* Whether Graph carried the request out.
MayHaveDone(answer) ==
    CASE answer \in {"ok", "bare", "garbled"}        -> {TRUE}
      [] answer \in {"refused", "unauthorized"}      -> {FALSE}
      [] answer \in {"lost", "cut"}                  -> BOOLEAN

\* Mutant: an error status resolves, its body taken for the document.
ResolvesAnyStatus(answer) == answer \in {"ok", "bare", "refused"}

Resolves(answer) == answer \in {"ok", "bare"}
NeverSettles(answer) == answer = "cut"

\* A caller that gives maxResponseBytes gets no more than that, whether the
\* head announced the length or the bytes were counted as they came.
WithinLimit(bytes, limit) == bytes <= limit

-----------------------------------------------------------------------------
\* callGraphAPIPaginated, one page at a time: the items so far, at most max
\* when there is one, and whether another page follows.

\* Mutant: the last page is not cut to the count asked for.
WholePages(items, max) == items

UpTo(items, max) == IF max > 0 /\ Len(items) > max THEN SubSeq(items, 1, max) ELSE items
Enough(items, max) == max > 0 /\ Len(items) >= max
=============================================================================
