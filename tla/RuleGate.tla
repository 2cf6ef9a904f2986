------------------------------ MODULE RuleGate ------------------------------
(***************************************************************************)
(* The gate in front of a pass (src/main/triage/run.ts): the note is read  *)
(* afresh on every call and linted whole; with a blocking finding, or no   *)
(* block for the pass, the call is refused.  Otherwise the selected block  *)
(* classifies one message after the other.                                 *)
(***************************************************************************)
EXTENDS ThreadFiling

CONSTANTS
    Notes,      \* the notes considered, as they are parsed
    Messages    \* the messages considered

ASSUME NotesAssumption    == Notes \subseteq ParseResults
ASSUME MessagesAssumption == Messages \subseteq Records

VARIABLES
    note,      \* the note
    pass,      \* the pass that was called: triage (inbound) or aged
    stage,     \* called, running or refused
    block,     \* the block it runs
    message,   \* the message it has classified last
    match      \* the rule that claims it, or one past the end

vars == <<note, pass, stage, block, message, match>>

NoMessage == <<>>

List == note.blocks[block].rules

TypeOK ==
    /\ note \in Notes
    /\ pass \in {"inbound", "aged"}
    /\ stage \in {"called", "running", "refused"}
    /\ block \in 0 .. Len(note.blocks)
    /\ stage = "running" => block # 0
    /\ message \in Records \cup {NoMessage}
    /\ message # NoMessage => stage = "running" /\ match \in 1 .. Len(List) + 1

Init ==
    /\ note \in Notes
    /\ pass \in {"inbound", "aged"}
    /\ stage = "called"
    /\ block = 0
    /\ message = NoMessage
    /\ match = 0

\* A finding of BLOCKING_CODES in any block.  A fallback is required of the
\* block labelled inbound, and only for the triage pass.
BlockingIn(b) ==
    \/ /\ pass = "inbound" /\ b.label = "inbound"
       /\ MissingFallback(b.rules) \/ MisplacedFallback(b.rules)
    \/ UntestedThreadTarget(b.rules)
    \/ UnknownDestination(b.rules, note.destinations)
    \/ note.declares /\ UnknownCategory(b.rules, note.categories)

Blocking ==
    \/ ~note.parses
    \/ OutsideRoots(note)
    \/ \E b \in DOMAIN note.blocks : BlockingIn(note.blocks[b])

Refuse ==
    /\ stage = "called"
    /\ Blocking \/ ~\E b \in DOMAIN note.blocks : SelectBlock(note.blocks, pass, b)
    /\ stage' = "refused"
    /\ UNCHANGED <<note, pass, block, message, match>>

Run ==
    /\ stage = "called"
    /\ ~Blocking
    /\ \E b \in DOMAIN note.blocks : SelectBlock(note.blocks, pass, b) /\ block' = b
    /\ stage' = "running"
    /\ UNCHANGED <<note, pass, message, match>>

\* The thread of the message, unless it is in none or its lookup fails.
ThreadFound(m, f) == f = NoThread \/ ResolveThread(note.blocks, m.siblings, f)

ClassifyMessage(m) ==
    /\ stage = "running"
    /\ message = NoMessage
    /\ \E f \in Folders \cup {NoThread} : ThreadFound(m, f) /\ message' = [m EXCEPT !.thread = f]
    /\ \E i \in 0 .. Len(List) + 1 : Classify(List, message', i) /\ match' = i
    /\ UNCHANGED <<note, pass, stage, block>>

NextMessage ==
    /\ message # NoMessage
    /\ message' = NoMessage
    /\ match' = 0
    /\ UNCHANGED <<note, pass, stage, block>>

Next == Refuse \/ Run \/ NextMessage \/ \E m \in Messages : ClassifyMessage(m)

Spec == Init /\ [][Next]_vars

-----------------------------------------------------------------------------
Classified == message # NoMessage

\* A rule that lint reports as unreachable or as a duplicate never claims a
\* message: the owner may delete it and no mail goes elsewhere.
ReportedNeverFires == Classified => match \notin ShadowedRules(List) \cup DuplicateRules(List)

\* A triage pass over an inbound block leaves no message unclassified.
NothingUnclassified ==
    Classified /\ pass = "inbound" /\ note.blocks[block].label = "inbound" => match <= Len(List)

\* A rule that files a message with its thread claims only messages whose
\* thread is filed, and sends them to a folder that the inbound block files mail
\* into: never to an archive, nor where the fallback puts what nothing claims.
ThreadTargetDefined ==
    Classified /\ match <= Len(List) /\ ToThread(List[match]) => message.thread \in FiledFolders(note.blocks)

\* Whatever a claimed message's rule names is there when the pass comes to it: a
\* destination the note declares, within the roots, and, once the note lists
\* its categories, a category on the list.  The saver would otherwise fail one
\* message at a time, after actions that cannot be taken back.
ActionsResolve ==
    Classified /\ match <= Len(List) =>
        /\ NamedBy(List[match], {"save-attachments"}) \subseteq note.destinations \ note.outside
        /\ note.declares => CategoryNames(List[match]) \subseteq note.categories
=============================================================================
