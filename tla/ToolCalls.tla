----------------------------- MODULE ToolCalls -----------------------------
(***************************************************************************)
(* A tool call on an MCP server, from the registration gate to its report  *)
(* and its line in the audit log, and the handlers that act on one named   *)
(* thing (src/main/email, calendar and onedrive).  A handler runs from one *)
(* answer of Graph to its next request in one step.                        *)
(*                                                                         *)
(* What clients ask, the configuration, and which failures Graph shows are *)
(* a scene, chosen once at the start.                                      *)
(***************************************************************************)
EXTENDS ToolTable, GraphClient, SearchTerms, AuditLog

CONSTANTS
    Calls,    \* tool calls
    Scenes    \* [access, audit, asked, trouble, ...], see Init of ToolServers

ASSUME ScenesAssumption ==
    \A s \in Scenes :
        /\ s.trouble \subseteq Answers
        /\ \A c \in DOMAIN s.asked :
             /\ s.asked[c].tool \in ToolNames
             /\ s.asked[c].server \in Servers /\ s.access[s.asked[c].server] \in DOMAIN Rank
             /\ s.asked[c].name \in STRING /\ s.asked[c].sequence \in Nat
        /\ s.rules \in Seq([id : STRING, name : STRING, sequence : Nat])
        /\ s.audit.rotates \in BOOLEAN /\ s.audit.keep \in Nat /\ s.audit.maxLines \in Nat

VARIABLES
    scene,    \* the scene of this behaviour
    at,       \* where each call stands
    report,   \* what the client was told
    carried,  \* history: the changes Graph carried out for a call
    fault,    \* history: the call met a failure that is not its own making
    items     \* the named things there are: messages, events, files

callVars == <<scene, at, report, carried, fault, items>>

asked(c) == scene.asked[c]
Host(c) == asked(c).server
ToolFor(c) == ToolOf(asked(c).tool)
Handler(c) == ToolFor(c).handler
Level(c) == LevelOf(asked(c).tool)

\* Mutant: an absent dry_run is taken for false.
PreviewsWhenTold(c) == ToolFor(c).dryRun /\ asked(c).dry_run = "true"

\* dry_run !== false, and the default of the calendar tools.
Previews(c) == ToolFor(c).dryRun /\ asked(c).dry_run # "false"

InCall(c) == at[c] \notin {"new", "done", "gone", "stuck"}

-----------------------------------------------------------------------------
\* Registration, authentication, report

Step(c, s) == at' = [at EXCEPT ![c] = s]
Continue(c, s) == Step(c, s) /\ UNCHANGED <<report, logVars>>

\* Mutant: a result that is an error is not logged.
SettleQuietly(c, r) ==
    /\ Step(c, "done")
    /\ report' = [report EXCEPT ![c] = r]
    /\ IF Audited(Level(c)) /\ r # "error"
       THEN Enqueue(Host(c), [call |-> c, ok |-> TRUE]) ELSE UNCHANGED queue
    /\ UNCHANGED <<audit, live, slot, writer, appended, missed, disturbed, cutShort>>

\* withAuditLog: the result goes back at once, the event into the queue.
Settle(c, r) ==
    /\ Step(c, "done")
    /\ report' = [report EXCEPT ![c] = r]
    /\ IF Audited(Level(c)) THEN Enqueue(Host(c), [call |-> c, ok |-> r # "error"]) ELSE UNCHANGED queue
    /\ UNCHANGED <<audit, live, slot, writer, appended, missed, disturbed, cutShort>>

Call(c) ==
    /\ c \in DOMAIN scene.asked /\ at[c] = "new"
    /\ Allowed(Level(c), scene.access[Host(c)])
    /\ Continue(c, "auth")
    /\ UNCHANGED <<scene, carried, fault, items>>

LooksFirst(c) ==
    \/ Handler(c).look = "always"
    \/ Handler(c).look = "preview" /\ Previews(c)
    \/ Handler(c).look = "byPath" /\ asked(c).by = "path"

\* Arguments that the handler turns down before it asks for a token.
TurnedDown(c) ==
    \/ ~asked(c).complete
    \/ Handler(c).flow = "list" /\ Unsearchable(asked(c).search)

TurnDown(c) ==
    /\ at[c] = "auth"
    /\ TurnedDown(c)
    /\ Settle(c, "error")
    /\ UNCHANGED <<scene, carried, fault, items>>

\* Where the handler of each flow goes once it has a token.
Entry(c) ==
    CASE Handler(c).flow = "item" -> IF LooksFirst(c) THEN "look" ELSE "act"
      [] Handler(c).flow = "list" -> IF asked(c).folder = <<>> THEN "page" ELSE "walk"
      [] Handler(c).flow = "attachment" -> "metadata"
      [] Handler(c).flow = "upload" -> "session"
      [] Handler(c).flow \in {"listRules", "reorderRule"} -> "rules"
      [] Handler(c).flow = "createRule" ->
             IF asked(c).sequence = 0 THEN "rules"
             ELSE IF asked(c).folder # <<>> THEN "walk" ELSE "post"
      [] OTHER -> "walk"

\* Authentication required, or a token.
NoToken(c) ==
    /\ at[c] = "auth" /\ ~TurnedDown(c)
    /\ "unauthorized" \in scene.trouble
    /\ fault' = [fault EXCEPT ![c] = TRUE]
    /\ Settle(c, "error")
    /\ UNCHANGED <<scene, carried, items>>

-----------------------------------------------------------------------------
\* A request

\* What Graph may answer to a request for this segment, if it finds it.
Replies(found) == IF found THEN {"ok"} \cup scene.trouble ELSE {"refused"}

\* A refusal is of the handler's own making when the request did not name what
\* the client had named.
Blame(c, answer, faithful) ==
    fault' = [fault EXCEPT ![c] = @ \/ answer \notin {"ok", "refused"} \/ (answer = "refused" /\ faithful)]

Did(c, change) == carried' = [carried EXCEPT ![c] = Append(@, change)]

\* A request that only reads: what follows a document, and the failure of
\* everything else.
Rejected(c, answer) ==
    IF NeverSettles(answer) THEN Continue(c, "stuck") ELSE Settle(c, "error")

-----------------------------------------------------------------------------
\* Handlers that act on one named thing

Named(c, query) ==
    LET seg == Segment(asked(c).name, FALSE)
    IN  [IF Handler(c).encoded THEN encodeURIComponent(seg) ELSE seg EXCEPT !.query = query]

ItemLook(c) ==
    /\ at[c] = "look"
    /\ LET reached == Reaches(OnTheWire(Named(c, Handler(c).select)))
       IN  \E answer \in Replies(reached \in items) :
             /\ Blame(c, answer, reached = asked(c).name)
             /\ IF ~Resolves(answer) THEN Rejected(c, answer)
                ELSE IF answer = "bare" /\ Handler(c).look # "preview" THEN Settle(c, "error")
                ELSE IF Previews(c) THEN Settle(c, "preview")
                ELSE Continue(c, "act")
    /\ UNCHANGED <<scene, carried, items>>

\* The item a read has found is deleted by the id it came with.
Target(c) ==
    LET seg == IF Handler(c).look = "always" THEN Segment(asked(c).name, FALSE) ELSE Named(c, FALSE)
    IN  Reaches(OnTheWire(seg))

\* A PUT needs no thing of that name to be there.
Finds(c) == Target(c) \in items \/ Handler(c).does = "put"

After(c, done) ==
    CASE done /\ Handler(c).does = "remove"  -> items \ {Target(c)}
      [] done /\ Handler(c).does = "put" -> items \cup {Target(c)}
      [] OTHER -> items

ItemAct(c) ==
    /\ at[c] = "act"
    /\ \E answer \in Replies(Finds(c)), done \in BOOLEAN :
         /\ done \in MayHaveDone(answer)
         /\ Blame(c, answer, Target(c) = asked(c).name)
         /\ items' = After(c, done)
         /\ IF done /\ Handler(c).does # "nothing"
            THEN Did(c, [does |-> Handler(c).does, on |-> Target(c)]) ELSE UNCHANGED carried
         /\ IF ~Resolves(answer) THEN Rejected(c, answer)
            ELSE Settle(c, IF answer = "bare" /\ Handler(c).needs # "nothing" THEN "error" ELSE "ok")
    /\ UNCHANGED scene
=============================================================================
