---------------------------- MODULE ToolServers ----------------------------
(***************************************************************************)
(* The MCP servers of one owner at work on one mailbox and one drive: the  *)
(* calls their clients make, the folders, rules, messages and files they   *)
(* share with the owner, and the audit log they share with each other.     *)
(*                                                                         *)
(* A scene fixes the configuration, the calls that may be made, what there *)
(* is at the start, what others may do meanwhile, and which failures occur *)
(***************************************************************************)
EXTENDS Uploads

VARIABLES
    left,   \* what others may still do
    dead    \* the servers that have ended

envVars == <<left, dead>>
vars == <<callVars, logVars, folderVars, mailVars, uploadVars, envVars>>

Init ==
    /\ scene \in Scenes
    /\ audit = scene.audit
    /\ at = [c \in Calls |-> "new"]
    /\ report = [c \in Calls |-> "none"]
    /\ carried = [c \in Calls |-> <<>>]
    /\ fault = [c \in Calls |-> FALSE]
    /\ items = scene.items
    /\ tree = scene.tree
    /\ rules = scene.rules
    /\ box = scene.box
    /\ file = scene.file
    /\ LogInit /\ FolderInit /\ MailInit /\ UploadInit
    /\ left = scene.others
    /\ dead = {}

-----------------------------------------------------------------------------
\* Calls

NewCall(c) ==
    /\ Call(c)
    /\ Host(c) \notin dead
    /\ UNCHANGED <<folderVars, mailVars, uploadVars>>

ItemStep(c) ==
    /\ TurnDown(c) \/ NoToken(c) \/ ItemLook(c) \/ ItemAct(c)
    /\ UNCHANGED <<folderVars, mailVars, uploadVars>>

CallStep(c) ==
    /\ \/ ItemStep(c)
       \/ FolderStep(c) /\ UNCHANGED <<mailVars, uploadVars>>
       \/ MailStep(c) /\ UNCHANGED uploadVars
       \/ CreateSession(c)
       \/ UploadChunk(c)
    /\ UNCHANGED envVars

-----------------------------------------------------------------------------
\* The log

LogStep(s) ==
    /\ WriterStep(s)
    /\ UNCHANGED <<callVars, folderVars, mailVars, uploadVars, envVars>>

LogFault(s) ==
    /\ scene.logTrouble
    /\ AppendFails(s) \/ RotationFails(s) \/ ShiftFails(s)
    /\ UNCHANGED <<callVars, folderVars, mailVars, uploadVars, envVars>>

-----------------------------------------------------------------------------
\* The owner, and the ends of servers

Other ==
    /\ left > 0
    /\ left' = left - 1
    /\ \/ \E m \in scene.moves : OwnerArranges(m[1], m[2], m[3]) /\ UNCHANGED <<mailVars, uploadVars, dead>>
       \/ \E f \in scene.deletes : OwnerDeletes(f) /\ UNCHANGED <<mailVars, uploadVars, dead>>
       \/ \E b \in scene.boxes : BoxChanges(b) /\ UNCHANGED <<uploadVars, dead>>
       \/ \E f \in scene.files : FileChanges(f) /\ UNCHANGED <<uploadVars, dead>>

\* The client closes the connection or the process is killed: the calls it was
\* serving are never answered, though a request under way may be carried out.
Dies(s) ==
    /\ scene.deaths /\ s \notin dead
    /\ dead' = dead \cup {s}
    /\ at' = [c \in Calls |-> IF InCall(c) /\ Host(c) = s THEN "gone" ELSE at[c]]
    /\ LogDies(s)
    /\ UNCHANGED <<scene, report, carried, fault, items, folderVars, mailVars, uploadVars, left>>

Next ==
    \/ \E c \in Calls : NewCall(c) /\ UNCHANGED envVars
    \/ \E c \in Calls : CallStep(c)
    \/ \E s \in Servers : LogStep(s) \/ LogFault(s) \/ Dies(s)
    \/ Other

\* Node runs what is ready; clients, owner and failures owe nothing.
Fairness ==
    /\ \A c \in Calls : WF_vars(CallStep(c))
    /\ \A s \in Servers : WF_vars(LogStep(s))

Spec == Init /\ [][Next]_vars /\ Fairness

-----------------------------------------------------------------------------
\* Safety

\* What changes at Graph is the work of a call whose tool the server's access
\* level admits and whose annotations do not call it read-only, and never of a
\* preview, which is what a call without dry_run is; and what is removed, that
\* of a tool annotated as destructive (access-level.ts, tools/*/index.ts).
ChangesAreMeant ==
    \A c \in Calls : carried[c] # <<>> =>
        /\ Rank[Level(c)] \in 2 .. Rank[scene.access[Host(c)]]
        /\ ToolFor(c).dryRun => asked(c).dry_run = "false"
        /\ \A i \in DOMAIN carried[c] : carried[c][i].does \in Removing => Level(c) = "destructive"

\* The name goes through two encoders on its way to Graph.
TwiceEncoded(c) ==
    /\ IF Handler(c).flow = "moveEmails" THEN Range(asked(c).ids) \cap Odd # {} ELSE asked(c).name \in Odd
    /\ Handler(c).encoded \/ Handler(c).flow \in {"upload", "moveEmails"}

\* So does the id of the rule that a reorder has found by its name.
RuleTwiceEncoded(c) == Handler(c).flow = "reorderRule" /\ walk[c].goal \in Odd

Changes(c) == Handler(c).does # "nothing" /\ Handler(c).flow \notin {"list", "attachment", "listFolders", "listRules"}

\* What a client is told is what happened: success, that the change asked for
\* was carried out once (for a batch, each message counted as moved); a preview,
\* a refusal and a failure that nothing from outside explains, that nothing was.
ReportsTruth ==
    \A c \in Calls : at[c] = "done" =>
        /\ report[c] = "ok" /\ Changes(c) /\ Handler(c).flow # "moveEmails" => Len(carried[c]) = 1
        /\ report[c] = "ok" /\ Handler(c).flow = "moveEmails" => moved[c] \in 1 .. Len(carried[c])
        /\ report[c] = "preview" => carried[c] = <<>>
        /\ report[c] \in {"refusal", "error"} /\ ~fault[c] => carried[c] = <<>>

\* A call fails because of its arguments, because of what it found, or because
\* of a failure it met or a change someone made meanwhile.
OneFolder(c) ==
    /\ asked(c).folder # <<>> =>
         Cardinality(PathIds(tree, asked(c).folder)) = IF Handler(c).flow = "createFolder" THEN 0 ELSE 1
    /\ asked(c).parent # <<>> => Cardinality(PathIds(tree, asked(c).parent)) = 1
    /\ Handler(c).flow \in {"renameFolder", "deleteFolder", "moveEmails"} => asked(c).folder # <<>>

HasCause(c) ==
    \/ fault[c]
    \/ TurnedDown(c)
    \/ shifts[c] # 0
    \/ ~OneFolder(c)
    \/ Handler(c).flow = "reorderRule" /\ \A i \in DOMAIN rules : rules[i].name # asked(c).name

Failed(c) == report[c] \in {"error", "refusal"}

\* The read of a preview that carries its query string in the path.
QueryInPath(c) == Handler(c).select /\ Previews(c)

\* A call never fails by the way its requests were put together: the path names
\* what the caller named, a folder whose path is the only one is found, and the
\* chunks of an upload follow on.  Two kinds of call do fail so, those whose name
\* or id is encoded twice and those whose query is in the path, and are left out;
\* EveryFailureHasACause is the property with them.
FailsForCause ==
    \A c \in Calls : Failed(c) => HasCause(c) \/ TwiceEncoded(c) \/ RuleTwiceEncoded(c) \/ QueryInPath(c)

EveryFailureHasACause == \A c \in Calls : Failed(c) => HasCause(c)

\* A change is made to the thing that was named: a folder that had the given
\* path at some moment of the call, if at most one folder was moved, renamed or
\* deleted by others meanwhile, however the walk of the tree falls around it.
ActsOnWhatWasNamed ==
    \A c \in Calls : shifts[c] <= 1 => \A i \in DOMAIN carried[c] :
        LET change == carried[c][i]
        IN  IF Walks(c) THEN change.does # "reorderRule" => change.on \in named[c]
            ELSE change.on = asked(c).name \/ TwiceEncoded(c)

\* A rule created without a sequence comes after every rule there is when Graph
\* takes it, but for at most one for each change that others made to folders and
\* rules since the call began (rules/create.ts, createInboxRule): a create or a
\* reorder that falls between the listing and the create may tie with it or pass
\* it, and nothing else may.  The rules could be listed.
RuleGoesLast ==
    \A c \in Calls : \A i \in DOMAIN carried[c] :
        carried[c][i].does = "createRule" /\ asked(c).sequence = 0 /\ ~fault[c] =>
            Cardinality(carried[c][i].behind) <= shifts[c]

\* The events of a call, each with the place it is at.
Events(c) ==
    {p \in {[place |-> <<i>>, event |-> appended[i]] : i \in DOMAIN appended}
           \cup (UNION {{[place |-> <<s, i>>, event |-> queue[s][i]] : i \in DOMAIN queue[s]} : s \in Servers})
           \cup {[place |-> <<>>, event |-> e] : e \in missed} : p.event.call = c}

\* Every audited call that was answered has one event, which says whether the
\* answer was an error, either appended, or still queued, or lost with its
\* server or to the disk; an unanswered one has none.
EventsOnce ==
    \A c \in Calls :
        IF at[c] = "done" /\ Audited(Level(c))
        THEN /\ Cardinality(Events(c)) = 1
             /\ \A p \in Events(c) : p.event.ok = (report[c] # "error")
        ELSE Events(c) = {}

-----------------------------------------------------------------------------
\* Liveness

\* A call that has begun is answered, whatever owners and failures do, unless
\* its server ends or a response breaks off, for which there is no timeout; and
\* what is queued for the log gets there or is given up.
CallSettles ==
    /\ \A c \in Calls : InCall(c) ~> at[c] \in {"done", "gone", "stuck"}
    /\ \A s \in Servers : queue[s] # <<>> ~> queue[s] = <<>>
=============================================================================
