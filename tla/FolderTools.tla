---------------------------- MODULE FolderTools ----------------------------
(***************************************************************************)
(* The tools that name a mail folder by its path, and the Inbox rules      *)
(* (src/main/folder, src/main/rules, src/main/email/folder-utils.ts).      *)
(* A path is resolved against a walk of the whole tree, one request per    *)
(* folder that has children; the tree may change under the walk, and       *)
(* between the walk and the change that uses its result.  The pages of one *)
(* listing are read in one step.                                           *)
(*                                                                         *)
(* A well-known folder, which needs no walk, is the empty path, and names  *)
(* are taken up to case, which Graph and the code ignore.                  *)
(***************************************************************************)
EXTENDS ToolCalls

CONSTANT FolderIds

VARIABLES
    tree,     \* the mail folders: name and parent, Root for the top level
    rules,    \* the Inbox rules as Graph lists them
    walk,     \* each call's walk: what it has still to list, what it has
              \*   listed, what it resolves, what it has found
    sequence, \* the sequence a createRule will use
    batch,    \* message ids a move has still to move
    moved,    \* how many it has moved
    named,    \* history: folders that had the path at some moment of the call
    shifts    \* history: changes by others since the call began

folderVars == <<tree, rules, walk, sequence, batch, moved, named, shifts>>

Root == 0
NoFolder == [name |-> "", parent |-> Root]
Present(t) == {f \in FolderIds : t[f] # NoFolder}
ChildrenIn(t, p) == {f \in Present(t) : t[f].parent = p}
There(p) == p = Root \/ p \in Present(tree)

\* A folder and what is below it: what every set has that holds the folder and
\* the children of its members.
Subtree(t, f) ==
    {g \in FolderIds : \A S \in SUBSET FolderIds :
        f \in S /\ (\A h \in Present(t) : t[h].parent \in S => h \in S) => g \in S}

\* Every folder is in a folder that is there, and in none of those below it.
Forest(t) ==
    \A f \in Present(t) : t[f].parent \in (Present(t) \cup {Root}) \ Subtree(t, f)

\* The folders a path names, and the top of the tree for the empty path.
PathIds(t, path) ==
    LET ids[i \in 0 .. Len(path)] ==
          IF i = 0 THEN {Root} ELSE {f \in Present(t) : t[f].parent \in ids[i - 1] /\ t[f].name = path[i]}
    IN  ids[Len(path)]

\* Graph has no folder without a name, and the handlers refuse an empty one.
Names == STRING \ {""}

ASSUME FolderAssumption ==
    /\ Root \notin FolderIds
    /\ \A s \in Scenes :
         /\ s.tree \in [FolderIds -> [name : STRING, parent : FolderIds \cup {Root}]] /\ Forest(s.tree)
         /\ IsFiniteSet(Present(s.tree))
         /\ s.moves \subseteq FolderIds \X Names \X (FolderIds \cup {Root})
         /\ \A c \in DOMAIN s.asked :
              /\ s.asked[c].newName \in Names
              /\ s.asked[c].folder \in Seq(Names) /\ s.asked[c].parent \in Seq(Names)
              /\ ToolOf(s.asked[c].tool).handler.flow = "createFolder" => s.asked[c].folder # <<>>
              /\ s.asked[c].ids \in Seq(STRING)
              /\ ToolOf(s.asked[c].tool).handler.flow = "moveEmails" /\ s.asked[c].complete => s.asked[c].ids # <<>>

FolderInit ==
    /\ walk = [c \in Calls |-> [todo |-> {}, listed |-> {}, goal |-> "", found |-> Root]]
    /\ sequence = [c \in Calls |-> 0]
    /\ batch = [c \in Calls |-> <<>>]
    /\ moved = [c \in Calls |-> 0]
    /\ named = [c \in Calls |-> {}]
    /\ shifts = [c \in Calls |-> 0]

Walks(c) == Handler(c).flow \notin {"item", "upload", "attachment"}
PathOf(c) == IF Handler(c).flow = "createFolder" THEN asked(c).parent ELSE asked(c).folder

\* The tree becomes t by a change that is not by the calls in `own`.
Shift(t, own) ==
    /\ tree' = t
    /\ named' = [c \in Calls |-> IF InCall(c) /\ Walks(c) THEN named[c] \cup PathIds(t, PathOf(c)) ELSE named[c]]
    /\ shifts' = [c \in Calls |-> IF at[c] # "new" /\ Walks(c) /\ c \notin own THEN shifts[c] + 1 ELSE shifts[c]]

-----------------------------------------------------------------------------
\* fetchFoldersRecursive and resolvePathSegments

\* Mutant: a first segment matches a folder at any depth.
AnyNamed(listed, name) == {r \in listed : r.name = name}

\* Among the folders listed, those at the top have a parent that is not.
TopNamed(listed, name) ==
    {r \in listed : r.name = name /\ r.parent \notin {x.id : x \in listed}}

resolvePathSegments(listed, path) ==
    LET candidates[i \in 0 .. Len(path)] ==
          IF i = 0 THEN {}
          ELSE IF i = 1 THEN TopNamed(listed, path[1])
          ELSE {r \in listed : r.name = path[i] /\ r.parent \in {x.id : x \in candidates[i - 1]}}
    IN  IF Cardinality(candidates[Len(path)]) = 1 THEN {r.id : r \in candidates[Len(path)]} ELSE {}

\* A listing still to do is that of a folder, by the way that led to it; a
\* folder that moves meanwhile may be listed twice.
StartWalk(c, goal) ==
    walk' = [walk EXCEPT ![c] = [todo |-> {<<>>}, listed |-> {}, goal |-> goal, found |-> Root]]

Found(c, id, next) ==
    /\ walk' = [walk EXCEPT ![c] = [todo |-> {}, listed |-> {}, goal |-> "", found |-> id]]
    /\ Continue(c, next)

\* What each handler does with the listed folders.
Resolved(c, listed) ==
    LET ids(path) == resolvePathSegments(listed, path)
        hit(path) == CHOOSE id \in ids(path) : TRUE
        absent(r) == Settle(c, r) /\ UNCHANGED walk
        flow == Handler(c).flow
    IN  CASE flow = "listFolders" -> absent("ok")
          [] flow = "createFolder" /\ walk[c].goal = "exists" ->
                 IF ids(asked(c).folder) # {} THEN absent("refusal")
                 ELSE IF asked(c).parent = <<>> THEN Found(c, Root, "post")
                 ELSE StartWalk(c, "parent") /\ Continue(c, "walk")
          [] flow = "createRule" \/ (flow = "createFolder" /\ walk[c].goal # "exists") ->
                 IF ids(PathOf(c)) = {} THEN absent("refusal") ELSE Found(c, hit(PathOf(c)), "post")
          [] flow \in {"renameFolder", "deleteFolder", "moveEmails", "list"} ->
                 IF ids(asked(c).folder) = {} THEN absent("error")
                 ELSE IF Previews(c) THEN absent("preview")
                 ELSE Found(c, hit(asked(c).folder),
                            CASE flow = "moveEmails" -> "reach" [] flow = "list" -> "page" [] OTHER -> "post")

Authenticated(c) ==
    /\ at[c] = "auth" /\ ~TurnedDown(c)
    /\ Continue(c, Entry(c))
    /\ StartWalk(c, IF Handler(c).flow = "createFolder" THEN "exists" ELSE "target")
    /\ named' = IF Walks(c) THEN [named EXCEPT ![c] = PathIds(tree, PathOf(c))] ELSE named
    /\ batch' = IF Handler(c).flow = "moveEmails" THEN [batch EXCEPT ![c] = asked(c).ids] ELSE batch
    /\ sequence' = IF Handler(c).flow \in {"createRule", "reorderRule"}
                   THEN [sequence EXCEPT ![c] = asked(c).sequence] ELSE sequence
    /\ UNCHANGED <<scene, carried, fault, items, tree, rules, moved, shifts>>

\* One folder's children; the children that have children are listed in turn.
\* A document without a listing counts as an empty one.
EndOf(way) == IF way = <<>> THEN Root ELSE Last(way)

ListChildren(c, way) ==
    /\ at[c] = "walk"
    /\ way \in walk[c].todo
    /\ \E answer \in Replies(There(EndOf(way))) :
         LET kids   == IF answer = "ok" THEN ChildrenIn(tree, EndOf(way)) ELSE {}
             listed == walk[c].listed \cup
                         {[id |-> f, name |-> tree[f].name, parent |-> EndOf(way), way |-> way] : f \in kids}
             todo   == (walk[c].todo \ {way}) \cup {Append(way, f) : f \in {k \in kids : ChildrenIn(tree, k) # {}}}
         IN  /\ Blame(c, answer, TRUE)
             /\ IF Resolves(answer)
                THEN IF todo = {} THEN Resolved(c, listed)
                     ELSE /\ walk' = [walk EXCEPT ![c].todo = todo, ![c].listed = listed]
                          /\ Continue(c, "walk")
                ELSE /\ UNCHANGED walk
                     /\ IF NeverSettles(answer) THEN Continue(c, "stuck")
                        ELSE Settle(c, IF Handler(c).flow = "createRule" THEN "refusal" ELSE "error")
    /\ UNCHANGED <<scene, carried, items, tree, rules, sequence, batch, moved, named, shifts>>

-----------------------------------------------------------------------------
\* The change that follows

Taken(name, p) == \E f \in ChildrenIn(tree, p) : tree[f].name = name

\* A new folder gets an identifier that has not been used.
Used == Present(tree) \cup Present(scene.tree) \cup {m[1] : m \in scene.moves}
Fresh == CHOOSE f \in FolderIds : f \notin Used

\* Bound: a folder is created only while there are identifiers left.
IdsLeft == FolderIds \ Used # {}

Renames(c) == [tree EXCEPT ![walk[c].found] = [name |-> asked(c).newName, parent |-> @.parent]]
Creates(c) == [tree EXCEPT ![Fresh] = [name |-> asked(c).folder[1], parent |-> walk[c].found]]
Deletes(c) == [f \in FolderIds |-> IF f \in Subtree(tree, walk[c].found) THEN NoFolder ELSE tree[f]]

PostFolder(c) ==
    /\ at[c] = "post"
    /\ Handler(c).flow \in {"createFolder", "renameFolder", "deleteFolder"}
    /\ Handler(c).flow = "createFolder" => IdsLeft
    /\ LET flow  == Handler(c).flow
           found == walk[c].found
           ready == CASE flow = "createFolder" -> There(found) /\ ~Taken(asked(c).folder[1], found)
                      [] flow = "renameFolder" -> There(found) /\ ~Taken(asked(c).newName, tree[found].parent)
                      [] flow = "deleteFolder" -> There(found)
       IN  \E answer \in Replies(ready), done \in BOOLEAN :
             /\ done \in MayHaveDone(answer)
             /\ Blame(c, answer, TRUE)
             /\ IF done
                THEN /\ Shift(CASE flow = "createFolder" -> Creates(c)
                                [] flow = "renameFolder" -> Renames(c)
                                [] flow = "deleteFolder" -> Deletes(c), {c})
                     /\ Did(c, [does |-> flow, on |-> found])
                ELSE UNCHANGED <<tree, named, shifts, carried>>
             /\ IF ~Resolves(answer) THEN Rejected(c, answer)
                ELSE Settle(c, IF answer = "bare" /\ flow = "createFolder" THEN "refusal" ELSE "ok")
    /\ UNCHANGED <<scene, items, rules, walk, sequence, batch, moved>>

\* moveEmailsToFolder first reads the folder it has resolved.
Reach(c) ==
    /\ at[c] = "reach"
    /\ \E answer \in Replies(There(walk[c].found)) :
         /\ Blame(c, answer, TRUE)
         /\ IF Resolves(answer) THEN Continue(c, "move") ELSE Rejected(c, answer)
    /\ UNCHANGED <<scene, carried, items, folderVars>>

\* Then one message at a time; a failure is counted and the next is tried.
MoveNext(c) ==
    /\ at[c] = "move"
    /\ LET id      == Head(batch[c])
           reached == Reaches(OnTheWire(encodeURIComponent(Segment(id, FALSE))))
       IN  \E answer \in Replies(reached \in items /\ There(walk[c].found)), done \in BOOLEAN :
             /\ done \in MayHaveDone(answer)
             /\ Blame(c, answer, reached = id)
             /\ IF done THEN Did(c, [does |-> "move", on |-> walk[c].found]) ELSE UNCHANGED carried
             /\ moved' = IF Resolves(answer) THEN [moved EXCEPT ![c] = @ + 1] ELSE moved
             /\ batch' = [batch EXCEPT ![c] = Tail(@)]
             /\ IF NeverSettles(answer) THEN Continue(c, "stuck")
                ELSE IF Len(batch[c]) > 1 THEN Continue(c, "move")
                ELSE Settle(c, IF moved'[c] > 0 THEN "ok" ELSE "error")
    /\ UNCHANGED <<scene, items, tree, rules, walk, sequence, named, shifts>>

-----------------------------------------------------------------------------
\* Inbox rules

FirstSequence == 100
Highest(rs) == Max({0} \cup {rs[i].sequence : i \in DOMAIN rs})

\* Mutant: the new rule takes the number of the last one.
SameSequence(rs) == IF Highest(rs) > FirstSequence THEN Highest(rs) ELSE FirstSequence

\* A rule goes after those there are, and not below 100.
NextSequence(rs) == IF Highest(rs) + 1 > FirstSequence THEN Highest(rs) + 1 ELSE FirstSequence

\* getInboxRules.  A createRule that cannot list goes on with 100.
ListRules(c) ==
    /\ at[c] = "rules"
    /\ \E answer \in Replies(TRUE) :
         LET flow   == Handler(c).flow
             listed == IF answer = "ok" THEN rules ELSE <<>>
             match  == {i \in DOMAIN listed : listed[i].name = asked(c).name}
         IN  /\ Blame(c, answer, TRUE)
             /\ sequence' = IF flow = "createRule" THEN [sequence EXCEPT ![c] = NextSequence(listed)] ELSE sequence
             /\ CASE NeverSettles(answer) -> Continue(c, "stuck") /\ UNCHANGED walk
                  [] flow = "createRule" /\ ~NeverSettles(answer) ->
                         Continue(c, IF asked(c).folder # <<>> THEN "walk" ELSE "post") /\ UNCHANGED walk
                  [] flow = "listRules" /\ ~NeverSettles(answer) ->
                         Settle(c, IF Resolves(answer) THEN "ok" ELSE "error") /\ UNCHANGED walk
                  [] flow = "reorderRule" /\ ~NeverSettles(answer) ->
                         IF match = {} THEN Settle(c, "error") /\ UNCHANGED walk
                         ELSE /\ walk' = [walk EXCEPT ![c].goal = listed[Min(match)].id]
                              /\ Continue(c, "post")
    /\ UNCHANGED <<scene, carried, items, tree, rules, batch, moved, named, shifts>>

\* The rules that come with number n or after it.
FromNumber(rs, n) == {rs[i].id : i \in {j \in DOMAIN rs : rs[j].sequence >= n}}

RulesShift(c) == shifts' = [d \in Calls |-> IF d # c /\ at[d] # "new" /\ Walks(d) THEN shifts[d] + 1 ELSE shifts[d]]

PostRule(c) ==
    /\ at[c] = "post"
    /\ Handler(c).flow = "createRule"
    /\ \E answer \in Replies(There(walk[c].found)), done \in BOOLEAN :
         /\ done \in MayHaveDone(answer)
         /\ Blame(c, answer, TRUE)
         /\ IF done
            THEN /\ rules' = Append(rules, [id |-> asked(c).name, name |-> asked(c).name, sequence |-> sequence[c]])
                 /\ Did(c, [does |-> "createRule", on |-> walk[c].found, behind |-> FromNumber(rules, sequence[c])])
                 /\ RulesShift(c)
            ELSE UNCHANGED <<rules, carried, shifts>>
         /\ IF ~Resolves(answer) THEN Rejected(c, answer)
            ELSE Settle(c, IF answer = "bare" THEN "refusal" ELSE "ok")
    /\ UNCHANGED <<scene, items, tree, walk, sequence, batch, moved, named>>

\* The id of the rule found is encoded by the handler and by the client.
Reorder(c) ==
    /\ at[c] = "post"
    /\ Handler(c).flow = "reorderRule"
    /\ LET id      == walk[c].goal
           reached == Reaches(OnTheWire(encodeURIComponent(Segment(id, FALSE))))
           places  == {i \in DOMAIN rules : rules[i].id = reached}
       IN  \E answer \in Replies(places # {}), done \in BOOLEAN :
             /\ done \in MayHaveDone(answer)
             /\ Blame(c, answer, reached = id)
             /\ IF done
                THEN /\ rules' = [i \in DOMAIN rules |->
                                    IF i \in places THEN [rules[i] EXCEPT !.sequence = sequence[c]] ELSE rules[i]]
                     /\ Did(c, [does |-> "reorderRule", on |-> reached])
                     /\ RulesShift(c)
                ELSE UNCHANGED <<rules, carried, shifts>>
             /\ IF Resolves(answer) THEN Settle(c, "ok") ELSE Rejected(c, answer)
    /\ UNCHANGED <<scene, items, tree, walk, sequence, batch, moved, named>>

FolderStep(c) ==
    \/ Authenticated(c)
    \/ \E way \in walk[c].todo : ListChildren(c, way)
    \/ PostFolder(c) \/ Reach(c) \/ MoveNext(c)
    \/ ListRules(c) \/ PostRule(c) \/ Reorder(c)

-----------------------------------------------------------------------------
\* The owner at work in Outlook

Arranged(f, name, p) ==
    /\ There(p)
    /\ p \notin Subtree(tree, f)
    /\ ~Taken(name, p)

OwnerArranges(f, name, p) ==
    /\ Arranged(f, name, p)
    /\ Shift([tree EXCEPT ![f] = [name |-> name, parent |-> p]], {})
    /\ UNCHANGED <<callVars, logVars, rules, walk, sequence, batch, moved>>

OwnerDeletes(f) ==
    /\ f \in Present(tree)
    /\ Shift([g \in FolderIds |-> IF g \in Subtree(tree, f) THEN NoFolder ELSE tree[g]], {})
    /\ UNCHANGED <<callVars, logVars, rules, walk, sequence, batch, moved>>
=============================================================================
