---------------------------- MODULE ThreadFiling ----------------------------
(***************************************************************************)
(* Where a conversation is filed (src/main/triage/lookups.ts).  The answer *)
(* is read from the note: a folder the inbound block files mail into is    *)
(* filed, an archive stands for the folder the aged block feeds it from,   *)
(* and the newest other message of the conversation that is in one of      *)
(* these decides.                                                          *)
(***************************************************************************)
EXTENDS RuleLint

\* The first block with the label, or the only block there is (parser.ts).
FirstLabelled(blocks, label, b) ==
    /\ b \in DOMAIN blocks
    /\ blocks[b].label = label
    /\ \A c \in 1 .. (b - 1) : blocks[c].label # label

SelectBlock(blocks, label, b) ==
    \/ FirstLabelled(blocks, label, b)
    \/ b \in DOMAIN blocks /\ Len(blocks) = 1

MoveTargets(rule) == NamedBy(rule, {"move"}) \ {AtThread}

\* The fallback's folder says nothing about where a conversation belongs.
Unfiled(rules) == UNION {MoveTargets(rules[i]) : i \in {j \in DOMAIN rules : IsFallback(rules[j])}}

FiledBy(rules) == (UNION {MoveTargets(rules[i]) : i \in DOMAIN rules}) \ Unfiled(rules)

FiledFolders(blocks) == UNION {FiledBy(blocks[b].rules) : b \in {c \in DOMAIN blocks : SelectBlock(blocks, "inbound", c)}}

\* The filed folders that an aged rule names and moves to the archive.
Feeders(blocks, archive) ==
    {f \in FiledFolders(blocks) :
        \E b \in DOMAIN blocks : FirstLabelled(blocks, "aged", b) /\
            \E i \in DOMAIN blocks[b].rules :
                LET rule == blocks[b].rules[i]
                IN  /\ archive \in MoveTargets(rule)
                    /\ \E g \in rule.groups : \E t \in g : t.key = "folder" /\ ~t.negated /\ t.value = f}

\* What a message in the folder says of its conversation: of an archive with
\* several feeders, and of any other folder, nothing definite.
StandsFor(blocks, folder) == IF folder \in FiledFolders(blocks) THEN {folder} ELSE Feeders(blocks, folder)

\* Mutant: a conversation in an archive goes on there.
TellsArchive(blocks, sibling, f) ==
    ~sibling.own /\ StandsFor(blocks, sibling.folder) # {} /\ f = sibling.folder

\* A message of the conversation that is not the message itself tells f.
Tells(blocks, sibling, f) == ~sibling.own /\ StandsFor(blocks, sibling.folder) = {f}

TellsNothing(blocks, sibling) == \A f \in Folders : ~Tells(blocks, sibling, f)

\* resolveThread: f is what the newest message that tells anything tells.
ResolveThread(blocks, siblings, f) ==
    \/ f = NoThread /\ \A i \in DOMAIN siblings : TellsNothing(blocks, siblings[i])
    \/ \E i \in DOMAIN siblings :
          /\ Tells(blocks, siblings[i], f)
          /\ \A j \in 1 .. (i - 1) : TellsNothing(blocks, siblings[j])
=============================================================================
