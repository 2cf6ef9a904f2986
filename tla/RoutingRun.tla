----------------------------- MODULE RoutingRun -----------------------------
(***************************************************************************)
(* The triage and aged passes in live mode (src/main/triage/run.ts,        *)
(* graph-ops.ts), driven by a caller that loops while `remaining` is true  *)
(* and `acted` is above zero.  A pass lists its folders, classifies what   *)
(* it read, applies each rule's actions through Graph, one call at a time, *)
(* and records in the tracking cache the messages all of whose actions     *)
(* succeeded.                                                              *)
(*                                                                         *)
(* The rule block is data here: the actions its first matching rule holds  *)
(* for a message read from a folder, none where the message is unmatched,  *)
(* held or only suggested.                                                 *)
(***************************************************************************)
EXTENDS TrackingCache, Sequences, FiniteSetsExt

CONSTANTS
    Runs,        \* callers of a pass
    TopLevel,    \* the folders whose path is their name: a quoted target
    MaxActions   \* messages a call acts on at most

Actions == [do : {"save", "move", "delete", "mark"}, to : STRING]

Scanned == day.scanned
Rules   == day.rules

ASSUME ActionsAssumption == MaxActions \in Nat \ {0}
ASSUME RunsAssumption    == Runs \cap {"nobody", "owner"} = {}
ASSUME OutcomeAssumption == {"(deleted)", "save-attachments", "(no move)"} \subseteq OtherLabels
ASSUME RulesAssumption   ==
    \A d \in Days :
        /\ DOMAIN d.scanned \subseteq Runs
        /\ \A r \in DOMAIN d.scanned : d.scanned[r] \in Seq(Folders)
        /\ \A m \in Messages, f \in Folders : d.rules[m][f] \in Seq(Actions)

VARIABLES
    step,      \* where each pass stands
    left,      \* folders it has still to list
    batch,     \* candidates, the one being processed first
    todo,      \* actions left of that one
    more,      \* remaining, and something to act on
    current,   \* the passes whose message id Graph still knows
    routed,    \* the entries of the pass
    read,      \* the tracking file as the pass read it
    saved      \* messages whose attachments were saved

runVars == <<step, left, batch, todo, more, current, routed, read, saved>>

RunSteps == {"idle", "collect", "resolve", "apply", "write"}

RunTypeOK ==
    /\ step \in [Runs -> RunSteps]
    /\ left \in [Runs -> Seq(Folders)]
    /\ batch \in [Runs -> Seq([m : Messages, acts : Seq(Actions)])]
    /\ todo \in [Runs -> Seq(Actions)]
    /\ more \in [Runs -> BOOLEAN]
    /\ current \in SUBSET Runs
    /\ routed \in [Runs -> Entries]
    /\ read \in [Runs -> TrackingFile]
    /\ saved \in SUBSET Messages

RunInit ==
    /\ step = [r \in Runs |-> "idle"]
    /\ left = [r \in Runs |-> <<>>]
    /\ batch = [r \in Runs |-> <<>>]
    /\ todo = [r \in Runs |-> <<>>]
    /\ more = [r \in Runs |-> FALSE]
    /\ current = {}
    /\ routed = [r \in Runs |-> Untracked]
    /\ read = [r \in Runs |-> EmptyFile]
    /\ saved = {}

-----------------------------------------------------------------------------
\* Control

Goto(r, s) == step' = [step EXCEPT ![r] = s]

\* describeDestination and leafOf: what the entry of a routed message names.  A
\* text that mentions saved attachments ends in the name of the folder moved to
\* only where the path of the folder has a slash.
Destination(acts) ==
    LET doing(kind) == {i \in DOMAIN acts : acts[i].do = kind}
        target      == acts[Min(doing("move"))].to
    IN  IF doing("move") # {}
        THEN IF doing("save") # {} /\ target \in TopLevel THEN "save-attachments" ELSE target
        ELSE IF doing("delete") # {} THEN "(deleted)"
        ELSE IF doing("save") # {} THEN "save-attachments" ELSE "(no move)"

\* The call returns and the arrays it built are garbage; its caller calls again
\* or is done.
Return(r, again) ==
    /\ Goto(r, IF again THEN "collect" ELSE "idle")
    /\ left' = [left EXCEPT ![r] = IF again THEN Scanned[r] ELSE <<>>]
    /\ batch' = [batch EXCEPT ![r] = <<>>]
    /\ todo' = [todo EXCEPT ![r] = <<>>]
    /\ more' = [more EXCEPT ![r] = FALSE]
    /\ current' = current \ {r}
    /\ routed' = [routed EXCEPT ![r] = Untracked]
    /\ read' = [read EXCEPT ![r] = EmptyFile]
    /\ UNCHANGED saved

Call(r) ==
    /\ step[r] = "idle"
    /\ r \in DOMAIN Scanned
    /\ Goto(r, "collect")
    /\ left' = [left EXCEPT ![r] = Scanned[r]]
    /\ UNCHANGED <<batch, todo, more, current, routed, read, saved, mailbox, cache, faults>>

-----------------------------------------------------------------------------
\* Reading the folders and classifying

\* Messages are listed in received order, up to the number a call may act on.
Oldest(S)  == {m \in S : Cardinality({k \in S : k < m}) < MaxActions}
InOrder(S) == {s \in [1 .. Cardinality(S) -> S] : \A i, j \in DOMAIN s : i < j => s[i] < s[j]}

\* listFolderMessages reads one message more than a call may act on.
ListFolder(r) ==
    /\ step[r] = "collect"
    /\ left[r] # <<>>
    /\ LET folder == Head(left[r])
           inside == {m \in Messages : where[m] = folder}
           ruled  == {m \in Oldest(inside) : Rules[m][folder] # <<>>}
       IN  /\ \E listed \in InOrder(ruled) :
                batch' = [batch EXCEPT ![r] = @ \o
                    [i \in DOMAIN listed |-> [m |-> listed[i], acts |-> Rules[listed[i]][folder]]]]
           /\ more' = [more EXCEPT ![r] = @ \/ Cardinality(inside) > MaxActions]
    /\ left' = [left EXCEPT ![r] = Tail(@)]
    /\ UNCHANGED <<step, todo, current, routed, read, saved, mailbox, cache, faults>>

\* The batch is the first candidates.  `more` is remaining /\ acted > 0, and
\* acted is the size of the batch, whatever becomes of it.
CutBatch(r) ==
    /\ step[r] = "collect"
    /\ left[r] = <<>>
    /\ LET candidates == batch[r]
           excess     == Len(candidates) > MaxActions
       IN  /\ batch' = [batch EXCEPT ![r] = IF excess THEN SubSeq(@, 1, MaxActions) ELSE @]
           /\ more' = [more EXCEPT ![r] = (@ \/ excess) /\ candidates # <<>>]
    /\ Goto(r, "resolve")
    /\ UNCHANGED <<left, todo, current, routed, read, saved, mailbox, cache, faults>>

-----------------------------------------------------------------------------
\* applyActions: one message of the batch

Message(r) == Head(batch[r]).m

\* The message of pass r is dealt with; outcome is its entry, or None.
NextMessage(r, outcome) ==
    /\ routed' = [routed EXCEPT ![r][Message(r)] = IF outcome # None THEN outcome ELSE @]
    /\ batch' = [batch EXCEPT ![r] = Tail(@)]
    /\ todo' = [todo EXCEPT ![r] = <<>>]
    /\ Goto(r, "resolve")

Resolve(r) ==
    /\ step[r] = "resolve"
    /\ batch[r] # <<>>
    /\ Found(Message(r))
    /\ todo' = [todo EXCEPT ![r] = Head(batch[r]).acts]
    /\ current' = current \cup {r}
    /\ Goto(r, "apply")
    /\ UNCHANGED <<left, batch, more, routed, read, saved, mailbox, cache, faults>>

\* Mutant: a message that is not found is looked up again.
ResolveRetries(r) ==
    /\ step[r] = "resolve"
    /\ batch[r] # <<>>
    /\ ~Found(Message(r))
    /\ UNCHANGED <<runVars, mailbox, cache, faults>>

\* The message has gone, or the lookup failed, which reads the same.
ResolveFails(r) ==
    /\ step[r] = "resolve"
    /\ batch[r] # <<>>
    /\ \/ ~Found(Message(r)) /\ UNCHANGED faults
       \/ Fault("lookup")
    /\ NextMessage(r, None)
    /\ UNCHANGED <<left, more, current, read, saved, mailbox, cache>>

\* The passes whose message id is that of m.
Holding(m) == {q \in current : Message(q) = m}

\* Graph reissues the id of a message it moves: every pass that had resolved it
\* holds a stale one, but the pass that moved it takes the new one.
Ids(r, action) ==
    CASE action.do = "move"   -> current \ (Holding(Message(r)) \ {r})
      [] action.do = "delete" -> current \ Holding(Message(r))
      [] OTHER                -> current

Effect(r, action) == LET m == Message(r) IN
    \/ action.do = "move"   /\ Put(m, action.to, r) /\ UNCHANGED saved
    \/ action.do = "delete" /\ Put(m, Bin, r) /\ UNCHANGED saved
    \/ action.do = "save"   /\ saved' = saved \cup {m} /\ UNCHANGED mailbox
    \/ action.do = "mark"   /\ UNCHANGED <<mailbox, saved>>

Possible(r, action) ==
    /\ r \in current
    /\ action.do = "move" => action.to \in Folders

\* The answer to a move carries the new id; where it does not, the pass goes on
\* with the old one.
Apply(r) == LET action == Head(todo[r]) IN
    /\ step[r] = "apply"
    /\ Possible(r, action)
    /\ Effect(r, action)
    /\ \/ current' = Ids(r, action) \ (IF Len(todo[r]) = 1 THEN {r} ELSE {}) /\ UNCHANGED faults
       \/ action.do = "move" /\ current' = Ids(r, action) \ {r} /\ Fault("bare")
    /\ IF Len(todo[r]) = 1
       THEN NextMessage(r, Destination(Head(batch[r]).acts))
       ELSE todo' = [todo EXCEPT ![r] = Tail(@)] /\ UNCHANGED <<step, batch, routed>>
    /\ UNCHANGED <<left, more, read, cache>>

\* Mutants: a failed message is recorded like the others; the actions after the
\* one that failed are carried out.
ApplyFailsRecorded(r) ==
    /\ step[r] = "apply"
    /\ \/ r \notin current /\ UNCHANGED faults
       \/ Fault("refused")
    /\ current' = current \ {r}
    /\ UNCHANGED <<mailbox, saved>>
    /\ NextMessage(r, Destination(Head(batch[r]).acts))
    /\ UNCHANGED <<left, more, read, cache>>

ApplyFailsGoesOn(r) ==
    /\ step[r] = "apply"
    /\ Fault("refused")
    /\ UNCHANGED <<mailbox, saved, left, more, read, cache>>
    /\ IF Len(todo[r]) = 1
       THEN NextMessage(r, None) /\ current' = current \ {r}
       ELSE /\ todo' = [todo EXCEPT ![r] = Tail(@)]
            /\ UNCHANGED <<step, batch, routed, current>>

\* The chain stops: no such destination, a stale id, a call that Graph refused
\* or whose answer was lost.
ApplyFails(r) == LET action == Head(todo[r]) IN
    /\ step[r] = "apply"
    /\ \/ /\ \/ ~Possible(r, action) /\ UNCHANGED faults
             \/ Fault("refused")
          /\ current' = current \ {r}
          /\ UNCHANGED <<mailbox, saved>>
       \/ /\ Possible(r, action)
          /\ Fault("lost")
          /\ Effect(r, action)
          /\ current' = Ids(r, action) \ {r}
    /\ NextMessage(r, None)
    /\ UNCHANGED <<left, more, read, cache>>

-----------------------------------------------------------------------------
\* Recording the pass

NothingRouted(r) ==
    /\ step[r] = "resolve"
    /\ batch[r] = <<>>
    /\ routed[r] = Untracked
    /\ Return(r, more[r])
    /\ UNCHANGED <<mailbox, cache, faults>>

\* Mutant: a cache that does not parse is an empty one too.
ReadTrackingAsEmpty(r) ==
    /\ step[r] = "resolve"
    /\ batch[r] = <<>>
    /\ routed[r] # Untracked
    /\ read' = [read EXCEPT ![r] = IF corrupt THEN EmptyFile ELSE file]
    /\ Goto(r, "write")
    /\ UNCHANGED <<left, batch, todo, more, current, routed, saved, faults, mailbox, cache>>

\* A missing cache is an empty one, and so is one that cannot be read; one that
\* does not parse ends the call.
ReadTracking(r) ==
    /\ step[r] = "resolve"
    /\ batch[r] = <<>>
    /\ routed[r] # Untracked
    /\ \/ /\ ~corrupt
          /\ read' = [read EXCEPT ![r] = file]
          /\ Goto(r, "write")
          /\ UNCHANGED <<left, batch, todo, more, current, routed, saved, faults>>
       \/ /\ Fault("unreadable")
          /\ read' = [read EXCEPT ![r] = EmptyFile]
          /\ Goto(r, "write")
          /\ UNCHANGED <<left, batch, todo, more, current, routed, saved>>
       \/ /\ corrupt
          /\ Return(r, FALSE)
          /\ UNCHANGED faults
    /\ UNCHANGED <<mailbox, cache>>

\* A temporary file renamed over the cache.
WriteTracking(r) ==
    /\ step[r] = "write"
    /\ file' = UpsertEntries(read[r], routed[r])
    /\ corrupt' = FALSE
    /\ old' = {m \in old : routed[r][m] = None}
    /\ Return(r, more[r])
    /\ UNCHANGED <<mailbox, faults>>

\* An error nobody catches before the handler (a listing, the write), or the
\* end of the server: the entries of the pass are lost.
CallFails(r) ==
    /\ step[r] # "idle"
    /\ Fault("call")
    /\ Return(r, FALSE)
    /\ UNCHANGED <<mailbox, cache>>

RunProgress(r) ==
    \/ ListFolder(r) \/ CutBatch(r)
    \/ Resolve(r) \/ ResolveFails(r) \/ Apply(r) \/ ApplyFails(r)
    \/ NothingRouted(r) \/ ReadTracking(r) \/ WriteTracking(r)

RunStep(r) == RunProgress(r) \/ CallFails(r)
=============================================================================
