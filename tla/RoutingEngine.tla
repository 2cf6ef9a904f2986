--------------------------- MODULE RoutingEngine ---------------------------
(***************************************************************************)
(* The routing engine at work: passes and drift scans over one mailbox and *)
(* one tracking cache, with an owner who reads mail, moves it and deletes  *)
(* it, and mail that arrives.  Calls overlap when the client or a second   *)
(* server makes them overlap.                                              *)
(***************************************************************************)
EXTENDS RoutingRun, DriftScan

Overlap == day.overlap

VARIABLE ownerMoves

vars == <<day, mailbox, cache, faults, ownerMoves, runVars, scanVars>>

TypeOK ==
    /\ where \in [Messages -> Folders \cup {Gone}]
    /\ mover \in [Messages -> Runs \cup {"nobody", "owner"}]
    /\ been \in [Messages -> SUBSET Folders]
    /\ file \in TrackingFile
    /\ corrupt \in BOOLEAN
    /\ old \in SUBSET Messages
    /\ faults \in 0 .. MaxFaults
    /\ ownerMoves \in 0 .. day.ownerMoves
    /\ RunTypeOK
    /\ ScanTypeOK

\* A first day, or a cache the owner has broken while editing it.
Init ==
    /\ day \in Days
    /\ where = [m \in Messages |-> Gone]
    /\ mover = [m \in Messages |-> "nobody"]
    /\ been = [m \in Messages |-> {}]
    /\ \/ corrupt = FALSE /\ file = EmptyFile
       \/ /\ corrupt = TRUE
          /\ \E f \in Folders : file = [EmptyFile EXCEPT !.entries = [m \in Messages |-> f]]
    /\ old = {}
    /\ faults = 0
    /\ ownerMoves = 0
    /\ RunInit
    /\ ScanInit

-----------------------------------------------------------------------------
\* The world

Arrive(m) ==
    /\ been[m] = {}
    /\ Put(m, Inbox, "nobody")
    /\ UNCHANGED <<cache, faults, ownerMoves, runVars, scanVars>>

\* The owner moves a message, or removes it for good.
OwnerMoves(m, to) ==
    /\ Found(m)
    /\ to # where[m]
    /\ ownerMoves < day.ownerMoves
    /\ ownerMoves' = ownerMoves + 1
    /\ Put(m, to, "owner")
    /\ current' = current \ Holding(m)
    /\ UNCHANGED <<cache, faults, step, left, batch, todo, more, routed, read, saved, scanVars>>

\* RETENTION_DAYS pass.
Age(m) ==
    /\ file.entries[m] # None
    /\ m \notin old
    /\ old' = old \cup {m}
    /\ UNCHANGED <<mailbox, file, corrupt, faults, ownerMoves, runVars, scanVars>>

Quiet == (\A r \in Runs : step[r] = "idle") /\ (\A s \in Scans : scan[s] = "idle")

Step ==
    \/ \E m \in Messages : Arrive(m) \/ Age(m)
    \/ \E m \in Messages, to \in Folders \cup {Gone} : OwnerMoves(m, to)
    \/ \E r \in Runs :
        /\ \/ RunStep(r)
           \/ (Overlap \/ Quiet) /\ Call(r)
        /\ UNCHANGED <<ownerMoves, scanVars>>
    \/ \E s \in Scans :
        /\ \/ ScanStep(s)
           \/ (Overlap \/ Quiet) /\ CallScan(s)
        /\ UNCHANGED <<ownerMoves, runVars>>

Next == Step /\ UNCHANGED day

Spec == Init /\ [][Next]_vars

\* A call under way goes on; nobody has to start one.
Fairness ==
    /\ \A r \in Runs : WF_vars(RunProgress(r) /\ UNCHANGED <<day, ownerMoves, scanVars>>)
    /\ \A s \in Scans : WF_vars(ScanProgress(s) /\ UNCHANGED <<day, ownerMoves, runVars>>)

FairSpec == Spec /\ Fairness

-----------------------------------------------------------------------------
\* Properties of every execution

\* An entry names a folder in which the message has really been, so the cache
\* never claims a routing that did not happen: only a message all of whose
\* actions succeeded is recorded, and the scan records what it looked up.
EntriesTrue ==
    ~corrupt => \A m \in Messages : file.entries[m] \in been[m] \cup OtherLabels \cup {None}

\* A message whose every rule saves its attachments first is never disposed of
\* by the engine before they are saved: a failure stops the chain of actions.
SavedBeforeDisposed ==
    \A m \in Messages :
        /\ \A f \in Folders : Rules[m][f] # <<>> => Head(Rules[m][f]).do = "save"
        /\ mover[m] \in Runs
        => m \in saved

\* A caller that loops while `remaining` is true and `acted` is above zero
\* stops: re-invoking a pass finds less work each time.
LoopEnds == \A r \in Runs : (step[r] # "idle") ~> (step[r] = "idle")

\* A caller that loops over the drift scan while `remaining` is above zero stops:
\* the sweep cursor makes every call examine entries the sweep has not seen.
SweepEnds == \A s \in Scans : (scan[s] # "idle") ~> (scan[s] = "idle")

-----------------------------------------------------------------------------
\* Properties of calls that do not overlap, and to which Graph gives an answer

Undisturbed == ~Overlap /\ day.faults \subseteq {"refused"}

\* And where every rule ends in its one move, to a folder whose name its entry
\* will say: a message that is left in its folder, or deleted, is recorded with
\* a text that no folder's name equals.
EndsInMove ==
    \A m \in Messages, f \in Folders : LET acts == Rules[m][f] IN acts # <<>> =>
        /\ acts[Len(acts)].do = "move"
        /\ \A i \in 1 .. Len(acts) - 1 : acts[i].do \notin {"move", "delete"}
        /\ acts[Len(acts)].to \notin TopLevel \/ \A i \in DOMAIN acts : acts[i].do # "save"

Attributable == Undisturbed /\ EndsInMove

\* Between calls, a message the engine was the last to move is in the cache
\* with the folder it is in, unless its routing is past the retention; so the
\* drift scan is never blind to what its own engine did.
RoutedIsRecorded ==
    Attributable /\ Quiet /\ ~corrupt =>
        \A m \in Messages : mover[m] \in Runs /\ m \notin old => file.entries[m] = where[m]

\* What the scan reports as a re-route, the owner moved after the engine did.
RerouteIsManual ==
    Attributable => \A s \in Scans, m \in Messages : m \in reported[s] => mover[m] = "owner"

\* An entry leaves the cache only when its message has left the mailbox, or its
\* routing is past the retention; a cache that does not parse is not replaced.
HistoryIsKept ==
    [][\A m \in Messages :
        file.entries[m] # None /\ file'.entries[m] = None => where[m] = Gone \/ m \in old]_vars

\* That, of days on which no lookup fails.
HistoryKept ==
    [][Undisturbed => \A m \in Messages :
        file.entries[m] # None /\ file'.entries[m] = None => where[m] = Gone \/ m \in old]_vars
=============================================================================
