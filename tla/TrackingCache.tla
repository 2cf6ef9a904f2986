--------------------------- MODULE TrackingCache ---------------------------
(***************************************************************************)
(* What the routing engine and the drift scan share: the mailbox, reached  *)
(* through Graph, and the tracking cache, the file in which the engine     *)
(* records where it put each message (src/main/triage/tracking.ts).        *)
(*                                                                         *)
(* A message is known by its identity (subject, sender and received time), *)
(* so a message of the model is an identity, and messages are numbered in  *)
(* the order they were received.  Graph is external: it moves a message or *)
(* refuses, and it reissues the id of a message that moves.                *)
(***************************************************************************)
EXTENDS Naturals, FiniteSets

CONSTANTS
    Messages,    \* identities, numbered in received order
    Folders,     \* the folders of the mailbox
    Inbox,
    Bin,         \* Deleted Items, where Graph puts a deleted message
    Gone,        \* where an identity is that the mailbox does not hold
    OtherLabels, \* what describeDestination says of a rule that moves nothing
    None,        \* no entry
    MaxFaults,   \* bound: failures of the environment
    Days         \* the days to live through; each says
                 \*   scanned     the folders each caller's pass reads, in order
                 \*   rules       the actions for a message read from a folder
                 \*   faults      the kinds of failure the environment may show
                 \*   ownerMoves  bound: messages the owner moves or deletes
                 \*   overlap     whether calls may overlap

\* A Graph call refused, or carried out with its answer lost, or answered without
\* the new id; a lookup that fails, or that finds the message in a folder the
\* map of folders lacks; a cache that cannot be read; a whole call that ends in
\* an error.
FaultKinds == {"refused", "lost", "bare", "lookup", "unmapped", "unreadable", "call"}

ASSUME MessagesAssumption == Messages \subseteq Nat /\ IsFiniteSet(Messages)
ASSUME FoldersAssumption  == Inbox \in Folders /\ Bin \in Folders
ASSUME LabelsAssumption   == None \notin Folders \cup OtherLabels /\ Gone \notin Folders
ASSUME FaultsAssumption   == MaxFaults \in Nat
ASSUME DaysAssumption     == \A d \in Days : d.faults \subseteq FaultKinds /\ d.ownerMoves \in Nat /\ d.overlap \in BOOLEAN

Labels == Folders \cup OtherLabels

VARIABLES
    day,       \* one of Days, chosen at the start
    where,     \* where each message is
    file,      \* the tracking cache
    corrupt,   \* the file is there and does not parse
    old,       \* messages whose recorded routing is past the retention
    faults,    \* failures so far
    mover,     \* history: who last moved each message
    been       \* history: the folders each message has been in

mailbox == <<where, mover, been>>
cache   == <<file, corrupt, old>>

Entries == [Messages -> Labels \cup {None}]
TrackingFile == [entries : Entries, seen : SUBSET Messages, sweep : BOOLEAN]

\* triage_folder of each tracked message; seen are the entries whose scanned_at
\* is not before the start of the sweep; sweep tells whether one was started.
Untracked == [m \in Messages |-> None]
EmptyFile == [entries |-> Untracked, seen |-> {}, sweep |-> FALSE]

Tracked(f) == {m \in Messages : f.entries[m] # None}

\* Mutants: the entry already there wins; the history is not carried over; no
\* cursor, so that every entry is always pending.
UpsertKeepsFirst(f, new) ==
    [f EXCEPT !.entries = [m \in Messages |-> IF @[m] = None THEN new[m] ELSE @[m]]]

UpsertOnlyNew(f, new) == [f EXCEPT !.entries = new, !.seen = {}]

SweepPendingNoCursor(f) == [file |-> f, pending |-> Tracked(f)]

\* An entry of a pass replaces the whole earlier entry, scanned_at included.
UpsertEntries(f, new) ==
    [f EXCEPT !.entries = [m \in Messages |-> IF new[m] # None THEN new[m] ELSE @[m]],
              !.seen    = {m \in @ : new[m] = None}]

PruneOlderThan(f) ==
    [f EXCEPT !.entries = [m \in Messages |-> IF m \in old THEN None ELSE @[m]],
              !.seen    = @ \ old]

\* The sweep in progress while it has pending entries, else a fresh one.
SweepPending(f) == LET pending == Tracked(f) \ f.seen IN
    IF f.sweep /\ pending # {}
    THEN [file |-> f, pending |-> pending]
    ELSE [file |-> [f EXCEPT !.seen = {}, !.sweep = TRUE], pending |-> Tracked(f)]

\* findMessage: by identity, wherever the message is now.
Found(m) == where[m] # Gone

\* A failure of the given kind.
Fault(kind) ==
    /\ kind \in day.faults
    /\ faults < MaxFaults
    /\ faults' = faults + 1

Put(m, folder, who) ==
    /\ where' = [where EXCEPT ![m] = folder]
    /\ mover' = [mover EXCEPT ![m] = who]
    /\ been' = [been EXCEPT ![m] = @ \cup ({folder} \cap Folders)]
=============================================================================
