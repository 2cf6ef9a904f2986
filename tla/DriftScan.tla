----------------------------- MODULE DriftScan -----------------------------
(***************************************************************************)
(* The drift scan (src/main/triage/drift.ts), driven by a caller that      *)
(* loops while `remaining` is above zero.  A call examines a batch of the  *)
(* tracked messages: it prunes the ones it does not find, reports the ones *)
(* that are not where their entry says, and writes the whole file back     *)
(* from what it read at its start.                                         *)
(***************************************************************************)
EXTENDS TrackingCache

CONSTANTS
    Scans,       \* callers of the drift scan
    MaxEntries   \* entries a call examines at most

ASSUME EntriesAssumption == MaxEntries \in Nat \ {0}

VARIABLES
    scan,      \* where each scan stands
    kept,      \* the file as it will be written
    toScan,    \* entries of the batch not examined yet
    again,     \* remaining > 0
    reported   \* the re-routes of the call

scanVars == <<scan, kept, toScan, again, reported>>

ScanTypeOK ==
    /\ scan \in [Scans -> {"idle", "read", "lookup", "write"}]
    /\ kept \in [Scans -> TrackingFile]
    /\ toScan \in [Scans -> SUBSET Messages]
    /\ again \in [Scans -> BOOLEAN]
    /\ reported \in [Scans -> SUBSET Messages]

ScanInit ==
    /\ scan = [s \in Scans |-> "idle"]
    /\ kept = [s \in Scans |-> EmptyFile]
    /\ toScan = [s \in Scans |-> {}]
    /\ again = [s \in Scans |-> FALSE]
    /\ reported = [s \in Scans |-> {}]

ScanReturns(s, more) ==
    /\ scan' = [scan EXCEPT ![s] = IF more THEN "read" ELSE "idle"]
    /\ kept' = [kept EXCEPT ![s] = EmptyFile]
    /\ toScan' = [toScan EXCEPT ![s] = {}]
    /\ again' = [again EXCEPT ![s] = FALSE]
    /\ reported' = [reported EXCEPT ![s] = {}]

CallScan(s) ==
    /\ scan[s] = "idle"
    /\ scan' = [scan EXCEPT ![s] = "read"]
    /\ UNCHANGED <<kept, toScan, again, reported, mailbox, cache, faults>>

\* The prune, the sweep and the batch, computed from f: what readTracking gave.
\* With nothing to examine the file is written only if the prune dropped some.
\* The order of the entries in the file is left out: the batch is any of them.
StartScan(s, f) ==
    LET fresh == PruneOlderThan(f)
        sweep == SweepPending(fresh)
    IN  \/ /\ sweep.pending = {}
           /\ Tracked(fresh) = Tracked(f)
           /\ ScanReturns(s, FALSE)
        \/ /\ sweep.pending = {}
           /\ Tracked(fresh) # Tracked(f)
           /\ kept' = [kept EXCEPT ![s] = sweep.file]
           /\ scan' = [scan EXCEPT ![s] = "write"]
           /\ UNCHANGED <<toScan, again, reported>>
        \/ /\ sweep.pending # {}
           /\ \E b \in SUBSET sweep.pending :
                /\ Cardinality(b) = IF Cardinality(sweep.pending) < MaxEntries
                                    THEN Cardinality(sweep.pending) ELSE MaxEntries
                /\ toScan' = [toScan EXCEPT ![s] = b]
                /\ again' = [again EXCEPT ![s] = b # sweep.pending]
           /\ kept' = [kept EXCEPT ![s] = sweep.file]
           /\ scan' = [scan EXCEPT ![s] = "lookup"]
           /\ UNCHANGED reported

ScanRead(s) ==
    /\ scan[s] = "read"
    /\ \/ ~corrupt /\ StartScan(s, file) /\ UNCHANGED faults
       \/ Fault("unreadable") /\ StartScan(s, EmptyFile)
       \/ corrupt /\ ScanReturns(s, FALSE) /\ UNCHANGED faults
    /\ UNCHANGED <<mailbox, cache>>

\* One entry examined.  A message that has gone and a lookup that failed are
\* both null, and both drop the entry.  Of one in a folder the map lacks, the
\* entry keeps what it says and nothing is reported.
Examine(s, m, found, mapped) ==
    LET f    == kept[s]
        leaf == IF mapped THEN where[m] ELSE f.entries[m]
    IN
    /\ toScan' = [toScan EXCEPT ![s] = @ \ {m}]
    /\ kept' = [kept EXCEPT ![s] =
                 IF found THEN [f EXCEPT !.entries[m] = leaf, !.seen = f.seen \cup {m}]
                 ELSE [f EXCEPT !.entries[m] = None]]
    /\ reported' = [reported EXCEPT ![s] =
                     IF found /\ leaf # f.entries[m] THEN @ \cup {m} ELSE @]
    /\ UNCHANGED <<scan, again>>

\* Mutant: no check that the message was found.
LookupUnchecked(s, m) ==
    /\ scan[s] = "lookup"
    /\ m \in toScan[s]
    /\ Examine(s, m, TRUE, TRUE)
    /\ UNCHANGED <<mailbox, cache, faults>>

Lookup(s, m) ==
    /\ scan[s] = "lookup"
    /\ m \in toScan[s]
    /\ Examine(s, m, Found(m), TRUE)
    /\ UNCHANGED <<mailbox, cache, faults>>

LookupFails(s, m) ==
    /\ scan[s] = "lookup"
    /\ m \in toScan[s]
    /\ Fault("lookup")
    /\ Examine(s, m, FALSE, TRUE)
    /\ UNCHANGED <<mailbox, cache>>

\* buildFolderMap ran before the folder was there, or stopped short of it.
LookupUnmapped(s, m) ==
    /\ scan[s] = "lookup"
    /\ m \in toScan[s]
    /\ Found(m)
    /\ Fault("unmapped")
    /\ Examine(s, m, TRUE, FALSE)
    /\ UNCHANGED <<mailbox, cache>>

\* The whole file, from the snapshot, and the caller's loop.
ScanWrite(s) ==
    /\ scan[s] \in {"lookup", "write"}
    /\ toScan[s] = {}
    /\ file' = kept[s]
    /\ corrupt' = FALSE
    /\ ScanReturns(s, again[s])
    /\ UNCHANGED <<mailbox, old, faults>>

ScanFails(s) ==
    /\ scan[s] # "idle"
    /\ Fault("call")
    /\ ScanReturns(s, FALSE)
    /\ UNCHANGED <<mailbox, cache>>

ScanProgress(s) ==
    \/ ScanRead(s) \/ ScanWrite(s)
    \/ \E m \in Messages : Lookup(s, m)

ScanStep(s) ==
    \/ ScanProgress(s) \/ ScanFails(s)
    \/ \E m \in Messages : LookupFails(s, m) \/ LookupUnmapped(s, m)
=============================================================================
