------------------------ MODULE RoutingEngineProofs -------------------------
(***************************************************************************)
(* Every safety property of the routing engine, for any mailbox, any rule  *)
(* block, any number of passes and scans, any bounds.  Three invariants,   *)
(* each built on the one before:                                           *)
(*                                                                         *)
(*   RoutingInv   whatever overlaps and whatever fails: every copy of the  *)
(*                entries that is in flight (what a pass routed, what it   *)
(*                read, what a scan is going to write, the cache) tells    *)
(*                the truth, and a pass has carried out every action of    *)
(*                its rule before the one that is next;                    *)
(*   HistoryInv   of undisturbed days: one call at a time, and the copy a  *)
(*                pass or a scan writes back is still that of the cache;   *)
(*   RerouteInv   of undisturbed days whose rules end in a move: the       *)
(*                copies name the folder in which the engine left each     *)
(*                message it was the last to move.                         *)
(***************************************************************************)
EXTENDS RoutingEngine, FiniteSetTheorems, CommonLemmas

\* The entries name folders in which their messages have been.
True(entries, visited) ==
    \A m \in Messages : entries[m] # None =>
        visited[m] # {} /\ entries[m] \in visited[m] \cup OtherLabels

\* What is left of an action that was carried out.
Carried(m, a, visited, done) ==
    /\ a.do = "move" => a.to \in visited[m]
    /\ a.do = "save" => m \in done

\* The actions are those of a rule for the message.
OfRule(m, acts) == acts # <<>> /\ \E f \in Folders : acts = Rules[m][f]

\* Only a pass that somebody calls is under way.
Started == \A r \in Runs : step[r] # "idle" => r \in DOMAIN Scanned

\* A candidate has arrived, and its actions are those of one of its rules.
Fits(candidate) == been[candidate.m] # {} /\ OfRule(candidate.m, candidate.acts)

\* Every candidate of every batch does.
Batched == \A r \in Runs : \A i \in DOMAIN batch[r] : Fits(batch[r][i])

\* The actions but the rest are done.
Done(m, acts, rest, visited, done) ==
    LET n == Len(acts) - Len(rest) IN
    /\ n \in Nat
    /\ \A i \in DOMAIN rest : rest[i] = acts[n + i]
    /\ \A i \in 1 .. n : Carried(m, acts[i], visited, done)

\* A pass that applies actions has a message and an action to apply, and has
\* done the earlier ones.
Progress ==
    \A r \in Runs : step[r] = "apply" =>
        /\ batch[r] # <<>> /\ todo[r] # <<>>
        /\ Done(Message(r), Head(batch[r]).acts, todo[r], been, saved)

\* A message is where it has been, and every copy of the entries is true.
Truth ==
    /\ \A m \in Messages : where[m] \in been[m] \cup {Gone}
    /\ ~corrupt => True(file.entries, been)
    /\ \A r \in Runs : True(routed[r], been) /\ True(read[r].entries, been)
    /\ \A s \in Scans : True(kept[s].entries, been)

\* The first invariant.
RoutingInv ==
    /\ day \in Days
    /\ TypeOK /\ Started /\ Batched /\ Progress /\ Truth
    /\ SavedBeforeDisposed

-----------------------------------------------------------------------------
\* Calls that do not overlap.
OneAtATime ==
    ~Overlap =>
        /\ \A r, q \in Runs : step[r] # "idle" /\ step[q] # "idle" => r = q
        /\ \A s, t \in Scans : scan[s] # "idle" /\ scan[t] # "idle" => s = t
        /\ \A r \in Runs, s \in Scans : step[r] = "idle" \/ scan[s] = "idle"

\* A pass that has not cut its batch has routed nothing.
Fresh == \A r \in Runs : step[r] \in {"idle", "collect"} => routed[r] = Untracked

\* The cache did not change since the pass read it.
ReadIsFile ==
    Undisturbed => \A r \in Runs : step[r] = "write" => ~corrupt /\ read[r] = file

\* A scan is going to drop only entries of lost messages and old routings.
DropsOnlyLost ==
    Undisturbed => \A s \in Scans : scan[s] \in {"lookup", "write"} =>
        /\ ~corrupt
        /\ \A m \in Messages : file.entries[m] # None /\ kept[s].entries[m] = None =>
              where[m] = Gone \/ m \in old

\* The second invariant.
HistoryInv == OneAtATime /\ Fresh /\ ReadIsFile /\ DropsOnlyLost

-----------------------------------------------------------------------------
\* The engine was the last to move the message.
OfTheEngine(m) == mover[m] \in Runs

\* Who moved a message moved one that had arrived; the engine, to a folder.
Attributed ==
    \A m \in Messages : mover[m] # "nobody" =>
        been[m] # {} /\ (OfTheEngine(m) => where[m] # Gone)

\* Days on which the scan can tell the engine's moves from the owner's.
Tidy == Attributable /\ ~corrupt

\* What the cache, and the entries of the passes under way, say of a message.
Recorded(m) ==
    /\ \A r \in Runs : routed[r][m] # None =>
          mover[m] # "nobody" /\ (OfTheEngine(m) => routed[r][m] = where[m])
    /\ file.entries[m] # None => mover[m] # "nobody"
    /\ OfTheEngine(m) /\ m \notin old /\ (\A r \in Runs : routed[r][m] = None) =>
          file.entries[m] = where[m]

\* What the file that a scan is going to write says of a message.
Examined(s, m) ==
    /\ scan[s] \in {"lookup", "write"} =>
         /\ kept[s].entries[m] # None => mover[m] # "nobody"
         /\ OfTheEngine(m) /\ (m \notin old \/ m \in toScan[s]) => kept[s].entries[m] = where[m]
    /\ m \in toScan[s] => scan[s] = "lookup" /\ kept[s].entries[m] # None

\* Of every message, and of every scan.
RoutedEntries  == Tidy => \A m \in Messages : Recorded(m)
ScannedEntries == Tidy => \A s \in Scans, m \in Messages : Examined(s, m)

\* Only a scan that looks messages up reports re-routes.
Reporting == \A s \in Scans : reported[s] # {} => scan[s] = "lookup"

\* The third invariant.
RerouteInv == Attributed /\ Reporting /\ RoutedEntries /\ ScannedEntries /\ RerouteIsManual

-----------------------------------------------------------------------------
\* Types

\* The types of what a day gives.
LEMMA DayTypes ==
    ASSUME day \in Days
    PROVE  /\ DOMAIN Scanned \subseteq Runs
           /\ \A r \in DOMAIN Scanned : Scanned[r] \in Seq(Folders)
           /\ \A m \in Messages, f \in Folders : Rules[m][f] \in Seq(Actions)
           /\ day.ownerMoves \in Nat
  BY RulesAssumption, DaysAssumption DEF Scanned, Rules

\* No entries are entries.
LEMMA EmptyTypes == Untracked \in Entries /\ EmptyFile \in TrackingFile
<1>1. Untracked \in Entries
  BY DEF Untracked, Entries
<1> HIDE DEF Untracked
<1> QED BY <1>1 DEF EmptyFile, TrackingFile

\* The entries after the upsert of a pass: its own, else the earlier one.
LEMMA UpsertIs ==
    ASSUME NEW f \in TrackingFile, NEW new \in Entries
    PROVE  /\ UpsertEntries(f, new) \in TrackingFile
           /\ \A m \in Messages :
                 UpsertEntries(f, new).entries[m] = IF new[m] # None THEN new[m] ELSE f.entries[m]
  BY DEF UpsertEntries, TrackingFile, Entries

\* The entries after the prune: those within the retention.
LEMMA PruneIs ==
    ASSUME NEW f \in TrackingFile
    PROVE  /\ PruneOlderThan(f) \in TrackingFile
           /\ \A m \in Messages :
                 PruneOlderThan(f).entries[m] = IF m \in old THEN None ELSE f.entries[m]
  BY DEF PruneOlderThan, TrackingFile, Entries

\* The sweep changes no entry, and examines tracked messages.
LEMMA SweepIs ==
    ASSUME NEW f \in TrackingFile
    PROVE  /\ SweepPending(f).file \in TrackingFile
           /\ SweepPending(f).file.entries = f.entries
           /\ SweepPending(f).pending \subseteq Tracked(f)
<1>1. CASE f.sweep /\ Tracked(f) \ f.seen # {}
  BY <1>1 DEF SweepPending
<1>2. CASE ~(f.sweep /\ Tracked(f) \ f.seen # {})
  <2> DEFINE unseen == [f EXCEPT !.seen = {}, !.sweep = TRUE]
  <2>1. SweepPending(f) = [file |-> unseen, pending |-> Tracked(f)]
    BY <1>2, Zenon DEF SweepPending
  <2>2. unseen \in TrackingFile /\ unseen.entries = f.entries
    BY DEF TrackingFile
  <2> HIDE DEF unseen
  <2> QED BY <2>1, <2>2
<1> QED BY <1>1, <1>2

\* A scan has read f: it will write g and examine the entries of b first.
Scanning(s, f, g, b, unseen) ==
    /\ \A m \in Messages : g.entries[m] = IF m \in old THEN None ELSE f.entries[m]
    /\ \A m \in b : g.entries[m] # None
    /\ kept' = [kept EXCEPT ![s] = g]
    /\ \/ /\ scan' = [scan EXCEPT ![s] = "write"]
          /\ UNCHANGED <<toScan, again, reported>>
       \/ /\ scan' = [scan EXCEPT ![s] = "lookup"]
          /\ toScan' = [toScan EXCEPT ![s] = b]
          /\ again' = [again EXCEPT ![s] = unseen]
          /\ UNCHANGED reported

\* A call of the scan returns at once, or goes on with the pruned file.
LEMMA StartScanIs ==
    ASSUME NEW s \in Scans, NEW f \in TrackingFile, StartScan(s, f)
    PROVE  \/ ScanReturns(s, FALSE)
           \/ \E g \in TrackingFile, b \in SUBSET Messages, unseen \in BOOLEAN :
                Scanning(s, f, g, b, unseen)
<1> DEFINE fresh == PruneOlderThan(f)
           g == SweepPending(fresh).file
           pending == SweepPending(fresh).pending
<1>1. /\ fresh \in TrackingFile
      /\ \A m \in Messages : fresh.entries[m] = IF m \in old THEN None ELSE f.entries[m]
  BY PruneIs
<1>2. g \in TrackingFile /\ g.entries = fresh.entries /\ pending \subseteq Tracked(fresh)
  BY <1>1, SweepIs
<1>3. \/ ScanReturns(s, FALSE)
      \/ /\ kept' = [kept EXCEPT ![s] = g]
         /\ scan' = [scan EXCEPT ![s] = "write"]
         /\ UNCHANGED <<toScan, again, reported>>
      \/ /\ \E b \in SUBSET pending :
               /\ toScan' = [toScan EXCEPT ![s] = b]
               /\ again' = [again EXCEPT ![s] = b # pending]
         /\ kept' = [kept EXCEPT ![s] = g]
         /\ scan' = [scan EXCEPT ![s] = "lookup"]
         /\ UNCHANGED reported
  BY Zenon DEF StartScan
<1> HIDE DEF g, pending, fresh
<1>4. ASSUME NEW b \in SUBSET pending
      PROVE  b \in SUBSET Messages /\ \A m \in b : g.entries[m] # None
  BY <1>2 DEF Tracked
<1>5. {} \in SUBSET Messages /\ \A m \in {} : g.entries[m] # None
  OBVIOUS
<1>6. \A m \in Messages : g.entries[m] = IF m \in old THEN None ELSE f.entries[m]
  BY <1>1, <1>2
<1>7. ASSUME NEW b \in SUBSET pending,
             toScan' = [toScan EXCEPT ![s] = b], again' = [again EXCEPT ![s] = b # pending]
      PROVE  \E c \in SUBSET Messages, unseen \in BOOLEAN :
                /\ \A m \in c : g.entries[m] # None
                /\ toScan' = [toScan EXCEPT ![s] = c]
                /\ again' = [again EXCEPT ![s] = unseen]
  <2>1. (b # pending) \in BOOLEAN
    OBVIOUS
  <2> QED BY <1>4, <1>7, <2>1, Zenon
<1>8. CASE ScanReturns(s, FALSE)
  BY <1>8
<1>9. CASE /\ kept' = [kept EXCEPT ![s] = g]
           /\ scan' = [scan EXCEPT ![s] = "write"]
           /\ UNCHANGED <<toScan, again, reported>>
  BY <1>2, <1>5, <1>6, <1>9 DEF Scanning
<1>10. CASE /\ \E b \in SUBSET pending :
                 /\ toScan' = [toScan EXCEPT ![s] = b]
                 /\ again' = [again EXCEPT ![s] = b # pending]
            /\ kept' = [kept EXCEPT ![s] = g]
            /\ scan' = [scan EXCEPT ![s] = "lookup"]
            /\ UNCHANGED reported
  BY <1>2, <1>6, <1>7, <1>10 DEF Scanning
<1> QED BY <1>3, <1>8, <1>9, <1>10

\* The failures stay within their bound.
LEMMA FaultType ==
    ASSUME TypeOK, NEW kind, Fault(kind)
    PROVE  faults' \in 0 .. MaxFaults
  BY FaultsAssumption DEF TypeOK, Fault

\* The types, step by step of a scan.
LEMMA ScanReturnsTypes ==
    ASSUME TypeOK, NEW s \in Scans, NEW unseen \in BOOLEAN, ScanReturns(s, unseen)
    PROVE  ScanTypeOK'
  BY EmptyTypes DEF TypeOK, ScanTypeOK, ScanReturns

\* The entries chosen keep them.
LEMMA StartScanTypes ==
    ASSUME TypeOK, NEW s \in Scans, NEW f \in TrackingFile, StartScan(s, f)
    PROVE  ScanTypeOK'
<1>1. CASE ScanReturns(s, FALSE)
  BY <1>1, ScanReturnsTypes
<1>2. ASSUME NEW g \in TrackingFile, NEW b \in SUBSET Messages, NEW unseen \in BOOLEAN,
             Scanning(s, f, g, b, unseen)
      PROVE  ScanTypeOK'
  BY <1>2 DEF TypeOK, ScanTypeOK, Scanning
<1> QED BY <1>1, <1>2, StartScanIs

\* The file that a scan is going to write, after one more entry.
LEMMA ExamineIs ==
    ASSUME TypeOK, NEW s \in Scans, NEW m \in Messages, NEW found \in BOOLEAN,
           NEW mapped \in BOOLEAN, found => Found(m), Examine(s, m, found, mapped)
    PROVE  /\ \E g \in TrackingFile :
                /\ kept' = [kept EXCEPT ![s] = g]
                /\ g.entries[m] = IF ~found THEN None
                                  ELSE IF mapped THEN where[m] ELSE kept[s].entries[m]
                /\ \A k \in Messages \ {m} : g.entries[k] = kept[s].entries[k]
           /\ toScan' = [toScan EXCEPT ![s] = @ \ {m}]
           /\ \/ reported' = reported
              \/ /\ found /\ mapped /\ where[m] # kept[s].entries[m]
                 /\ reported' = [reported EXCEPT ![s] = @ \cup {m}]
           /\ UNCHANGED <<scan, again>>
<1> DEFINE f == kept[s]
           leaf == IF mapped THEN where[m] ELSE f.entries[m]
           hit == [f EXCEPT !.entries[m] = leaf, !.seen = f.seen \cup {m}]
           miss == [f EXCEPT !.entries[m] = None]
<1>1. f \in TrackingFile /\ reported \in [Scans -> SUBSET Messages]
  BY DEF TypeOK, ScanTypeOK
<1>2. found => leaf \in Labels \cup {None}
  BY <1>1 DEF Found, TypeOK, Labels, TrackingFile, Entries
<1>3. /\ miss \in TrackingFile /\ miss.entries[m] = None
      /\ \A k \in Messages \ {m} : miss.entries[k] = f.entries[k]
  BY <1>1 DEF TrackingFile, Entries
<1>4. found => /\ hit \in TrackingFile /\ hit.entries[m] = leaf
               /\ \A k \in Messages \ {m} : hit.entries[k] = f.entries[k]
  BY <1>1, <1>2 DEF TrackingFile, Entries
<1>5. /\ kept' = [kept EXCEPT ![s] = IF found THEN hit ELSE miss]
      /\ reported' = [reported EXCEPT ![s] =
                        IF found /\ leaf # f.entries[m] THEN @ \cup {m} ELSE @]
      /\ toScan' = [toScan EXCEPT ![s] = @ \ {m}]
      /\ UNCHANGED <<scan, again>>
  <2>1. kept' = [kept EXCEPT ![s] = IF found THEN hit ELSE miss]
    BY Zenon DEF Examine
  <2> QED BY <2>1 DEF Examine
<1> HIDE DEF hit, miss
<1>6. \/ reported' = reported
      \/ /\ found /\ mapped /\ where[m] # f.entries[m]
         /\ reported' = [reported EXCEPT ![s] = @ \cup {m}]
  BY <1>1, <1>5
<1>7. CASE found
  BY <1>4, <1>5, <1>6, <1>7
<1>8. CASE ~found
  BY <1>3, <1>5, <1>6, <1>8
<1> QED BY <1>7, <1>8

\* The same for a message in a folder that the map has, or for none.
LEMMA ExamineMapped ==
    ASSUME TypeOK, NEW s \in Scans, NEW m \in Messages, NEW found \in BOOLEAN,
           found => Found(m), Examine(s, m, found, TRUE)
    PROVE  /\ \E g \in TrackingFile :
                /\ kept' = [kept EXCEPT ![s] = g]
                /\ g.entries[m] = IF found THEN where[m] ELSE None
                /\ \A k \in Messages \ {m} : g.entries[k] = kept[s].entries[k]
           /\ toScan' = [toScan EXCEPT ![s] = @ \ {m}]
           /\ \/ reported' = reported
              \/ /\ found /\ where[m] # kept[s].entries[m]
                 /\ reported' = [reported EXCEPT ![s] = @ \cup {m}]
           /\ UNCHANGED <<scan, again>>
<1> DEFINE mapped == TRUE
<1>1. PICK g \in TrackingFile :
           /\ kept' = [kept EXCEPT ![s] = g]
           /\ g.entries[m] = IF ~found THEN None
                             ELSE IF mapped THEN where[m] ELSE kept[s].entries[m]
           /\ \A k \in Messages \ {m} : g.entries[k] = kept[s].entries[k]
  <2>1. mapped \in BOOLEAN /\ Examine(s, m, found, mapped)
    OBVIOUS
  <2> HIDE DEF mapped
  <2> QED BY <2>1, ExamineIs
<1>2. g.entries[m] = IF found THEN where[m] ELSE None
  BY <1>1
<1>3. /\ toScan' = [toScan EXCEPT ![s] = @ \ {m}]
      /\ \/ reported' = reported
         \/ /\ found /\ mapped /\ where[m] # kept[s].entries[m]
            /\ reported' = [reported EXCEPT ![s] = @ \cup {m}]
      /\ UNCHANGED <<scan, again>>
  <2>1. mapped \in BOOLEAN /\ Examine(s, m, found, mapped)
    OBVIOUS
  <2> HIDE DEF mapped
  <2> QED BY <2>1, ExamineIs
<1> QED BY <1>1, <1>2, <1>3

\* An entry examined keeps the types.
LEMMA ExamineTypes ==
    ASSUME TypeOK, NEW s \in Scans, NEW m \in Messages, NEW found \in BOOLEAN,
           NEW mapped \in BOOLEAN, found => Found(m), Examine(s, m, found, mapped)
    PROVE  ScanTypeOK'
<1>1. PICK g \in TrackingFile : kept' = [kept EXCEPT ![s] = g]
  BY ExamineIs
<1>2. /\ toScan' = [toScan EXCEPT ![s] = @ \ {m}]
      /\ reported' = reported \/ reported' = [reported EXCEPT ![s] = @ \cup {m}]
      /\ UNCHANGED <<scan, again>>
  BY ExamineIs
<1> QED BY <1>1, <1>2 DEF TypeOK, ScanTypeOK

\* A step of a scan keeps the types, and leaves the mailbox and the ages.
LEMMA ScanTypes ==
    ASSUME TypeOK, NEW s \in Scans, ScanStep(s) \/ CallScan(s)
    PROVE  /\ ScanTypeOK' /\ UNCHANGED <<where, mover, been, old>>
           /\ file' \in TrackingFile /\ corrupt' \in BOOLEAN
           /\ faults' \in 0 .. MaxFaults
<1> USE DEF mailbox, cache
<1>1. CASE CallScan(s)
  BY <1>1 DEF CallScan, TypeOK, ScanTypeOK
<1>2. CASE ScanRead(s)
  <2>1. file \in TrackingFile /\ EmptyFile \in TrackingFile
    BY EmptyTypes DEF TypeOK
  <2>2. ScanTypeOK'
    BY <1>2, <2>1, StartScanTypes, ScanReturnsTypes DEF ScanRead
  <2> QED BY <1>2, <2>2, FaultType DEF ScanRead, TypeOK
<1>3. ASSUME NEW m \in Messages, Lookup(s, m) \/ LookupFails(s, m) \/ LookupUnmapped(s, m)
      PROVE  ScanTypeOK' /\ UNCHANGED <<mailbox, cache>> /\ faults' \in 0 .. MaxFaults
  <2>1. Found(m) \in BOOLEAN /\ TRUE \in BOOLEAN /\ FALSE \in BOOLEAN
    BY DEF Found
  <2>2. ScanTypeOK'
    BY <1>3, <2>1, ExamineTypes DEF Lookup, LookupFails, LookupUnmapped
  <2> QED BY <1>3, <2>2, FaultType DEF Lookup, LookupFails, LookupUnmapped, TypeOK
<1>4. CASE ScanWrite(s)
  <2>1. again[s] \in BOOLEAN /\ kept[s] \in TrackingFile
    BY DEF TypeOK, ScanTypeOK
  <2> QED BY <1>4, <2>1, ScanReturnsTypes DEF ScanWrite, TypeOK
<1>5. CASE ScanFails(s)
  BY <1>5, FaultType, ScanReturnsTypes DEF ScanFails, TypeOK
<1>6. file \in TrackingFile /\ corrupt \in BOOLEAN
  BY DEF TypeOK
<1> QED BY <1>1, <1>2, <1>3, <1>4, <1>5, <1>6 DEF ScanStep, ScanProgress

\* What a batch holds.
Candidates == [m : Messages, acts : Seq(Actions)]

\* RunTypeOK, with the records of a batch behind a name.
LEMMA Batches == RunTypeOK <=>
    /\ step \in [Runs -> RunSteps]
    /\ left \in [Runs -> Seq(Folders)]
    /\ batch \in [Runs -> Seq(Candidates)]
    /\ todo \in [Runs -> Seq(Actions)]
    /\ more \in [Runs -> BOOLEAN]
    /\ current \in SUBSET Runs
    /\ routed \in [Runs -> Entries]
    /\ read \in [Runs -> TrackingFile]
    /\ saved \in SUBSET Messages
  BY Zenon DEF RunTypeOK, Candidates

\* The types, step by step of a pass: a call that returns.
LEMMA ReturnTypes ==
    ASSUME day \in Days, TypeOK, NEW r \in DOMAIN Scanned, NEW anew \in BOOLEAN,
           Return(r, anew)
    PROVE  RunTypeOK'
<1>1. r \in Runs /\ Scanned[r] \in Seq(Folders)
  BY DayTypes
<1>2. <<>> \in Seq(Candidates) /\ <<>> \in Seq(Actions) /\ <<>> \in Seq(Folders)
  OBVIOUS
<1>3. /\ step' \in [Runs -> RunSteps]
      /\ left' \in [Runs -> Seq(Folders)]
      /\ more' \in [Runs -> BOOLEAN]
      /\ current' \in SUBSET Runs
  BY <1>1, <1>2, Batches DEF TypeOK, Return, Goto, RunSteps
<1>4. batch' \in [Runs -> Seq(Candidates)] /\ todo' \in [Runs -> Seq(Actions)]
  BY <1>1, <1>2, Batches DEF TypeOK, Return
<1>5. routed' \in [Runs -> Entries] /\ read' \in [Runs -> TrackingFile] /\ saved' = saved
  BY <1>1, EmptyTypes, Batches DEF TypeOK, Return
<1> QED BY <1>3, <1>4, <1>5, Batches DEF TypeOK, RunTypeOK, Candidates

\* The message that a pass deals with.
LEMMA Candidate ==
    ASSUME TypeOK, NEW r \in Runs, batch[r] # <<>>
    PROVE  /\ Head(batch[r]) = batch[r][1] /\ 1 \in DOMAIN batch[r]
           /\ Message(r) \in Messages /\ Head(batch[r]).acts \in Seq(Actions)
           /\ Tail(batch[r]) \in Seq(Candidates)
<1>1. batch[r] \in Seq(Candidates)
  BY DEF TypeOK, RunTypeOK, Candidates
<1>2. Head(batch[r]) \in Candidates
  BY <1>1
<1> QED BY <1>1, <1>2 DEF Message, Candidates

\* A folder listed.
LEMMA ListFolderTypes ==
    ASSUME day \in Days, TypeOK, NEW r \in Runs, ListFolder(r)
    PROVE  RunTypeOK'
<1> DEFINE folder == Head(left[r])
           inside == {m \in Messages : where[m] = folder}
           ruled  == {m \in Oldest(inside) : Rules[m][folder] # <<>>}
           candidate(l, i) == [m |-> l[i], acts |-> Rules[l[i]][folder]]
           found(l) == [i \in DOMAIN l |-> candidate(l, i)]
<1>1. folder \in Folders /\ Tail(left[r]) \in Seq(Folders)
  BY DEF TypeOK, RunTypeOK, ListFolder
<1>2. ruled \subseteq Messages /\ Cardinality(ruled) \in Nat
  <2>1. ruled \subseteq Messages
    BY DEF Oldest
  <2> QED BY <2>1, MessagesAssumption, FS_Subset, FS_CardinalityType
<1>3. ASSUME NEW l \in InOrder(ruled)
      PROVE  found(l) \in Seq(Candidates)
  <2>1. l \in [1 .. Cardinality(ruled) -> ruled]
    BY DEF InOrder
  <2>2. ASSUME NEW i \in 1 .. Cardinality(ruled)
        PROVE  candidate(l, i) \in Candidates
    <3>1. l[i] \in Messages
      BY <1>2, <2>1
    <3>2. Rules[l[i]][folder] \in Seq(Actions)
      BY <1>1, <3>1, DayTypes
    <3> QED BY <3>1, <3>2 DEF Candidates
  <2>3. DOMAIN l = 1 .. Cardinality(ruled)
    BY <2>1
  <2> DEFINE n == Cardinality(ruled)
  <2>4. DOMAIN l = 1 .. n /\ \A i \in 1 .. n : candidate(l, i) \in Candidates
    BY <2>2, <2>3
  <2>5. n \in Nat
    BY <1>2
  <2> HIDE DEF candidate, n
  <2>6. found(l) \in [1 .. n -> Candidates]
    BY <2>4
  <2> QED BY <2>5, <2>6
<1>4. PICK l \in InOrder(ruled) : batch' = [batch EXCEPT ![r] = @ \o found(l)]
  BY DEF ListFolder
<1>5. batch' \in [Runs -> Seq(Candidates)]
  <2> HIDE DEF found, ruled, candidate
  <2>1. batch \in [Runs -> Seq(Candidates)]
    BY Batches DEF TypeOK
  <2>2. batch[r] \o found(l) \in Seq(Candidates)
    BY <1>3, <2>1
  <2> QED BY <1>4, <2>1, <2>2
<1>6. more' \in [Runs -> BOOLEAN] /\ left' \in [Runs -> Seq(Folders)]
  BY <1>1 DEF ListFolder, TypeOK, RunTypeOK
<1>7. UNCHANGED <<step, todo, current, routed, read, saved>>
  BY DEF ListFolder
<1> QED BY <1>5, <1>6, <1>7 DEF TypeOK, RunTypeOK, Candidates

\* The batch cut.
LEMMA CutBatchTypes ==
    ASSUME TypeOK, NEW r \in Runs, CutBatch(r)
    PROVE  RunTypeOK'
<1>1. batch[r] \in Seq(Candidates)
  BY DEF TypeOK, RunTypeOK, Candidates
<1>2. ASSUME Len(batch[r]) > MaxActions
      PROVE  SubSeq(batch[r], 1, MaxActions) \in Seq(Candidates)
  BY <1>1, <1>2, ActionsAssumption
<1>3. batch' \in [Runs -> Seq(Candidates)]
  BY <1>1, <1>2 DEF CutBatch, TypeOK, RunTypeOK, Candidates
<1> QED BY <1>3 DEF CutBatch, TypeOK, RunTypeOK, Candidates, Goto, RunSteps
-----------------------------------------------------------------------------
\* The actions of a rule

\* An entry says how a message left no folder, or names the target of a move.
LEMMA DestinationIs ==
    ASSUME NEW acts \in Seq(Actions)
    PROVE  \/ Destination(acts) \in OtherLabels
           \/ \E i \in DOMAIN acts : acts[i].do = "move" /\ Destination(acts) = acts[i].to
<1> DEFINE moves == {i \in DOMAIN acts : acts[i].do = "move"}
<1>1. ASSUME moves # {} PROVE Min(moves) \in moves
  <2>1. \E n \in moves : \A k \in moves : n <= k
    <3> moves \subseteq Nat
      OBVIOUS
    <3> QED BY <1>1, Least
  <2> QED BY <2>1, Zenon DEF Min
<1> HIDE DEF moves
<1>2. CASE moves = {}
  <2>1. Destination(acts) \in {"(deleted)", "save-attachments", "(no move)"}
    BY <1>2 DEF Destination, moves
  <2> QED BY <2>1, OutcomeAssumption
<1>3. CASE moves # {}
  <2>1. Destination(acts) \in {"save-attachments", acts[Min(moves)].to}
    BY <1>3 DEF Destination, moves
  <2>2. Min(moves) \in DOMAIN acts /\ acts[Min(moves)].do = "move"
    BY <1>1, <1>3 DEF moves
  <2> QED BY <2>1, <2>2, OutcomeAssumption
<1> QED BY <1>2, <1>3

\* What an action does to the mailbox and the attachments, whoever performs it.
LEMMA EffectIs ==
    ASSUME TypeOK, NEW r \in Runs, batch[r] # <<>>, NEW action \in Actions,
           Possible(r, action), Effect(r, action)
    PROVE  /\ where' \in [Messages -> Folders \cup {Gone}]
           /\ mover' \in [Messages -> Runs \cup {"nobody", "owner"}]
           /\ been' \in [Messages -> SUBSET Folders]
           /\ saved' \in SUBSET Messages /\ saved \subseteq saved'
           /\ Carried(Message(r), action, been', saved')
           /\ \A k \in Messages :
                /\ been[k] \subseteq been'[k]
                /\ \/ where'[k] = where[k] /\ mover'[k] = mover[k]
                   \/ /\ k = Message(r) /\ action.do \in {"move", "delete"}
                      /\ mover'[k] = r /\ where'[k] \in been'[k]
                      /\ action.do = "move" => where'[k] = action.to
<1> DEFINE m == Message(r)
<1>1. m \in Messages
  BY Candidate
<1> HIDE DEF m
<1>2. /\ where \in [Messages -> Folders \cup {Gone}]
      /\ mover \in [Messages -> Runs \cup {"nobody", "owner"}]
      /\ been \in [Messages -> SUBSET Folders]
      /\ saved \in SUBSET Messages
  BY DEF TypeOK, RunTypeOK
<1>3. ASSUME NEW to \in Folders, Put(m, to, r), UNCHANGED saved,
             action.do \in {"move", "delete"}, action.do = "move" => to = action.to
      PROVE  /\ where' \in [Messages -> Folders \cup {Gone}]
             /\ mover' \in [Messages -> Runs \cup {"nobody", "owner"}]
             /\ been' \in [Messages -> SUBSET Folders]
             /\ saved' \in SUBSET Messages /\ saved \subseteq saved'
             /\ Carried(m, action, been', saved')
             /\ \A k \in Messages :
                  /\ been[k] \subseteq been'[k]
                  /\ \/ where'[k] = where[k] /\ mover'[k] = mover[k]
                     \/ /\ k = m /\ action.do \in {"move", "delete"}
                        /\ mover'[k] = r /\ where'[k] \in been'[k]
                        /\ action.do = "move" => where'[k] = action.to
  BY <1>1, <1>2, <1>3 DEF Put, Carried
<1>4. CASE action.do \in {"move", "delete"}
  BY <1>3, <1>4, FoldersAssumption DEF Effect, Possible, m
<1>5. CASE action.do = "save" /\ saved' = saved \cup {m} /\ UNCHANGED mailbox
  BY <1>1, <1>2, <1>5 DEF mailbox, Carried, m
<1>6. CASE action.do = "mark" /\ UNCHANGED <<mailbox, saved>>
  BY <1>1, <1>2, <1>6 DEF mailbox, Carried, m
<1> QED BY <1>4, <1>5, <1>6 DEF Effect, m

\* What was done stays done as the histories grow.
LEMMA CarriedStays ==
    ASSUME NEW m, NEW a, NEW visited, NEW visited2, NEW done, NEW done2,
           Carried(m, a, visited, done), visited[m] \subseteq visited2[m], done \subseteq done2
    PROVE  Carried(m, a, visited2, done2)
  BY DEF Carried

\* An action performed: it was the next of its rule, and all up to it are done.
LEMMA ApplyIs ==
    ASSUME TypeOK, Progress, NEW r \in Runs, step[r] = "apply",
           Possible(r, Head(todo[r])), Effect(r, Head(todo[r]))
    PROVE  LET acts == Head(batch[r]).acts
               n    == Len(acts) - Len(todo[r])
           IN  /\ batch[r] # <<>> /\ todo[r] # <<>>
               /\ acts \in Seq(Actions) /\ todo[r] \in Seq(Actions)
               /\ n \in Nat /\ Head(todo[r]) = acts[n + 1]
               /\ Head(todo[r]) \in Actions
               /\ \A i \in 1 .. n + 1 : Carried(Message(r), acts[i], been', saved')
<1> DEFINE acts == Head(batch[r]).acts
           n    == Len(acts) - Len(todo[r])
<1>1. /\ batch[r] # <<>> /\ todo[r] # <<>> /\ n \in Nat
      /\ \A i \in DOMAIN todo[r] : todo[r][i] = acts[n + i]
      /\ \A i \in 1 .. n : Carried(Message(r), acts[i], been, saved)
  BY DEF Progress, Done
<1>2. /\ acts \in Seq(Actions) /\ todo[r] \in Seq(Actions) /\ Message(r) \in Messages
  BY <1>1, Candidate DEF TypeOK, RunTypeOK
<1> HIDE DEF acts, n
<1>3. 1 \in DOMAIN todo[r] /\ Head(todo[r]) = todo[r][1] /\ Head(todo[r]) \in Actions
  BY <1>1, <1>2
<1>4. Head(todo[r]) = acts[n + 1]
  BY <1>1, <1>3
<1>5. /\ saved \subseteq saved' /\ been[Message(r)] \subseteq been'[Message(r)]
      /\ Carried(Message(r), Head(todo[r]), been', saved')
  BY <1>1, <1>2, <1>3, EffectIs
<1>6. ASSUME NEW i \in 1 .. n + 1 PROVE Carried(Message(r), acts[i], been', saved')
  <2>1. CASE i = n + 1
    BY <1>4, <1>5, <2>1
  <2>2. CASE i \in 1 .. n
    BY <1>1, <1>5, <2>2, CarriedStays
  <2> QED BY <1>1, <2>1, <2>2
<1> QED BY <1>1, <1>2, <1>3, <1>4, <1>6 DEF acts, n

\* What the entry of a message says once all of its actions are done.
LEMMA OutcomeIs ==
    ASSUME TypeOK, Progress, NEW r \in Runs, step[r] = "apply", Len(todo[r]) = 1,
           Possible(r, Head(todo[r])), Effect(r, Head(todo[r]))
    PROVE  Destination(Head(batch[r]).acts) \in been'[Message(r)] \cup OtherLabels
<1> DEFINE acts == Head(batch[r]).acts
           n    == Len(acts) - Len(todo[r])
<1>1. /\ acts \in Seq(Actions)
      /\ \A i \in 1 .. n + 1 : Carried(Message(r), acts[i], been', saved')
  BY ApplyIs
<1> HIDE DEF acts
<1>3. n + 1 = Len(acts)
  BY <1>1
<1>2. ASSUME NEW i \in DOMAIN acts, acts[i].do = "move"
      PROVE  acts[i].to \in been'[Message(r)]
  BY <1>1, <1>2, <1>3 DEF Carried
<1> QED BY <1>1, <1>2, DestinationIs DEF acts

\* A message dealt with.
LEMMA NextMessageTypes ==
    ASSUME TypeOK, NEW r \in Runs, batch[r] # <<>>, NEW outcome \in Labels \cup {None},
           NextMessage(r, outcome)
    PROVE  /\ step' \in [Runs -> RunSteps]
           /\ batch' \in [Runs -> Seq(Candidates)]
           /\ todo' \in [Runs -> Seq(Actions)]
           /\ routed' \in [Runs -> Entries]
<1>1. Message(r) \in Messages /\ Tail(batch[r]) \in Seq(Candidates)
  BY Candidate
<1>2. batch \in [Runs -> Seq(Candidates)] /\ routed \in [Runs -> Entries]
  BY Batches DEF TypeOK
<1>3. batch' \in [Runs -> Seq(Candidates)]
  BY <1>1, <1>2 DEF NextMessage
<1>4. routed' \in [Runs -> Entries]
  BY <1>1, <1>2 DEF NextMessage, Entries
<1>5. todo' \in [Runs -> Seq(Actions)]
  <2>1. <<>> \in Seq(Actions)
    OBVIOUS
  <2> QED BY <2>1 DEF NextMessage, TypeOK, RunTypeOK
<1>6. step' \in [Runs -> RunSteps]
  BY DEF NextMessage, Goto, RunSteps, TypeOK, RunTypeOK
<1> QED BY <1>3, <1>4, <1>5, <1>6

\* A message looked up.
LEMMA ResolveTypes ==
    ASSUME TypeOK, NEW r \in Runs, Resolve(r) \/ ResolveFails(r)
    PROVE  RunTypeOK' /\ faults' \in 0 .. MaxFaults
<1>1. CASE Resolve(r)
  <2>1. Head(batch[r]).acts \in Seq(Actions)
    BY <1>1, Candidate DEF Resolve
  <2>2. todo' \in [Runs -> Seq(Actions)]
    BY <1>1, <2>1 DEF Resolve, TypeOK, RunTypeOK
  <2>3. step' \in [Runs -> RunSteps] /\ current' \in SUBSET Runs
    BY <1>1 DEF Resolve, Goto, RunSteps, TypeOK, RunTypeOK
  <2>4. UNCHANGED <<left, batch, more, routed, read, saved, faults>>
    BY <1>1 DEF Resolve
  <2> QED BY <2>2, <2>3, <2>4 DEF TypeOK, RunTypeOK
<1>2. CASE ResolveFails(r)
  <2>1. /\ step' \in [Runs -> RunSteps]
        /\ batch' \in [Runs -> Seq(Candidates)]
        /\ todo' \in [Runs -> Seq(Actions)]
        /\ routed' \in [Runs -> Entries]
    BY <1>2, NextMessageTypes DEF ResolveFails
  <2>2. UNCHANGED <<left, more, current, read, saved>>
    BY <1>2 DEF ResolveFails
  <2>3. faults' \in 0 .. MaxFaults
    BY <1>2, FaultType DEF ResolveFails, TypeOK
  <2> QED BY <2>1, <2>2, <2>3 DEF TypeOK, RunTypeOK, Candidates
<1> QED BY <1>1, <1>2

\* An action applied, or failed.
LEMMA ApplyTypes ==
    ASSUME TypeOK, Progress, NEW r \in Runs, Apply(r) \/ ApplyFails(r)
    PROVE  /\ RunTypeOK' /\ faults' \in 0 .. MaxFaults
           /\ where' \in [Messages -> Folders \cup {Gone}]
           /\ mover' \in [Messages -> Runs \cup {"nobody", "owner"}]
           /\ been' \in [Messages -> SUBSET Folders]
<1> DEFINE action == Head(todo[r])
<1>1. batch[r] # <<>> /\ todo[r] # <<>> /\ Message(r) \in Messages /\ todo[r] \in Seq(Actions)
  BY Candidate DEF Progress, Apply, ApplyFails, TypeOK, RunTypeOK
<1>2. action \in Actions /\ Tail(todo[r]) \in Seq(Actions)
  BY <1>1
<1>3. Ids(r, action) \in SUBSET Runs
  BY Zenon DEF Ids, TypeOK, RunTypeOK
<1> HIDE DEF action
<1>4. ASSUME Possible(r, action), Effect(r, action)
      PROVE  /\ where' \in [Messages -> Folders \cup {Gone}]
             /\ mover' \in [Messages -> Runs \cup {"nobody", "owner"}]
             /\ been' \in [Messages -> SUBSET Folders]
             /\ saved' \in SUBSET Messages
  BY <1>1, <1>2, <1>4, EffectIs
<1>5. CASE Apply(r)
  <2>1. Possible(r, action) /\ Effect(r, action) /\ step[r] = "apply"
    BY <1>5 DEF Apply, action
  <2>2. UNCHANGED <<left, more, read, cache>> /\ faults' \in 0 .. MaxFaults
    BY <1>5, FaultType DEF Apply, TypeOK
  <2>5. current' \in SUBSET Runs
    BY <1>3, <1>5 DEF Apply, action
  <2>3. CASE Len(todo[r]) = 1
    <3>1. Destination(Head(batch[r]).acts) \in Labels \cup {None}
      <4>1. Destination(Head(batch[r]).acts) \in been'[Message(r)] \cup OtherLabels
        BY <2>1, <2>3, OutcomeIs DEF action
      <4> QED BY <1>1, <1>4, <2>1, <4>1 DEF Labels
    <3>2. NextMessage(r, Destination(Head(batch[r]).acts))
      BY <1>5, <2>3 DEF Apply
    <3>3. /\ step' \in [Runs -> RunSteps] /\ batch' \in [Runs -> Seq(Candidates)]
          /\ todo' \in [Runs -> Seq(Actions)] /\ routed' \in [Runs -> Entries]
      BY <1>1, <3>1, <3>2, NextMessageTypes
    <3> QED BY <1>4, <2>1, <2>2, <2>5, <3>3 DEF TypeOK, RunTypeOK, Candidates
  <2>4. CASE Len(todo[r]) # 1
    <3>1. todo' = [todo EXCEPT ![r] = Tail(@)] /\ UNCHANGED <<step, batch, routed>>
      BY <1>5, <2>4 DEF Apply
    <3>2. todo' \in [Runs -> Seq(Actions)]
      BY <1>2, <3>1 DEF action, TypeOK, RunTypeOK
    <3> QED BY <1>4, <2>1, <2>2, <2>5, <3>1, <3>2 DEF TypeOK, RunTypeOK
  <2> QED BY <2>3, <2>4
<1>6. CASE ApplyFails(r)
  <2>1. NextMessage(r, None) /\ UNCHANGED <<left, more, read, cache>>
    BY <1>6 DEF ApplyFails
  <2>2. /\ step' \in [Runs -> RunSteps] /\ batch' \in [Runs -> Seq(Candidates)]
        /\ todo' \in [Runs -> Seq(Actions)] /\ routed' \in [Runs -> Entries]
    BY <1>1, <2>1, NextMessageTypes
  <2>3. \/ current' = current \ {r} /\ UNCHANGED <<mailbox, saved>>
        \/ /\ Possible(r, action) /\ Effect(r, action)
           /\ current' = Ids(r, action) \ {r}
    BY <1>6 DEF ApplyFails, action
  <2>4. /\ where' \in [Messages -> Folders \cup {Gone}]
        /\ mover' \in [Messages -> Runs \cup {"nobody", "owner"}]
        /\ been' \in [Messages -> SUBSET Folders]
        /\ saved' \in SUBSET Messages /\ current' \in SUBSET Runs
    BY <1>3, <1>4, <2>3 DEF TypeOK, RunTypeOK, mailbox
  <2>5. faults' \in 0 .. MaxFaults
    BY <1>6, FaultType DEF ApplyFails, TypeOK
  <2> QED BY <2>1, <2>2, <2>4, <2>5 DEF TypeOK, RunTypeOK, Candidates
<1> QED BY <1>5, <1>6

\* The pass recorded.
LEMMA RecordTypes ==
    ASSUME day \in Days, TypeOK, Started, NEW r \in Runs,
           NothingRouted(r) \/ ReadTracking(r) \/ WriteTracking(r) \/ CallFails(r)
    PROVE  /\ RunTypeOK' /\ UNCHANGED mailbox
           /\ file' \in TrackingFile /\ corrupt' \in BOOLEAN
           /\ old' \in SUBSET Messages /\ faults' \in 0 .. MaxFaults
<1>1. r \in DOMAIN Scanned /\ more[r] \in BOOLEAN
  BY DEF Started, NothingRouted, ReadTracking, WriteTracking, CallFails, TypeOK, RunTypeOK
<1>2. ASSUME NEW b \in BOOLEAN, Return(r, b) PROVE RunTypeOK'
  BY <1>1, <1>2, ReturnTypes
<1>3. file \in TrackingFile /\ corrupt \in BOOLEAN /\ old \in SUBSET Messages /\ faults \in 0 .. MaxFaults
  BY DEF TypeOK
<1>4. CASE NothingRouted(r)
  BY <1>1, <1>2, <1>3, <1>4 DEF NothingRouted, cache
<1>5. CASE ReadTracking(r)
  <2>1. ASSUME NEW g \in TrackingFile, read' = [read EXCEPT ![r] = g], Goto(r, "write"),
               UNCHANGED <<left, batch, todo, more, current, routed, saved>>
        PROVE  RunTypeOK'
    BY <2>1 DEF TypeOK, RunTypeOK, Goto, RunSteps
  <2>2. RunTypeOK'
    BY <1>2, <1>3, <1>5, <2>1, EmptyTypes DEF ReadTracking
  <2>3. UNCHANGED <<mailbox, cache>> /\ faults' \in 0 .. MaxFaults
    BY <1>3, <1>5, FaultType DEF ReadTracking
  <2> QED BY <1>3, <2>2, <2>3 DEF cache
<1>6. CASE WriteTracking(r)
  <2>1. read[r] \in TrackingFile /\ routed[r] \in Entries
    BY DEF TypeOK, RunTypeOK
  <2>2. file' \in TrackingFile
    BY <1>6, <2>1, UpsertIs DEF WriteTracking
  <2> QED BY <1>1, <1>2, <1>3, <1>6, <2>2 DEF WriteTracking
<1>7. CASE CallFails(r)
  BY <1>2, <1>3, <1>7, FaultType DEF CallFails, cache
<1> QED BY <1>4, <1>5, <1>6, <1>7

\* What the steps of a pass leave of the types.
LEMMA RunTypes ==
    ASSUME day \in Days, TypeOK, Started, Progress, NEW r \in Runs, RunStep(r) \/ Call(r)
    PROVE  /\ RunTypeOK'
           /\ where' \in [Messages -> Folders \cup {Gone}]
           /\ mover' \in [Messages -> Runs \cup {"nobody", "owner"}]
           /\ been' \in [Messages -> SUBSET Folders]
           /\ file' \in TrackingFile /\ corrupt' \in BOOLEAN /\ old' \in SUBSET Messages
           /\ faults' \in 0 .. MaxFaults
<1>1. /\ where \in [Messages -> Folders \cup {Gone}]
      /\ mover \in [Messages -> Runs \cup {"nobody", "owner"}]
      /\ been \in [Messages -> SUBSET Folders]
      /\ file \in TrackingFile /\ corrupt \in BOOLEAN /\ old \in SUBSET Messages
      /\ faults \in 0 .. MaxFaults
  BY DEF TypeOK
<1>2. CASE Call(r)
  <2>1. Scanned[r] \in Seq(Folders)
    BY <1>2, DayTypes DEF Call
  <2>2. left' \in [Runs -> Seq(Folders)] /\ step' \in [Runs -> RunSteps]
    BY <1>2, <2>1 DEF Call, Goto, RunSteps, TypeOK, RunTypeOK
  <2>3. UNCHANGED <<batch, todo, more, current, routed, read, saved, mailbox, cache, faults>>
    BY <1>2 DEF Call
  <2>4. RunTypeOK'
    BY <2>2, <2>3 DEF TypeOK, RunTypeOK
  <2> QED BY <1>1, <2>3, <2>4 DEF mailbox, cache
<1>3. CASE ListFolder(r) \/ CutBatch(r)
  <2>1. RunTypeOK'
    BY <1>3, ListFolderTypes, CutBatchTypes
  <2>2. UNCHANGED <<mailbox, cache, faults>>
    BY <1>3 DEF ListFolder, CutBatch
  <2> QED BY <1>1, <2>1, <2>2 DEF mailbox, cache
<1>4. CASE Resolve(r) \/ ResolveFails(r)
  <2>1. UNCHANGED <<mailbox, cache>>
    BY <1>4 DEF Resolve, ResolveFails
  <2> QED BY <1>1, <1>4, <2>1, ResolveTypes DEF mailbox, cache
<1>5. CASE Apply(r) \/ ApplyFails(r)
  <2>1. UNCHANGED cache
    BY <1>5 DEF Apply, ApplyFails
  <2> QED BY <1>1, <1>5, <2>1, ApplyTypes DEF cache
<1>6. CASE NothingRouted(r) \/ ReadTracking(r) \/ WriteTracking(r) \/ CallFails(r)
  BY <1>1, <1>6, RecordTypes DEF mailbox
<1> QED BY <1>2, <1>3, <1>4, <1>5, <1>6 DEF RunStep, RunProgress

\* Every step keeps the types.
LEMMA NextTypes ==
    ASSUME day \in Days, TypeOK, Started, Progress, [Next]_vars
    PROVE  TypeOK' /\ day' \in Days
<1>1. CASE UNCHANGED vars
  BY <1>1 DEF vars, mailbox, cache, runVars, scanVars, TypeOK, RunTypeOK, ScanTypeOK
<1>2. CASE Next
  <2>1. day' = day
    BY <1>2 DEF Next
  <2>2. ASSUME NEW m \in Messages, NEW to \in Folders \cup {Gone}, NEW who \in {"nobody", "owner"},
               Put(m, to, who)
        PROVE  /\ where' \in [Messages -> Folders \cup {Gone}]
               /\ mover' \in [Messages -> Runs \cup {"nobody", "owner"}]
               /\ been' \in [Messages -> SUBSET Folders]
    BY <2>2 DEF Put, TypeOK
  <2>3. ASSUME NEW m \in Messages, Arrive(m)
        PROVE  TypeOK'
    <3>1. Put(m, Inbox, "nobody") /\ UNCHANGED <<cache, faults, ownerMoves, runVars, scanVars>>
      BY <2>3 DEF Arrive
    <3> QED BY <2>1, <2>2, <3>1, FoldersAssumption
            DEF cache, runVars, scanVars, TypeOK, RunTypeOK, ScanTypeOK
  <2>4. ASSUME NEW m \in Messages, Age(m)
        PROVE  TypeOK'
    BY <2>1, <2>4 DEF Age, mailbox, runVars, scanVars, TypeOK, RunTypeOK, ScanTypeOK
  <2>5. ASSUME NEW m \in Messages, NEW to \in Folders \cup {Gone}, OwnerMoves(m, to)
        PROVE  TypeOK'
    <3>1. /\ Put(m, to, "owner") /\ ownerMoves < day.ownerMoves /\ ownerMoves' = ownerMoves + 1
          /\ current' = current \ Holding(m)
          /\ UNCHANGED <<cache, faults, step, left, batch, todo, more, routed, read, saved, scanVars>>
      BY <2>5 DEF OwnerMoves
    <3>2. ownerMoves' \in 0 .. day.ownerMoves /\ current' \in SUBSET Runs
      BY <3>1, DayTypes DEF TypeOK, RunTypeOK
    <3> QED BY <2>1, <2>2, <3>1, <3>2
            DEF cache, scanVars, TypeOK, RunTypeOK, ScanTypeOK
  <2>6. ASSUME NEW r \in Runs, RunStep(r) \/ Call(r), UNCHANGED <<ownerMoves, scanVars>>
        PROVE  TypeOK'
    <3>1. ScanTypeOK'
      BY <2>6 DEF scanVars, TypeOK, ScanTypeOK
    <3>2. ownerMoves' \in 0 .. day'.ownerMoves
      BY <2>1, <2>6 DEF TypeOK
    <3> QED BY <2>6, <3>1, <3>2, RunTypes DEF TypeOK
  <2>7. ASSUME NEW s \in Scans, ScanStep(s) \/ CallScan(s), UNCHANGED <<ownerMoves, runVars>>
        PROVE  TypeOK'
    <3>1. RunTypeOK' /\ ownerMoves' \in 0 .. day'.ownerMoves
      BY <2>1, <2>7 DEF runVars, TypeOK, RunTypeOK
    <3> QED BY <2>7, <3>1, ScanTypes DEF TypeOK
  <2> QED BY <1>2, <2>1, <2>3, <2>4, <2>5, <2>6, <2>7 DEF Next, Step
<1> QED BY <1>1, <1>2

-----------------------------------------------------------------------------
\* What a step leaves alone

\* A step of a pass changes nothing of the other passes.
LEMMA OtherRuns ==
    ASSUME TypeOK, NEW r \in Runs, RunStep(r) \/ Call(r)
    PROVE  \A q \in Runs \ {r} :
             /\ step'[q] = step[q] /\ batch'[q] = batch[q] /\ todo'[q] = todo[q]
             /\ routed'[q] = routed[q] /\ read'[q] = read[q]
<1> DEFINE Same == \A q \in Runs \ {r} :
             /\ step'[q] = step[q] /\ batch'[q] = batch[q] /\ todo'[q] = todo[q]
             /\ routed'[q] = routed[q] /\ read'[q] = read[q]
<1>1. /\ step \in [Runs -> RunSteps] /\ routed \in [Runs -> Entries]
      /\ batch \in [Runs -> Seq(Candidates)] /\ todo \in [Runs -> Seq(Actions)]
      /\ read \in [Runs -> TrackingFile]
  BY Batches DEF TypeOK
<1>2. ASSUME NEW b \in BOOLEAN, Return(r, b) PROVE Same
  BY <1>1, <1>2 DEF Return, Goto
<1>3. ASSUME NEW outcome, NextMessage(r, outcome), UNCHANGED read PROVE Same
  BY <1>1, <1>3 DEF NextMessage, Goto
<1>4. CASE Call(r)
  BY <1>1, <1>4 DEF Call, Goto
<1>5. CASE ListFolder(r)
  <2>1. \E bs : batch' = [batch EXCEPT ![r] = bs]
    BY <1>5, Zenon DEF ListFolder
  <2>2. UNCHANGED <<step, todo, routed, read>>
    BY <1>5 DEF ListFolder
  <2> QED BY <1>1, <2>1, <2>2
<1>6. CASE CutBatch(r)
  BY <1>1, <1>6 DEF CutBatch, Goto
<1>7. CASE Resolve(r)
  BY <1>1, <1>7 DEF Resolve, Goto
<1>8. CASE ResolveFails(r)
  BY <1>3, <1>8 DEF ResolveFails
<1>9. CASE Apply(r)
  <2>1. CASE Len(todo[r]) = 1
    BY <1>3, <1>9, <2>1 DEF Apply
  <2>2. CASE Len(todo[r]) # 1
    BY <1>1, <1>9, <2>2 DEF Apply
  <2> QED BY <2>1, <2>2
<1>10. CASE ApplyFails(r)
  <2>1. NextMessage(r, None) /\ UNCHANGED read
    BY <1>10 DEF ApplyFails
  <2> QED BY <1>3, <2>1
<1>11. CASE NothingRouted(r)
  BY <1>1, <1>2, <1>11 DEF NothingRouted, TypeOK, RunTypeOK
<1>12. CASE ReadTracking(r)
  BY <1>1, <1>2, <1>12 DEF ReadTracking, Goto
<1>13. CASE WriteTracking(r)
  BY <1>1, <1>2, <1>13 DEF WriteTracking, TypeOK, RunTypeOK
<1>14. CASE CallFails(r)
  BY <1>2, <1>14 DEF CallFails
<1> QED BY <1>4, <1>5, <1>6, <1>7, <1>8, <1>9, <1>10, <1>11, <1>12, <1>13, <1>14
        DEF RunStep, RunProgress

\* A step of a scan changes nothing of the other scans.
LEMMA OtherScans ==
    ASSUME TypeOK, NEW s \in Scans, ScanStep(s) \/ CallScan(s)
    PROVE  \A t \in Scans \ {s} :
             /\ scan'[t] = scan[t] /\ kept'[t] = kept[t] /\ toScan'[t] = toScan[t]
             /\ reported'[t] = reported[t]
<1> DEFINE Same == \A t \in Scans \ {s} :
             /\ scan'[t] = scan[t] /\ kept'[t] = kept[t] /\ toScan'[t] = toScan[t]
             /\ reported'[t] = reported[t]
<1>1. ScanTypeOK /\ file \in TrackingFile /\ EmptyFile \in TrackingFile
  BY EmptyTypes DEF TypeOK
<1>2. ASSUME NEW b \in BOOLEAN, ScanReturns(s, b) PROVE Same
  BY <1>1, <1>2 DEF ScanReturns, ScanTypeOK
<1>3. ASSUME NEW f \in TrackingFile, StartScan(s, f) PROVE Same
  <2>1. ASSUME NEW g, NEW b, NEW b2, Scanning(s, f, g, b, b2) PROVE Same
    BY <1>1, <2>1 DEF Scanning, ScanTypeOK
  <2> QED BY <1>2, <1>3, <2>1, StartScanIs
<1>4. ASSUME NEW m \in Messages, NEW found \in BOOLEAN, NEW mapped \in BOOLEAN,
             Examine(s, m, found, mapped)
      PROVE  Same
  <2>1. \E g : kept' = [kept EXCEPT ![s] = g]
    BY <1>4, Zenon DEF Examine
  <2>2. /\ toScan' = [toScan EXCEPT ![s] = @ \ {m}]
        /\ \E x : reported' = [reported EXCEPT ![s] = x]
        /\ UNCHANGED <<scan, again>>
    BY <1>4, Zenon DEF Examine
  <2> QED BY <1>1, <2>1, <2>2 DEF ScanTypeOK
<1>5. CASE CallScan(s)
  BY <1>1, <1>5 DEF CallScan, ScanTypeOK
<1>6. CASE ScanRead(s)
  BY <1>1, <1>2, <1>3, <1>6 DEF ScanRead
<1>7. CASE ScanWrite(s) \/ ScanFails(s)
  BY <1>1, <1>2, <1>7 DEF ScanWrite, ScanFails, ScanTypeOK
<1>8. ASSUME NEW m \in Messages, Lookup(s, m) \/ LookupFails(s, m) \/ LookupUnmapped(s, m) PROVE Same
  <2>1. Found(m) \in BOOLEAN
    BY DEF Found
  <2> QED BY <1>4, <1>8, <2>1 DEF Lookup, LookupFails, LookupUnmapped
<1> QED BY <1>5, <1>6, <1>7, <1>8 DEF ScanStep, ScanProgress

\* The files of a scan and of the cache, and the mailbox, as a pass sees them.
LEMMA ScanLeaves ==
    ASSUME TypeOK, NEW s \in Scans, ScanStep(s) \/ CallScan(s)
    PROVE  UNCHANGED mailbox
  BY DEF ScanStep, ScanProgress, ScanRead, Lookup, LookupFails, LookupUnmapped, ScanWrite, ScanFails, CallScan

\* Histories only grow.
Grows == saved \subseteq saved' /\ \A m \in Messages : been[m] \subseteq been'[m]

\* A step of a pass loses no history.
LEMMA RunGrows ==
    ASSUME TypeOK, Progress, NEW r \in Runs, RunStep(r) \/ Call(r)
    PROVE  Grows
<1>1. CASE UNCHANGED <<mailbox, saved>>
  BY <1>1 DEF mailbox, Grows
<1>2. ASSUME step[r] = "apply", Possible(r, Head(todo[r])), Effect(r, Head(todo[r]))
      PROVE  Grows
  BY <1>2, ApplyIs, EffectIs DEF Grows
<1>3. CASE Apply(r) \/ ApplyFails(r)
  <2>1. \/ UNCHANGED <<mailbox, saved>>
        \/ step[r] = "apply" /\ Possible(r, Head(todo[r])) /\ Effect(r, Head(todo[r]))
    BY <1>3, Zenon DEF Apply, ApplyFails
  <2> QED BY <1>1, <1>2, <2>1
<1>4. CASE ~(Apply(r) \/ ApplyFails(r))
  BY <1>1, <1>4 DEF RunStep, RunProgress, Call, ListFolder, CutBatch, Resolve, ResolveFails,
     NothingRouted, ReadTracking, WriteTracking, CallFails, Return
<1> QED BY <1>3, <1>4

\* No step does.
LEMMA NextGrows ==
    ASSUME TypeOK, Progress, [Next]_vars
    PROVE  Grows
<1>1. CASE UNCHANGED vars
  BY <1>1 DEF vars, mailbox, runVars, Grows
<1>2. ASSUME NEW m \in Messages, NEW to, NEW who, Put(m, to, who), UNCHANGED saved
      PROVE  Grows
  BY <1>2 DEF Put, Grows, TypeOK
<1>3. ASSUME NEW m \in Messages, Arrive(m) \/ Age(m) PROVE Grows
  BY <1>2, <1>3 DEF Arrive, Age, mailbox, runVars, Grows
<1>4. ASSUME NEW m \in Messages, NEW to \in Folders \cup {Gone}, OwnerMoves(m, to) PROVE Grows
  BY <1>2, <1>4 DEF OwnerMoves
<1>5. ASSUME NEW s \in Scans, ScanStep(s) \/ CallScan(s), UNCHANGED runVars PROVE Grows
  BY <1>5, ScanLeaves DEF runVars, mailbox, Grows
<1> QED BY <1>1, <1>3, <1>4, <1>5, RunGrows DEF Next, Step

-----------------------------------------------------------------------------
\* The invariant, part by part

\* Each part after a step.
LEMMA StartedHolds ==
    ASSUME TypeOK, Started, Next
    PROVE  Started'
<1>1. day' = day
  BY DEF Next
<1>2. ASSUME NEW r \in Runs, RunStep(r) \/ Call(r) PROVE Started'
  <2>1. r \in DOMAIN Scanned
    BY <1>2 DEF Call, RunStep, RunProgress, ListFolder, CutBatch, Resolve, ResolveFails, Apply,
       ApplyFails, NothingRouted, ReadTracking, WriteTracking, CallFails, Started
  <2>2. \A q \in Runs \ {r} : step'[q] = step[q]
    BY <1>2, OtherRuns
  <2> QED BY <1>1, <2>1, <2>2 DEF Started, Scanned
<1>3. CASE UNCHANGED step
  BY <1>1, <1>3 DEF Started, Scanned
<1> QED BY <1>2, <1>3 DEF Next, Step, Arrive, Age, OwnerMoves, runVars

\* A candidate of a batch was in it, or has just been listed.
LEMMA BatchIs ==
    ASSUME day \in Days, TypeOK, Truth, NEW r \in Runs, RunStep(r) \/ Call(r),
           NEW i \in DOMAIN batch'[r]
    PROVE  \/ \E j \in DOMAIN batch[r] : batch'[r][i] = batch[r][j]
           \/ Fits(batch'[r][i])
<1>1. batch \in [Runs -> Seq(Candidates)]
  BY Batches DEF TypeOK
<1>2. CASE batch' = batch
  BY <1>2
<1>3. ASSUME NEW b \in BOOLEAN, Return(r, b) PROVE FALSE
  BY <1>1, <1>3 DEF Return
<1>4. ASSUME batch[r] # <<>>, batch' = [batch EXCEPT ![r] = Tail(@)]
      PROVE  \E j \in DOMAIN batch[r] : batch'[r][i] = batch[r][j]
  <2>1. batch'[r] = Tail(batch[r]) /\ batch[r] \in Seq(Candidates)
    BY <1>1, <1>4
  <2>2. i \in Nat /\ i + 1 \in DOMAIN batch[r] /\ batch'[r][i] = batch[r][i + 1]
    BY <1>4, <2>1, TailElement
  <2> QED BY <2>2
<1>5. CASE ListFolder(r)
  <2> DEFINE folder == Head(left[r])
             inside == {m \in Messages : where[m] = folder}
             ruled  == {m \in Oldest(inside) : Rules[m][folder] # <<>>}
             found(l) == [k \in DOMAIN l |-> [m |-> l[k], acts |-> Rules[l[k]][folder]]]
  <2>1. folder \in Folders
    BY <1>5 DEF TypeOK, RunTypeOK, ListFolder
  <2>2. PICK l \in InOrder(ruled) : batch' = [batch EXCEPT ![r] = @ \o found(l)]
    BY <1>5 DEF ListFolder
  <2>3. ruled \subseteq Messages /\ Cardinality(ruled) \in Nat
    <3>1. ruled \subseteq Messages
      BY DEF Oldest
    <3> QED BY <3>1, MessagesAssumption, FS_Subset, FS_CardinalityType
  <2>4. ASSUME NEW k \in DOMAIN l
        PROVE  /\ found(l)[k].m = l[k] /\ found(l)[k].acts = Rules[l[k]][folder]
               /\ been[l[k]] # {} /\ OfRule(l[k], Rules[l[k]][folder])
    <3>1. l[k] \in ruled
      BY DEF InOrder
    <3>2. l[k] \in Messages /\ where[l[k]] = folder /\ Rules[l[k]][folder] # <<>>
      BY <3>1 DEF Oldest
    <3>3. been[l[k]] # {}
      BY <2>1, <3>2, LabelsAssumption DEF Truth
    <3> QED BY <2>1, <3>2, <3>3 DEF OfRule
  <2>5. l \in [1 .. Cardinality(ruled) -> ruled]
    BY DEF InOrder
  <2>6. DOMAIN l = 1 .. Cardinality(ruled)
    BY <2>5
  <2> DEFINE n == Cardinality(ruled)
             lst == found(l)
             Good(k) == Fits(lst[k])
  <2>7. DOMAIN lst = 1 .. n /\ n \in Nat /\ \A k \in 1 .. n : Good(k)
    BY <2>3, <2>4, <2>6 DEF Fits
  <2>8. lst = [k \in 1 .. n |-> lst[k]]
    BY <2>6
  <2>9. batch'[r] = batch[r] \o lst
    BY <1>1, <2>2
  <2> HIDE DEF found, n, ruled, lst
  <2>10. lst \in Seq({lst[k] : k \in 1 .. n})
    BY <2>7, <2>8
  <2>11. batch[r] \in Seq(Candidates)
    BY <1>1
  <2>12. \/ i \in DOMAIN batch[r] /\ batch'[r][i] = batch[r][i]
         \/ \E k \in 1 .. n : batch'[r][i] = lst[k]
    <3>1. Len(lst) = n
      BY <2>7, <2>10
    <3>2. DOMAIN batch'[r] = 1 .. (Len(batch[r]) + n)
      BY <2>9, <2>10, <2>11, <3>1
    <3>3. CASE i \in DOMAIN batch[r]
      BY <2>9, <2>10, <2>11, <3>3
    <3>4. CASE i \notin DOMAIN batch[r]
      <4>1. i - Len(batch[r]) \in 1 .. n /\ batch'[r][i] = lst[i - Len(batch[r])]
        BY <2>7, <2>9, <2>10, <2>11, <3>1, <3>2, <3>4
      <4> QED BY <4>1
    <3> QED BY <3>3, <3>4
  <2> QED BY <2>7, <2>12
<1>6. CASE CutBatch(r)
  <2>1. CASE Len(batch[r]) > MaxActions
    <3>1. batch'[r] = SubSeq(batch[r], 1, MaxActions) /\ batch[r] \in Seq(Candidates)
      BY <1>1, <1>6, <2>1 DEF CutBatch
    <3>2. i \in DOMAIN batch[r] /\ batch'[r][i] = batch[r][i]
      BY <2>1, <3>1, ActionsAssumption
    <3> QED BY <3>2
  <2>2. CASE ~(Len(batch[r]) > MaxActions)
    <3>1. batch'[r] = batch[r]
      BY <1>1, <1>6, <2>2 DEF CutBatch
    <3> QED BY <3>1
  <2> QED BY <2>1, <2>2
<1>7. CASE ResolveFails(r)
  BY <1>4, <1>7 DEF ResolveFails, NextMessage
<1>8. CASE Apply(r) \/ ApplyFails(r)
  <2>1. CASE batch[r] # <<>>
    <3>1. batch' = batch \/ batch' = [batch EXCEPT ![r] = Tail(@)]
      BY <1>8 DEF Apply, ApplyFails, NextMessage
    <3> QED BY <1>2, <1>4, <2>1, <3>1
  <2>2. CASE batch[r] = <<>>
    <3>1. batch'[r] = batch[r] \/ batch'[r] = Tail(batch[r])
      BY <1>1, <1>8 DEF Apply, ApplyFails, NextMessage
    <3>2. batch'[r] = <<>>
      BY <2>2, <3>1
    <3> QED BY <3>2
  <2> QED BY <2>1, <2>2
<1>9. CASE Call(r) \/ Resolve(r)
  BY <1>2, <1>9 DEF Call, Resolve
<1>10. CASE NothingRouted(r) \/ ReadTracking(r) \/ WriteTracking(r) \/ CallFails(r)
  <2>1. more[r] \in BOOLEAN
    BY DEF TypeOK, RunTypeOK
  <2> QED BY <1>2, <1>3, <1>10, <2>1 DEF NothingRouted, ReadTracking, WriteTracking, CallFails
<1> QED BY <1>5, <1>6, <1>7, <1>8, <1>9, <1>10 DEF RunStep, RunProgress

\* So every candidate fits.
LEMMA BatchedHolds ==
    ASSUME RoutingInv, Next
    PROVE  Batched'
<1>1. day' = day /\ Grows
  BY NextGrows DEF Next, RoutingInv
<1>2. ASSUME NEW c \in Candidates, Fits(c)
      PROVE  been'[c.m] # {} /\ c.acts # <<>> /\ \E f \in Folders : c.acts = Rules'[c.m][f]
  <2>1. c.m \in Messages
    BY DEF Candidates
  <2> QED BY <1>1, <1>2, <2>1 DEF Grows, Fits, OfRule, Rules
<1>3. ASSUME NEW r \in Runs, NEW i \in DOMAIN batch'[r]
      PROVE  batch'[r][i] \in Candidates
  <2>1. TypeOK'
    BY NextTypes DEF RoutingInv
  <2>2. batch'[r] \in Seq(Candidates)
    BY <2>1 DEF TypeOK, RunTypeOK, Candidates
  <2> QED BY <2>2
<1>4. ASSUME \A r \in Runs : \A i \in DOMAIN batch'[r] :
                \/ \E q \in Runs : \E j \in DOMAIN batch[q] : batch'[r][i] = batch[q][j]
                \/ Fits(batch'[r][i])
      PROVE  Batched'
  <2>1. \A r \in Runs : \A i \in DOMAIN batch'[r] : Fits(batch'[r][i])
    BY <1>4 DEF RoutingInv, Batched
  <2> QED BY <1>2, <1>3, <2>1 DEF Batched, Fits, OfRule
<1>5. ASSUME NEW q \in Runs, RunStep(q) \/ Call(q) PROVE Batched'
  <2>1. \A r \in Runs \ {q} : batch'[r] = batch[r]
    BY <1>5, OtherRuns DEF RoutingInv
  <2>2. \A i \in DOMAIN batch'[q] :
           (\E j \in DOMAIN batch[q] : batch'[q][i] = batch[q][j]) \/ Fits(batch'[q][i])
    BY <1>5, BatchIs DEF RoutingInv
  <2> QED BY <1>4, <2>1, <2>2
<1>6. CASE UNCHANGED batch
  BY <1>4, <1>6
<1> QED BY <1>5, <1>6 DEF Next, Step, Arrive, Age, OwnerMoves, runVars

\* A pass that waits has still done what it did.
LEMMA DoneStays ==
    ASSUME NEW m \in Messages, NEW acts, NEW rest, Done(m, acts, rest, been, saved), Grows
    PROVE  Done(m, acts, rest, been', saved')
  BY CarriedStays DEF Done, Grows

\* A pass begins with no action done, and each action applied is one more.
LEMMA ProgressHolds ==
    ASSUME RoutingInv, Next
    PROVE  Progress'
<1> USE DEF RoutingInv
<1>1. Grows
  BY NextGrows
<1>2. ASSUME NEW r \in Runs, step'[r] = step[r], batch'[r] = batch[r], todo'[r] = todo[r],
             step'[r] = "apply"
      PROVE  /\ batch'[r] # <<>> /\ todo'[r] # <<>>
             /\ Done(Head(batch'[r]).m, Head(batch'[r]).acts, todo'[r], been', saved')
  <2>1. /\ batch[r] # <<>> /\ todo[r] # <<>>
        /\ Done(Head(batch[r]).m, Head(batch[r]).acts, todo[r], been, saved)
    BY <1>2 DEF Progress, Message
  <2>2. Head(batch[r]).m \in Messages
    BY <2>1, Candidate DEF Message
  <2> QED BY <1>1, <1>2, <2>1, <2>2, DoneStays
<1>3. ASSUME NEW r \in Runs, RunStep(r) \/ Call(r), step'[r] = "apply"
      PROVE  /\ batch'[r] # <<>> /\ todo'[r] # <<>>
             /\ Done(Head(batch'[r]).m, Head(batch'[r]).acts, todo'[r], been', saved')
  <2>1. step \in [Runs -> RunSteps] /\ todo \in [Runs -> Seq(Actions)]
    BY DEF TypeOK, RunTypeOK
  <2>2. CASE Resolve(r)
    <3> DEFINE acts == Head(batch[r]).acts
    <3>1. batch' = batch /\ todo'[r] = acts /\ batch[r] # <<>> /\ UNCHANGED <<mailbox, saved>>
      BY <2>1, <2>2 DEF Resolve
    <3>2. acts \in Seq(Actions) /\ Head(batch[r]) = batch[r][1] /\ 1 \in DOMAIN batch[r]
      BY <3>1, Candidate
    <3>3. acts # <<>>
      BY <3>2 DEF Batched, Fits, OfRule
    <3> HIDE DEF acts
    <3>4. Done(Head(batch[r]).m, acts, acts, been', saved')
      <4>1. Len(acts) - Len(acts) = 0 /\ Len(acts) \in Nat
        BY <3>2
      <4> QED BY <3>2, <4>1 DEF Done
    <3> QED BY <3>1, <3>3, <3>4 DEF acts
  <2>3. CASE Apply(r) /\ Len(todo[r]) # 1
    <3> DEFINE acts == Head(batch[r]).acts
               n == Len(acts) - Len(todo[r])
               rest == Tail(todo[r])
    <3>1. /\ UNCHANGED batch /\ todo' = [todo EXCEPT ![r] = Tail(@)] /\ step[r] = "apply"
          /\ Possible(r, Head(todo[r])) /\ Effect(r, Head(todo[r]))
      BY <2>3 DEF Apply
    <3>2. /\ batch[r] # <<>> /\ todo[r] # <<>> /\ n \in Nat
          /\ acts \in Seq(Actions) /\ todo[r] \in Seq(Actions)
          /\ \A i \in 1 .. n + 1 : Carried(Message(r), acts[i], been', saved')
      BY <3>1, ApplyIs
    <3>3. \A i \in DOMAIN todo[r] : todo[r][i] = acts[n + i]
      BY <3>1 DEF Progress, Done
    <3> HIDE DEF acts
    <3>4. /\ Len(rest) = Len(todo[r]) - 1 /\ rest # <<>>
          /\ \A i \in DOMAIN rest : i \in Nat /\ i + 1 \in DOMAIN todo[r] /\ rest[i] = todo[r][i + 1]
      BY <2>3, <3>2, TailElement, TailLength
    <3>5. Len(acts) - Len(rest) = n + 1 /\ Len(acts) \in Nat /\ Len(todo[r]) \in Nat
      <4>1. Len(acts) \in Nat /\ Len(todo[r]) \in Nat
        BY <3>2
      <4> HIDE DEF rest
      <4>2. Len(rest) = Len(todo[r]) - 1
        BY <3>4
      <4> QED BY <4>1, <4>2
    <3> HIDE DEF n, rest
    <3>6. \A i \in DOMAIN rest : rest[i] = acts[n + 1 + i]
      <4>1. ASSUME NEW i \in DOMAIN rest PROVE rest[i] = acts[n + 1 + i]
        <5>1. i \in Nat /\ i + 1 \in DOMAIN todo[r] /\ rest[i] = todo[r][i + 1]
          BY <3>4
        <5>2. n + (i + 1) = n + 1 + i
          BY <3>2, <5>1
        <5> QED BY <3>3, <5>1, <5>2
      <4> QED BY <4>1
    <3>7. Done(Message(r), acts, rest, been', saved')
      BY <3>2, <3>5, <3>6 DEF Done
    <3> QED BY <2>1, <3>1, <3>2, <3>4, <3>7 DEF acts, rest, Message
  <2>4. CASE UNCHANGED <<step, batch, todo>>
    BY <1>2, <1>3, <2>4
  <2>5. ASSUME NEW at \in RunSteps \ {"apply"}, Goto(r, at) PROVE FALSE
    BY <1>3, <2>1, <2>5 DEF Goto
  <2>6. ASSUME NEW b \in BOOLEAN, Return(r, b) PROVE FALSE
    BY <2>5, <2>6 DEF Return, RunSteps
  <2>7. ASSUME NEW outcome, NextMessage(r, outcome) PROVE FALSE
    BY <2>5, <2>7 DEF NextMessage, RunSteps
  <2>8. CASE Call(r) \/ CutBatch(r)
    BY <2>5, <2>8 DEF Call, CutBatch, RunSteps
  <2>9. CASE ListFolder(r)
    BY <1>3, <2>1, <2>9 DEF ListFolder
  <2>10. CASE ResolveFails(r) \/ ApplyFails(r)
    BY <2>7, <2>10 DEF ResolveFails, ApplyFails
  <2>11. CASE Apply(r) /\ Len(todo[r]) = 1
    BY <2>7, <2>11 DEF Apply
  <2>12. CASE NothingRouted(r) \/ WriteTracking(r) \/ CallFails(r)
    BY <2>6, <2>12 DEF NothingRouted, WriteTracking, CallFails, TypeOK, RunTypeOK
  <2>13. CASE ReadTracking(r)
    BY <2>5, <2>6, <2>13 DEF ReadTracking, RunSteps
  <2> QED BY <1>3, <2>2, <2>3, <2>8, <2>9, <2>10, <2>11, <2>12, <2>13 DEF RunStep, RunProgress
<1>4. ASSUME \A r \in Runs : step'[r] = "apply" =>
                /\ batch'[r] # <<>> /\ todo'[r] # <<>>
                /\ Done(Head(batch'[r]).m, Head(batch'[r]).acts, todo'[r], been', saved')
      PROVE  Progress'
  BY <1>4 DEF Progress, Message
<1>5. ASSUME NEW q \in Runs, RunStep(q) \/ Call(q) PROVE Progress'
  <2>1. \A r \in Runs \ {q} : step'[r] = step[r] /\ batch'[r] = batch[r] /\ todo'[r] = todo[r]
    BY <1>5, OtherRuns
  <2> QED BY <1>2, <1>3, <1>4, <1>5, <2>1
<1>6. CASE UNCHANGED <<step, batch, todo>>
  BY <1>2, <1>4, <1>6
<1> QED BY <1>5, <1>6 DEF Next, Step, Arrive, Age, OwnerMoves, runVars

\* What a step of a pass does to the mailbox.
LEMMA RunMoves ==
    ASSUME TypeOK, Progress, NEW r \in Runs, RunStep(r) \/ Call(r)
    PROVE  \/ UNCHANGED mailbox
           \/ /\ step[r] = "apply" /\ batch[r] # <<>>
              /\ Possible(r, Head(todo[r])) /\ Effect(r, Head(todo[r]))
              /\ \A k \in Messages :
                   \/ where'[k] = where[k] /\ mover'[k] = mover[k]
                   \/ /\ k = Message(r) /\ Head(todo[r]).do \in {"move", "delete"}
                      /\ mover'[k] = r /\ where'[k] \in been'[k]
                      /\ Head(todo[r]).do = "move" => where'[k] = Head(todo[r]).to
<1>1. ASSUME step[r] = "apply", Possible(r, Head(todo[r])), Effect(r, Head(todo[r]))
      PROVE  /\ batch[r] # <<>>
             /\ \A k \in Messages :
                   \/ where'[k] = where[k] /\ mover'[k] = mover[k]
                   \/ /\ k = Message(r) /\ Head(todo[r]).do \in {"move", "delete"}
                      /\ mover'[k] = r /\ where'[k] \in been'[k]
                      /\ Head(todo[r]).do = "move" => where'[k] = Head(todo[r]).to
  BY <1>1, ApplyIs, EffectIs
<1>2. CASE Apply(r) \/ ApplyFails(r)
  <2>1. \/ UNCHANGED mailbox
        \/ step[r] = "apply" /\ Possible(r, Head(todo[r])) /\ Effect(r, Head(todo[r]))
    BY <1>2, Zenon DEF Apply, ApplyFails
  <2> QED BY <1>1, <2>1
<1>3. CASE ~(Apply(r) \/ ApplyFails(r))
  BY <1>3 DEF RunStep, RunProgress, Call, ListFolder, CutBatch, Resolve, ResolveFails,
     NothingRouted, ReadTracking, WriteTracking, CallFails
<1> QED BY <1>2, <1>3

\* Entries that are true stay true.
LEMMA TrueGrows ==
    ASSUME NEW entries, True(entries, been), Grows
    PROVE  True(entries, been')
  BY DEF True, Grows

\* No entries are true.
LEMMA TrueEmpty == \A visited : True(Untracked, visited) /\ True(EmptyFile.entries, visited)
  BY DEF True, Untracked, EmptyFile

\* What a step of a pass does to its entries and to the file it has read.
LEMMA RoutedIs ==
    ASSUME TypeOK, Progress, NEW r \in Runs, RunStep(r) \/ Call(r)
    PROVE  \/ routed'[r] = routed[r]
           \/ routed'[r] = Untracked
           \/ /\ Apply(r) /\ Len(todo[r]) = 1
              /\ routed' = [routed EXCEPT ![r][Message(r)] = Destination(Head(batch[r]).acts)]
<1>1. routed \in [Runs -> Entries] /\ more[r] \in BOOLEAN
  BY DEF TypeOK, RunTypeOK
<1>2. ASSUME NEW b \in BOOLEAN, Return(r, b) PROVE routed'[r] = Untracked
  BY <1>1, <1>2 DEF Return
<1>3. ASSUME batch[r] # <<>>, NextMessage(r, None) PROVE routed'[r] = routed[r]
  BY <1>1, <1>3, Candidate DEF NextMessage, Entries
<1>4. CASE Apply(r)
  <2>1. CASE Len(todo[r]) # 1
    BY <1>4, <2>1 DEF Apply
  <2>2. CASE Len(todo[r]) = 1
    <3>1. /\ step[r] = "apply" /\ Possible(r, Head(todo[r])) /\ Effect(r, Head(todo[r]))
          /\ NextMessage(r, Destination(Head(batch[r]).acts))
      BY <1>4, <2>2 DEF Apply
    <3>2. routed' = [routed EXCEPT ![r][Message(r)] =
                      IF Destination(Head(batch[r]).acts) # None
                      THEN Destination(Head(batch[r]).acts) ELSE @]
      BY <3>1 DEF NextMessage
    <3>3. batch[r] # <<>> /\ Message(r) \in Messages
      BY <3>1, ApplyIs, Candidate
    <3>4. Destination(Head(batch[r]).acts) \in been'[Message(r)] \cup OtherLabels
      BY <2>2, <3>1, OutcomeIs
    <3>5. been'[Message(r)] \subseteq Folders
      BY <1>4, <3>3, ApplyTypes
    <3>6. Destination(Head(batch[r]).acts) # None
      BY <3>4, <3>5, LabelsAssumption
    <3> QED BY <1>4, <2>2, <3>2, <3>6
  <2> QED BY <2>1, <2>2
<1>5. CASE ApplyFails(r)
  <2>1. NextMessage(r, None) /\ batch[r] # <<>>
    BY <1>5 DEF ApplyFails, Progress
  <2> QED BY <1>3, <2>1
<1>6. CASE ResolveFails(r)
  BY <1>3, <1>6 DEF ResolveFails
<1>7. CASE NothingRouted(r) \/ ReadTracking(r) \/ WriteTracking(r) \/ CallFails(r)
  BY <1>1, <1>2, <1>7 DEF NothingRouted, ReadTracking, WriteTracking, CallFails
<1> QED BY <1>4, <1>5, <1>6, <1>7 DEF RunStep, RunProgress, Call, ListFolder, CutBatch, Resolve

\* What a pass knows of the cache it read from a cache that parses.
LEMMA ReadIs ==
    ASSUME TypeOK, NEW r \in Runs, RunStep(r) \/ Call(r)
    PROVE  \/ read'[r] = read[r]
           \/ read'[r] = EmptyFile
           \/ ~corrupt /\ read'[r] = file
<1>1. read \in [Runs -> TrackingFile]
  BY DEF TypeOK, RunTypeOK
<1>2. ASSUME NEW b \in BOOLEAN, Return(r, b) PROVE read'[r] = EmptyFile
  BY <1>1, <1>2 DEF Return
<1>3. CASE Apply(r) \/ ApplyFails(r)
  <2>1. UNCHANGED read
    BY <1>3 DEF Apply, ApplyFails
  <2> QED BY <2>1
<1>4. CASE NothingRouted(r) \/ ReadTracking(r) \/ WriteTracking(r) \/ CallFails(r)
  BY <1>1, <1>2, <1>4
     DEF NothingRouted, ReadTracking, WriteTracking, CallFails, TypeOK, RunTypeOK
<1> QED BY <1>3, <1>4 DEF RunStep, RunProgress, Call, ListFolder, CutBatch, Resolve, ResolveFails

\* A step of a pass keeps the copies true: an entry is added to those of the
\* pass only once every action of its rule was carried out.
LEMMA RunTruth ==
    ASSUME RoutingInv, NEW r \in Runs, RunStep(r) \/ Call(r), UNCHANGED scanVars
    PROVE  Truth'
<1> USE DEF RoutingInv
<1>1. Grows
  BY RunGrows
<1>2. \A m \in Messages : where'[m] \in been'[m] \cup {Gone}
  <2>1. CASE UNCHANGED mailbox
    BY <2>1 DEF mailbox, Truth
  <2>2. CASE \A k \in Messages : where'[k] = where[k] \/ where'[k] \in been'[k]
    BY <1>1, <2>2 DEF Truth, Grows
  <2> QED BY <2>1, <2>2, RunMoves
<1>3. True(routed'[r], been')
  <2>1. CASE routed'[r] = routed[r]
    BY <1>1, <2>1, TrueGrows DEF Truth
  <2>2. CASE routed'[r] = Untracked
    BY <2>2, TrueEmpty
  <2>3. CASE /\ Apply(r) /\ Len(todo[r]) = 1
             /\ routed' = [routed EXCEPT ![r][Message(r)] = Destination(Head(batch[r]).acts)]
    <3>1. /\ step[r] = "apply" /\ Possible(r, Head(todo[r])) /\ Effect(r, Head(todo[r]))
      BY <2>3 DEF Apply
    <3>2. Destination(Head(batch[r]).acts) \in been'[Message(r)] \cup OtherLabels
      BY <2>3, <3>1, OutcomeIs
    <3>3. batch[r] # <<>> /\ Message(r) \in Messages /\ 1 \in DOMAIN batch[r]
          /\ Head(batch[r]) = batch[r][1]
      BY <3>1, ApplyIs, Candidate
    <3>4. been[Message(r)] # {}
      BY <3>3 DEF Batched, Fits, Message
    <3>5. been'[Message(r)] # {}
      BY <1>1, <3>3, <3>4 DEF Grows
    <3>6. True(routed[r], been')
      BY <1>1, TrueGrows DEF Truth
    <3>7. routed[r] \in Entries /\ routed \in [Runs -> Entries]
      BY DEF TypeOK, RunTypeOK
    <3>8. \A m \in Messages : routed'[r][m] = IF m = Message(r) THEN Destination(Head(batch[r]).acts) ELSE routed[r][m]
      BY <2>3, <3>7 DEF Entries
    <3> QED BY <3>2, <3>3, <3>5, <3>6, <3>8 DEF True
  <2> QED BY <2>1, <2>2, <2>3, RoutedIs
<1>4. True(read'[r].entries, been')
  BY <1>1, ReadIs, TrueGrows, TrueEmpty DEF Truth
<1>5. \A q \in Runs : True(routed'[q], been') /\ True(read'[q].entries, been')
  <2>1. \A q \in Runs \ {r} : routed'[q] = routed[q] /\ read'[q] = read[q]
    BY OtherRuns
  <2> QED BY <1>1, <1>3, <1>4, <2>1, TrueGrows DEF Truth
<1>6. ~corrupt' => True(file'.entries, been')
  <2>1. CASE UNCHANGED <<file, corrupt>>
    BY <1>1, <2>1, TrueGrows DEF Truth
  <2>2. CASE WriteTracking(r)
    <3>1. read[r] \in TrackingFile /\ routed[r] \in Entries /\ file' = UpsertEntries(read[r], routed[r])
      BY <2>2 DEF TypeOK, RunTypeOK, WriteTracking
    <3>2. \A m \in Messages :
             file'.entries[m] = IF routed[r][m] # None THEN routed[r][m] ELSE read[r].entries[m]
      BY <3>1, UpsertIs
    <3>3. True(routed[r], been') /\ True(read[r].entries, been')
      BY <1>1, TrueGrows DEF Truth
    <3> QED BY <3>2, <3>3 DEF True
  <2>3. CASE Apply(r) \/ ApplyFails(r)
    <3>1. UNCHANGED cache
      BY <2>3 DEF Apply, ApplyFails
    <3> QED BY <2>1, <3>1 DEF cache
  <2> QED BY <2>1, <2>2, <2>3 DEF RunStep, RunProgress, Call, ListFolder, CutBatch, Resolve, ResolveFails,
          NothingRouted, ReadTracking, CallFails, cache
<1>7. \A s \in Scans : True(kept'[s].entries, been')
  <2>1. kept' = kept
    BY DEF scanVars
  <2> QED BY <1>1, <2>1, TrueGrows DEF Truth
<1> QED BY <1>2, <1>5, <1>6, <1>7 DEF Truth

\* A step of a scan keeps them true: it records where it found the message.
LEMMA ScanTruth ==
    ASSUME RoutingInv, NEW s \in Scans, ScanStep(s) \/ CallScan(s), UNCHANGED runVars
    PROVE  Truth'
<1> USE DEF RoutingInv
<1>1. UNCHANGED <<where, been, routed, read>>
  BY ScanLeaves DEF mailbox, runVars
<1>2. kept \in [Scans -> TrackingFile] /\ file \in TrackingFile /\ EmptyFile \in TrackingFile
  BY EmptyTypes DEF TypeOK, ScanTypeOK
<1>3. ASSUME NEW b \in BOOLEAN, ScanReturns(s, b) PROVE True(kept'[s].entries, been)
  <2>1. kept'[s] = EmptyFile
    BY <1>2, <1>3 DEF ScanReturns
  <2> QED BY <2>1, TrueEmpty
<1>4. ASSUME NEW f \in TrackingFile, StartScan(s, f), True(f.entries, been)
      PROVE  True(kept'[s].entries, been)
  <2>1. ASSUME NEW g \in TrackingFile, NEW b \in SUBSET Messages, NEW unseen \in BOOLEAN,
               Scanning(s, f, g, b, unseen)
        PROVE  True(kept'[s].entries, been)
    <3>1. /\ kept'[s] = g
          /\ \A m \in Messages : g.entries[m] = IF m \in old THEN None ELSE f.entries[m]
      BY <1>2, <2>1 DEF Scanning
    <3> QED BY <1>4, <3>1 DEF True
  <2> QED BY <1>3, <1>4, <2>1, StartScanIs
<1>5. ASSUME NEW m \in Messages, NEW found \in BOOLEAN, NEW mapped \in BOOLEAN,
             found => Found(m), Examine(s, m, found, mapped)
      PROVE  True(kept'[s].entries, been)
  <2>1. PICK g \in TrackingFile :
             /\ kept' = [kept EXCEPT ![s] = g]
             /\ g.entries[m] = IF ~found THEN None
                               ELSE IF mapped THEN where[m] ELSE kept[s].entries[m]
             /\ \A k \in Messages \ {m} : g.entries[k] = kept[s].entries[k]
    BY <1>5, ExamineIs
  <2>2. kept'[s] = g /\ True(kept[s].entries, been)
    BY <1>2, <2>1 DEF Truth
  <2>3. found => where[m] \in been[m]
    BY <1>5 DEF Truth, Found
  <2> QED BY <2>1, <2>2, <2>3 DEF True
<1>6. CASE ScanRead(s)
  <2>1. ~corrupt => True(file.entries, been)
    BY DEF Truth
  <2>2. True(kept'[s].entries, been)
    BY <1>2, <1>3, <1>4, <1>6, <2>1, TrueEmpty DEF ScanRead
  <2>3. \A t \in Scans \ {s} : kept'[t] = kept[t]
    BY OtherScans
  <2>4. UNCHANGED <<file, corrupt>>
    BY <1>6 DEF ScanRead, cache
  <2> QED BY <1>1, <2>2, <2>3, <2>4 DEF Truth
<1>7. ASSUME NEW m \in Messages, Lookup(s, m) \/ LookupFails(s, m) \/ LookupUnmapped(s, m) PROVE Truth'
  <2>1. Found(m) \in BOOLEAN
    BY DEF Found
  <2>2. True(kept'[s].entries, been)
    BY <1>5, <1>7, <2>1 DEF Lookup, LookupFails, LookupUnmapped
  <2>3. \A t \in Scans \ {s} : kept'[t] = kept[t]
    BY <1>7, OtherScans DEF ScanStep, ScanProgress
  <2>4. UNCHANGED <<file, corrupt>>
    BY <1>7 DEF Lookup, LookupFails, LookupUnmapped, cache
  <2> QED BY <1>1, <2>2, <2>3, <2>4 DEF Truth
<1>8. CASE ScanWrite(s) \/ ScanFails(s)
  <2>1. True(kept'[s].entries, been)
    BY <1>3, <1>8 DEF ScanWrite, ScanFails, TypeOK, ScanTypeOK
  <2>2. \A t \in Scans \ {s} : kept'[t] = kept[t]
    BY OtherScans
  <2>3. UNCHANGED <<file, corrupt>> \/ file' = kept[s]
    BY <1>8 DEF ScanWrite, ScanFails, cache
  <2> QED BY <1>1, <2>1, <2>2, <2>3 DEF Truth
<1>9. CASE CallScan(s)
  <2>1. UNCHANGED <<kept, file, corrupt>>
    BY <1>9 DEF CallScan, cache
  <2> QED BY <1>1, <2>1 DEF Truth
<1> QED BY <1>6, <1>7, <1>8, <1>9 DEF ScanStep, ScanProgress

\* So does every step.
LEMMA TruthHolds ==
    ASSUME RoutingInv, Next
    PROVE  Truth'
<1> USE DEF RoutingInv
<1>1. Grows
  BY NextGrows
<1>2. ASSUME UNCHANGED <<file, corrupt, routed, read, kept>>,
             \A m \in Messages : where'[m] \in been'[m] \cup {Gone}
      PROVE  Truth'
  BY <1>1, <1>2, TrueGrows DEF Truth
<1>3. ASSUME NEW m \in Messages, NEW to \in Folders \cup {Gone}, NEW who, Put(m, to, who)
      PROVE  \A k \in Messages : where'[k] \in been'[k] \cup {Gone}
  BY <1>3 DEF Put, Truth, TypeOK
<1>4. ASSUME NEW m \in Messages, Arrive(m) PROVE Truth'
  BY <1>2, <1>3, <1>4, FoldersAssumption DEF Arrive, cache, runVars, scanVars
<1>5. ASSUME NEW m \in Messages, Age(m) PROVE Truth'
  BY <1>2, <1>5 DEF Age, mailbox, runVars, scanVars, Truth
<1>6. ASSUME NEW m \in Messages, NEW to \in Folders \cup {Gone}, OwnerMoves(m, to) PROVE Truth'
  BY <1>2, <1>3, <1>6 DEF OwnerMoves, cache, scanVars
<1> QED BY <1>4, <1>5, <1>6, RunTruth, ScanTruth DEF Next, Step

\* A pass that disposes of a message has carried out the first action of its
\* rule, which is to save.
LEMMA SavedHolds ==
    ASSUME RoutingInv, Next
    PROVE  SavedBeforeDisposed'
<1> USE DEF RoutingInv
<1>1. day' = day /\ Grows
  BY NextGrows DEF Next
<1> DEFINE Saves(m) == \A f \in Folders : Rules[m][f] # <<>> => Head(Rules[m][f]).do = "save"
<1>2. ASSUME NEW m \in Messages, Saves(m), mover[m] \in Runs PROVE m \in saved'
  BY <1>1, <1>2 DEF SavedBeforeDisposed, Grows
<1>3. ASSUME \A m \in Messages : Saves(m) /\ mover'[m] \in Runs => m \in saved'
      PROVE  SavedBeforeDisposed'
  BY <1>1, <1>3 DEF SavedBeforeDisposed, Rules
<1> HIDE DEF Saves
<1>4. CASE \A m \in Messages : mover'[m] = mover[m] \/ mover'[m] \notin Runs
  BY <1>2, <1>3, <1>4
<1>5. ASSUME NEW m \in Messages, NEW to, NEW who \in {"nobody", "owner"}, Put(m, to, who)
      PROVE  SavedBeforeDisposed'
  BY <1>4, <1>5, RunsAssumption DEF Put, TypeOK
<1>6. ASSUME NEW r \in Runs, RunStep(r) \/ Call(r) PROVE SavedBeforeDisposed'
  <2>1. ASSUME step[r] = "apply", Possible(r, Head(todo[r])), Effect(r, Head(todo[r])),
               Head(todo[r]).do \in {"move", "delete"}, Saves(Message(r))
        PROVE  Message(r) \in saved'
    <3> DEFINE acts == Head(batch[r]).acts
               n == Len(acts) - Len(todo[r])
    <3>1. /\ batch[r] # <<>> /\ todo[r] # <<>>
          /\ acts \in Seq(Actions) /\ todo[r] \in Seq(Actions)
          /\ n \in Nat /\ Head(todo[r]) = acts[n + 1]
          /\ \A i \in 1 .. n + 1 : Carried(Message(r), acts[i], been', saved')
      BY <2>1, ApplyIs
    <3>2. OfRule(Message(r), acts)
      BY <3>1, Candidate DEF Batched, Fits, Message
    <3>3. Head(acts).do = "save"
      BY <2>1, <3>2 DEF OfRule, Saves
    <3>4. acts # <<>> /\ Head(acts) = acts[1]
      BY <3>1, <3>2 DEF OfRule
    <3> HIDE DEF acts, n
    <3>5. n # 0
      BY <2>1, <3>1, <3>3, <3>4
    <3>6. Carried(Message(r), acts[1], been', saved')
      BY <3>1, <3>5
    <3> QED BY <3>3, <3>4, <3>6 DEF Carried
  <2>2. CASE UNCHANGED mailbox
    BY <1>4, <2>2 DEF mailbox
  <2>3. CASE ~UNCHANGED mailbox
    <3>1. /\ step[r] = "apply" /\ Possible(r, Head(todo[r])) /\ Effect(r, Head(todo[r]))
          /\ \A k \in Messages :
               \/ mover'[k] = mover[k]
               \/ k = Message(r) /\ Head(todo[r]).do \in {"move", "delete"}
      BY <1>6, <2>3, RunMoves
    <3> QED BY <1>2, <1>3, <2>1, <3>1
  <2> QED BY <2>2, <2>3
<1>7. ASSUME NEW s \in Scans, ScanStep(s) \/ CallScan(s) PROVE SavedBeforeDisposed'
  BY <1>4, <1>7, ScanLeaves DEF mailbox
<1>8. ASSUME NEW m \in Messages, Arrive(m) \/ Age(m) PROVE SavedBeforeDisposed'
  BY <1>4, <1>5, <1>8 DEF Arrive, Age, mailbox
<1>9. ASSUME NEW m \in Messages, NEW to \in Folders \cup {Gone}, OwnerMoves(m, to)
      PROVE  SavedBeforeDisposed'
  BY <1>5, <1>9 DEF OwnerMoves
<1> QED BY <1>6, <1>7, <1>8, <1>9 DEF Next, Step

-----------------------------------------------------------------------------
\* The invariant, and what it gives

\* The start.
LEMMA InitTypes ==
    ASSUME Init
    PROVE  TypeOK
<1>1. /\ where \in [Messages -> Folders \cup {Gone}]
      /\ mover \in [Messages -> Runs \cup {"nobody", "owner"}]
      /\ been \in [Messages -> SUBSET Folders]
      /\ corrupt \in BOOLEAN /\ old \in SUBSET Messages
  BY DEF Init
<1>2. faults \in 0 .. MaxFaults /\ ownerMoves \in 0 .. day.ownerMoves
  BY FaultsAssumption, DayTypes DEF Init
<1>3. file \in TrackingFile
  <2>1. ASSUME NEW f \in Folders
        PROVE  [EmptyFile EXCEPT !.entries = [m \in Messages |-> f]] \in TrackingFile
    BY EmptyTypes DEF TrackingFile, Entries, Labels
  <2> QED BY <2>1, EmptyTypes DEF Init
<1>4. RunTypeOK
  <2>1. <<>> \in Seq(Candidates) /\ <<>> \in Seq(Actions) /\ <<>> \in Seq(Folders)
    OBVIOUS
  <2>2. /\ left \in [Runs -> Seq(Folders)]
        /\ batch \in [Runs -> Seq(Candidates)]
        /\ todo \in [Runs -> Seq(Actions)]
    BY <2>1 DEF Init, RunInit
  <2>3. /\ step \in [Runs -> RunSteps] /\ more \in [Runs -> BOOLEAN]
        /\ current \in SUBSET Runs /\ saved \in SUBSET Messages
        /\ routed \in [Runs -> Entries] /\ read \in [Runs -> TrackingFile]
    BY EmptyTypes DEF Init, RunInit, RunSteps
  <2> QED BY <2>2, <2>3, Batches
<1>5. ScanTypeOK
  BY EmptyTypes DEF Init, ScanInit, ScanTypeOK
<1> QED BY <1>1, <1>2, <1>3, <1>4, <1>5 DEF TypeOK

\* The first invariant holds at the start,
LEMMA InitHolds ==
    ASSUME Init
    PROVE  RoutingInv
<1>1. day \in Days /\ TypeOK
  BY InitTypes DEF Init
<1>2. Started /\ Batched /\ Progress
  BY DEF Init, RunInit, Started, Batched, Progress
<1>3. Truth
  <2>1. \A m \in Messages : where[m] = Gone
    BY DEF Init
  <2>2. ~corrupt => file = EmptyFile
    BY DEF Init
  <2>3. /\ \A r \in Runs : routed[r] = Untracked /\ read[r] = EmptyFile
        /\ \A s \in Scans : kept[s] = EmptyFile
    BY DEF Init, RunInit, ScanInit
  <2> QED BY <2>1, <2>2, <2>3, TrueEmpty DEF Truth
<1>4. SavedBeforeDisposed
  BY RunsAssumption DEF Init, SavedBeforeDisposed
<1> QED BY <1>1, <1>2, <1>3, <1>4 DEF RoutingInv

\* after every step,
LEMMA NextHolds ==
    ASSUME RoutingInv, [Next]_vars
    PROVE  RoutingInv'
<1>1. TypeOK' /\ day' \in Days
  BY NextTypes DEF RoutingInv
<1>2. CASE Next
  BY <1>1, <1>2, StartedHolds, BatchedHolds, ProgressHolds, TruthHolds, SavedHolds DEF RoutingInv
<1>3. CASE UNCHANGED vars
  <2>1. Started' /\ Batched' /\ Progress' /\ Truth' /\ SavedBeforeDisposed'
    BY <1>3 DEF RoutingInv, vars, mailbox, cache, runVars, scanVars, Started, Scanned, Batched, Fits, OfRule,
       Rules, Progress, Done, Carried, Message, Truth, True, SavedBeforeDisposed
  <2> QED BY <1>1, <2>1 DEF RoutingInv
<1> QED BY <1>2, <1>3

\* and always.
LEMMA Invariance == Spec => []RoutingInv
<1>1. Init => RoutingInv
  BY InitHolds
<1>2. RoutingInv /\ [Next]_vars => RoutingInv'
  BY NextHolds
<1> QED BY <1>1, <1>2, PTL DEF Spec

\* Every variable keeps its type: the engine's copies of the cache are caches,
\* and an entry is a folder or one of describeDestination's texts.
THEOREM TypeCorrect == Spec => []TypeOK
<1>1. RoutingInv => TypeOK
  BY DEF RoutingInv
<1> QED BY <1>1, Invariance, PTL

\* The cache never claims a routing that did not happen, whatever overlaps and
\* whatever fails.
THEOREM EntriesAreTrue == Spec => []EntriesTrue
<1>1. RoutingInv => EntriesTrue
  BY DEF RoutingInv, Truth, True, EntriesTrue
<1> QED BY <1>1, Invariance, PTL

\* The engine disposes of no message before its attachments are saved, where
\* its rules save first.
THEOREM SavedFirst == Spec => []SavedBeforeDisposed
<1>1. RoutingInv => SavedBeforeDisposed
  BY DEF RoutingInv
<1> QED BY <1>1, Invariance, PTL

-----------------------------------------------------------------------------
\* Calls that do not overlap

\* A step of a call is one of a call under way.
LEMMA UnderWay ==
    /\ \A r \in Runs : RunStep(r) => step[r] # "idle"
    /\ \A s \in Scans : ScanStep(s) => scan[s] # "idle"
  BY DEF RunStep, RunProgress, ListFolder, CutBatch, Resolve, ResolveFails, Apply, ApplyFails,
     NothingRouted, ReadTracking, WriteTracking, CallFails,
     ScanStep, ScanProgress, ScanRead, Lookup, LookupFails, LookupUnmapped, ScanWrite, ScanFails

\* Calls that may not overlap begin when nothing is under way.
LEMMA OneAtATimeHolds ==
    ASSUME TypeOK, OneAtATime, Next
    PROVE  OneAtATime'
<1>1. day' = day
  BY DEF Next
<1>2. CASE UNCHANGED <<step, scan>>
  BY <1>1, <1>2 DEF OneAtATime, Overlap
<1>3. ASSUME NEW r \in Runs, RunStep(r) \/ ((Overlap \/ Quiet) /\ Call(r)), UNCHANGED scanVars
      PROVE  OneAtATime'
  <2>1. \A q \in Runs \ {r} : step'[q] = step[q]
    BY <1>3, OtherRuns
  <2>2. UNCHANGED scan
    BY <1>3 DEF scanVars
  <2>3. step[r] # "idle" \/ Overlap \/ Quiet
    BY <1>3, UnderWay
  <2> QED BY <1>1, <2>1, <2>2, <2>3 DEF OneAtATime, Overlap, Quiet
<1>4. ASSUME NEW s \in Scans, ScanStep(s) \/ ((Overlap \/ Quiet) /\ CallScan(s)), UNCHANGED runVars
      PROVE  OneAtATime'
  <2>1. \A t \in Scans \ {s} : scan'[t] = scan[t]
    BY <1>4, OtherScans
  <2>2. UNCHANGED step
    BY <1>4 DEF runVars
  <2>3. scan[s] # "idle" \/ Overlap \/ Quiet
    BY <1>4, UnderWay
  <2> QED BY <1>1, <2>1, <2>2, <2>3 DEF OneAtATime, Overlap, Quiet
<1> QED BY <1>2, <1>3, <1>4 DEF Next, Step, Arrive, Age, OwnerMoves, runVars, scanVars

\* A call begins and ends with nothing routed.
LEMMA FreshHolds ==
    ASSUME RoutingInv, Fresh, Next
    PROVE  Fresh'
<1> USE DEF RoutingInv
<1>1. CASE UNCHANGED <<step, routed>>
  BY <1>1 DEF Fresh
<1>2. ASSUME NEW r \in Runs, RunStep(r) \/ Call(r) PROVE Fresh'
  <2>1. \A q \in Runs \ {r} : step'[q] = step[q] /\ routed'[q] = routed[q]
    BY <1>2, OtherRuns
  <2>2. step \in [Runs -> RunSteps] /\ routed \in [Runs -> Entries] /\ more[r] \in BOOLEAN
    BY DEF TypeOK, RunTypeOK
  <2>3. ASSUME NEW at \in {"resolve", "apply", "write"}, Goto(r, at)
        PROVE  step'[r] \notin {"idle", "collect"}
    BY <2>2, <2>3 DEF Goto
  <2>4. ASSUME NEW b \in BOOLEAN, Return(r, b) PROVE routed'[r] = Untracked
    BY <2>2, <2>4 DEF Return
  <2>5. CASE Call(r) \/ ListFolder(r)
    BY <2>5, <2>2, <2>1 DEF Call, ListFolder, Fresh
  <2>6. CASE CutBatch(r) \/ Resolve(r) \/ ResolveFails(r) \/ ApplyFails(r)
    <3>1. Goto(r, "resolve") \/ Goto(r, "apply")
      BY <2>6 DEF CutBatch, Resolve, ResolveFails, ApplyFails, NextMessage
    <3> QED BY <2>1, <2>3, <3>1 DEF Fresh
  <2>7. CASE Apply(r)
    <3>1. Goto(r, "resolve") \/ (step[r] = "apply" /\ UNCHANGED step)
      BY <2>7 DEF Apply, NextMessage
    <3> QED BY <2>1, <2>3, <3>1 DEF Fresh
  <2>8. CASE NothingRouted(r) \/ ReadTracking(r) \/ WriteTracking(r) \/ CallFails(r)
    <3>1. (\E b \in BOOLEAN : Return(r, b)) \/ Goto(r, "write")
      BY <2>2, <2>8 DEF NothingRouted, ReadTracking, WriteTracking, CallFails
    <3> QED BY <2>1, <2>3, <2>4, <3>1 DEF Fresh
  <2> QED BY <1>2, <2>5, <2>6, <2>7, <2>8 DEF RunStep, RunProgress
<1> QED BY <1>1, <1>2 DEF Next, Step, Arrive, Age, OwnerMoves, runVars

\* Of a day on which Graph refuses calls and nothing else fails.
LEMMA NoOtherFault ==
    ASSUME Undisturbed
    PROVE  /\ ~Overlap
           /\ ~Fault("lost") /\ ~Fault("bare") /\ ~Fault("lookup") /\ ~Fault("unmapped")
           /\ ~Fault("unreadable") /\ ~Fault("call")
  BY DEF Undisturbed, Fault

\* Who writes the cache.
LEMMA FileIs ==
    ASSUME TypeOK, Next
    PROVE  \/ UNCHANGED <<file, corrupt>>
           \/ \E r \in Runs : WriteTracking(r) /\ UNCHANGED scanVars
           \/ \E s \in Scans : ScanWrite(s) /\ UNCHANGED runVars
<1>1. ASSUME NEW r \in Runs, RunStep(r) \/ Call(r), UNCHANGED scanVars
      PROVE  UNCHANGED <<file, corrupt>> \/ (WriteTracking(r) /\ UNCHANGED scanVars)
  <2>1. CASE Apply(r) \/ ApplyFails(r)
    <3>1. UNCHANGED cache
      BY <2>1 DEF Apply, ApplyFails
    <3> QED BY <3>1 DEF cache
  <2> QED BY <1>1, <2>1 DEF RunStep, RunProgress, Call, ListFolder, CutBatch, Resolve, ResolveFails,
          NothingRouted, ReadTracking, CallFails, cache
<1>2. ASSUME NEW s \in Scans, ScanStep(s) \/ CallScan(s), UNCHANGED runVars
      PROVE  UNCHANGED <<file, corrupt>> \/ (ScanWrite(s) /\ UNCHANGED runVars)
  BY <1>2 DEF ScanStep, ScanProgress, ScanRead, Lookup, LookupFails, LookupUnmapped, ScanFails, CallScan, cache
<1>3. ASSUME NEW m \in Messages, Arrive(m) \/ Age(m) PROVE UNCHANGED <<file, corrupt>>
  BY <1>3 DEF Arrive, Age, cache
<1>4. ASSUME NEW m \in Messages, NEW to \in Folders \cup {Gone}, OwnerMoves(m, to)
      PROVE  UNCHANGED <<file, corrupt>>
  BY <1>4 DEF OwnerMoves, cache
<1> QED BY <1>1, <1>2, <1>3, <1>4 DEF Next, Step

\* Nobody writes the cache between the read and the write of a pass.
LEMMA ReadIsFileHolds ==
    ASSUME RoutingInv, HistoryInv, Next
    PROVE  ReadIsFile'
<1> USE DEF RoutingInv, HistoryInv
<1>1. day' = day
  BY DEF Next
<1> SUFFICES ASSUME Undisturbed, NEW r \in Runs, step'[r] = "write"
             PROVE  ~corrupt' /\ read'[r] = file'
  BY <1>1 DEF ReadIsFile, Undisturbed, Overlap
<1>2. step \in [Runs -> RunSteps] /\ read \in [Runs -> TrackingFile] /\ more \in [Runs -> BOOLEAN]
  BY DEF TypeOK, RunTypeOK
<1>3. CASE step'[r] = step[r] /\ read'[r] = read[r]
  <2>1. step[r] = "write" /\ ~corrupt /\ read[r] = file
    BY <1>3 DEF ReadIsFile
  <2>2. ASSUME NEW q \in Runs, WriteTracking(q) PROVE FALSE
    <3>1. q = r
      BY <2>1, <2>2, NoOtherFault DEF WriteTracking, OneAtATime
    <3>2. step'[r] \in {"collect", "idle"}
      BY <1>2, <2>2, <3>1 DEF WriteTracking, Return, Goto
    <3> QED BY <3>2
  <2>3. ASSUME NEW s \in Scans, ScanWrite(s) PROVE FALSE
    BY <2>1, <2>3, NoOtherFault DEF ScanWrite, OneAtATime
  <2> QED BY <1>3, <2>1, <2>2, <2>3, FileIs
<1>4. ASSUME RunStep(r) \/ Call(r) PROVE ~corrupt' /\ read'[r] = file'
  <2>1. ASSUME NEW at \in RunSteps \ {"write"}, Goto(r, at) PROVE FALSE
    BY <1>2, <2>1 DEF Goto
  <2>2. ASSUME NEW b \in BOOLEAN, Return(r, b) PROVE FALSE
    BY <2>1, <2>2 DEF Return, RunSteps
  <2>3. CASE ReadTracking(r)
    <3>1. ~corrupt /\ read' = [read EXCEPT ![r] = file] /\ UNCHANGED cache
      BY <2>2, <2>3, NoOtherFault DEF ReadTracking
    <3> QED BY <1>2, <3>1 DEF cache
  <2>4. CASE ListFolder(r)
    BY <1>3, <2>4 DEF ListFolder
  <2>5. CASE Call(r) \/ CutBatch(r) \/ Resolve(r) \/ ResolveFails(r) \/ ApplyFails(r)
    BY <2>1, <2>5 DEF Call, CutBatch, Resolve, ResolveFails, ApplyFails, NextMessage, RunSteps
  <2>6. CASE Apply(r)
    <3>1. Goto(r, "resolve") \/ UNCHANGED step
      BY <2>6 DEF Apply, NextMessage
    <3>2. UNCHANGED read
      BY <2>6 DEF Apply
    <3> QED BY <1>3, <2>1, <3>1, <3>2 DEF RunSteps
  <2>7. CASE NothingRouted(r) \/ WriteTracking(r) \/ CallFails(r)
    BY <1>2, <2>2, <2>7 DEF NothingRouted, WriteTracking, CallFails
  <2> QED BY <1>4, <2>3, <2>4, <2>5, <2>6, <2>7 DEF RunStep, RunProgress
<1>5. ASSUME NEW q \in Runs, RunStep(q) \/ Call(q) PROVE ~corrupt' /\ read'[r] = file'
  <2>1. CASE q = r
    BY <1>4, <1>5, <2>1
  <2>2. CASE q # r
    BY <1>3, <1>5, <2>2, OtherRuns
  <2> QED BY <2>1, <2>2
<1>6. CASE UNCHANGED <<step, read>>
  BY <1>3, <1>6
<1> QED BY <1>5, <1>6 DEF Next, Step, Arrive, Age, OwnerMoves, runVars

\* What becomes of a file that is read: the entries past the retention go.
LEMMA ScanStarts ==
    ASSUME TypeOK, NEW s \in Scans, ScanStep(s) \/ CallScan(s), scan'[s] \in {"lookup", "write"},
           Undisturbed
    PROVE  \/ /\ scan[s] = "read" /\ ~corrupt
              /\ \E g \in TrackingFile, b \in SUBSET Messages, unseen \in BOOLEAN :
                    Scanning(s, file, g, b, unseen)
           \/ /\ scan[s] = "lookup"
              /\ \E m \in toScan[s] : m \in Messages /\ Examine(s, m, Found(m), TRUE)
<1>1. scan \in [Scans -> {"idle", "read", "lookup", "write"}] /\ again[s] \in BOOLEAN
  BY DEF TypeOK, ScanTypeOK
<1>2. ASSUME NEW b \in BOOLEAN, ScanReturns(s, b) PROVE FALSE
  BY <1>1, <1>2 DEF ScanReturns
<1>3. CASE ScanRead(s)
  <2>1. scan[s] = "read" /\ ~corrupt /\ StartScan(s, file)
    BY <1>2, <1>3, NoOtherFault DEF ScanRead
  <2> QED BY <1>2, <2>1, StartScanIs DEF TypeOK
<1>4. CASE ScanWrite(s) \/ ScanFails(s)
  BY <1>1, <1>2, <1>4 DEF ScanWrite, ScanFails
<1>5. CASE CallScan(s)
  BY <1>1, <1>5 DEF CallScan
<1>6. ASSUME NEW m \in Messages, Lookup(s, m) \/ LookupFails(s, m) \/ LookupUnmapped(s, m)
      PROVE  scan[s] = "lookup" /\ m \in toScan[s] /\ Examine(s, m, Found(m), TRUE)
  BY <1>6, NoOtherFault DEF Lookup, LookupFails, LookupUnmapped
<1> QED BY <1>3, <1>4, <1>5, <1>6 DEF ScanStep, ScanProgress

\* A scan keeps the mailbox and the retention as they are.
LEMMA ScanKeeps ==
    ASSUME TypeOK, NEW s \in Scans, ScanStep(s) \/ CallScan(s)
    PROVE  UNCHANGED <<where, mover, been, old>>
  BY ScanTypes

\* A scan drops what it did not find, and a message that was not found does not
\* come back before the scan writes.
LEMMA DropsOnlyLostHolds ==
    ASSUME RoutingInv, HistoryInv, Next
    PROVE  DropsOnlyLost'
<1> USE DEF RoutingInv, HistoryInv
<1>1. day' = day
  BY DEF Next
<1> SUFFICES ASSUME Undisturbed, NEW s \in Scans, scan'[s] \in {"lookup", "write"}
             PROVE  /\ ~corrupt'
                    /\ \A m \in Messages : file'.entries[m] # None /\ kept'[s].entries[m] = None =>
                          where'[m] = Gone \/ m \in old'
  BY <1>1 DEF DropsOnlyLost, Undisturbed, Overlap
<1>2. /\ scan \in [Scans -> {"idle", "read", "lookup", "write"}]
      /\ kept \in [Scans -> TrackingFile] /\ again \in [Scans -> BOOLEAN]
  BY DEF TypeOK, ScanTypeOK
<1>3. ASSUME scan[s] # "idle" PROVE UNCHANGED <<file, corrupt>>
  <2>1. ASSUME NEW r \in Runs, WriteTracking(r) PROVE FALSE
    BY <1>3, <2>1, NoOtherFault DEF WriteTracking, OneAtATime
  <2>2. ASSUME NEW t \in Scans, ScanWrite(t) PROVE FALSE
    <3>1. t = s
      BY <1>3, <2>2, NoOtherFault DEF ScanWrite, OneAtATime
    <3>2. scan'[s] \in {"idle", "read"}
      BY <1>2, <2>2, <3>1 DEF ScanWrite, ScanReturns
    <3> QED BY <3>2
  <2> QED BY <2>1, <2>2, FileIs
<1>4. ASSUME scan'[s] = scan[s], kept'[s] = kept[s], old \subseteq old',
             \A m \in Messages : file.entries[m] # None /\ where[m] = Gone => where'[m] = Gone
      PROVE  /\ ~corrupt'
             /\ \A m \in Messages : file'.entries[m] # None /\ kept'[s].entries[m] = None =>
                   where'[m] = Gone \/ m \in old'
  <2>1. UNCHANGED <<file, corrupt>>
    BY <1>3, <1>4
  <2> QED BY <1>4, <2>1 DEF DropsOnlyLost
<1>5. ASSUME ScanStep(s) \/ CallScan(s)
      PROVE  /\ ~corrupt'
             /\ \A m \in Messages : file'.entries[m] # None /\ kept'[s].entries[m] = None =>
                   where'[m] = Gone \/ m \in old'
  <2>1. UNCHANGED <<where, old>>
    BY <1>5, ScanKeeps
  <2>2. CASE scan[s] = "read" /\ ~corrupt
    <3>1. PICK g \in TrackingFile, b \in SUBSET Messages, unseen \in BOOLEAN :
                Scanning(s, file, g, b, unseen)
      BY <1>5, <2>2, ScanStarts
    <3>2. kept'[s] = g /\ \A m \in Messages : g.entries[m] = IF m \in old THEN None ELSE file.entries[m]
      BY <1>2, <3>1 DEF Scanning
    <3>3. UNCHANGED <<file, corrupt>>
      BY <1>3, <2>2
    <3> QED BY <2>1, <2>2, <3>2, <3>3
  <2>3. CASE scan[s] = "lookup"
    <3>1. PICK m \in Messages : Examine(s, m, Found(m), TRUE)
      BY <1>5, <2>3, ScanStarts
    <3>2. Found(m) \in BOOLEAN /\ TRUE \in BOOLEAN
      BY DEF Found
    <3>3. PICK g \in TrackingFile :
             /\ kept' = [kept EXCEPT ![s] = g]
             /\ g.entries[m] = IF Found(m) THEN where[m] ELSE None
             /\ \A k \in Messages \ {m} : g.entries[k] = kept[s].entries[k]
      <4>1. /\ \E g \in TrackingFile :
                 /\ kept' = [kept EXCEPT ![s] = g]
                 /\ g.entries[m] = IF Found(m) THEN where[m] ELSE None
                 /\ \A k \in Messages \ {m} : g.entries[k] = kept[s].entries[k]
            /\ toScan' = [toScan EXCEPT ![s] = @ \ {m}]
            /\ \/ reported' = reported
               \/ /\ Found(m) /\ where[m] # kept[s].entries[m]
                  /\ reported' = [reported EXCEPT ![s] = @ \cup {m}]
            /\ UNCHANGED <<scan, again>>
        BY <3>1, <3>2, ExamineMapped DEF RoutingInv
      <4> QED BY <4>1
    <3>4. kept'[s] = g
      BY <1>2, <3>3
    <3>5. g.entries[m] = None => where[m] = Gone
      BY <3>3, LabelsAssumption DEF Found, TypeOK
    <3>6. UNCHANGED <<file, corrupt>>
      BY <1>3, <2>3
    <3>7. ~corrupt /\ \A k \in Messages :
             file.entries[k] # None /\ kept[s].entries[k] = None => where[k] = Gone \/ k \in old
      BY <2>3 DEF DropsOnlyLost
    <3> QED BY <2>1, <3>3, <3>4, <3>5, <3>6, <3>7
  <2> QED BY <1>5, <2>2, <2>3, ScanStarts
<1>6. ASSUME NEW t \in Scans, ScanStep(t) \/ CallScan(t), t # s
      PROVE  /\ ~corrupt'
             /\ \A m \in Messages : file'.entries[m] # None /\ kept'[s].entries[m] = None =>
                   where'[m] = Gone \/ m \in old'
  <2>1. scan'[s] = scan[s] /\ kept'[s] = kept[s]
    BY <1>6, OtherScans
  <2>2. UNCHANGED <<where, old>>
    BY <1>6, ScanKeeps
  <2> QED BY <1>4, <2>1, <2>2
<1>7. ASSUME NEW r \in Runs, RunStep(r) \/ ((Overlap \/ Quiet) /\ Call(r)), UNCHANGED scanVars
      PROVE  FALSE
  <2>1. scan[s] # "idle"
    BY <1>7 DEF scanVars
  <2> QED BY <1>7, <2>1, UnderWay, NoOtherFault DEF OneAtATime, Quiet
<1>8. ASSUME NEW m \in Messages, Arrive(m) \/ Age(m)
      PROVE  /\ ~corrupt'
             /\ \A k \in Messages : file'.entries[k] # None /\ kept'[s].entries[k] = None =>
                   where'[k] = Gone \/ k \in old'
  <2>1. UNCHANGED <<scan, kept>> /\ old \subseteq old'
    BY <1>8 DEF Arrive, Age, scanVars, cache
  <2>2. scan[s] \in {"lookup", "write"}
    BY <2>1
  <2>3. True(file.entries, been)
    BY <2>2 DEF Truth, DropsOnlyLost
  <2>4. \A k \in Messages : file.entries[k] # None /\ where[k] = Gone => where'[k] = Gone
    BY <1>8, <2>3 DEF Arrive, Age, Put, mailbox, True, TypeOK
  <2> QED BY <1>4, <2>1, <2>4
<1>9. ASSUME NEW m \in Messages, NEW to \in Folders \cup {Gone}, OwnerMoves(m, to)
      PROVE  /\ ~corrupt'
             /\ \A k \in Messages : file'.entries[k] # None /\ kept'[s].entries[k] = None =>
                   where'[k] = Gone \/ k \in old'
  <2>1. UNCHANGED <<scan, kept, old>>
    BY <1>9 DEF OwnerMoves, scanVars, cache
  <2>2. \A k \in Messages : where[k] = Gone => where'[k] = Gone
    BY <1>9 DEF OwnerMoves, Put, Found, TypeOK
  <2> QED BY <1>4, <2>1, <2>2
<1> QED BY <1>5, <1>6, <1>7, <1>8, <1>9 DEF Next, Step

\* The second invariant is kept,
LEMMA HistoryInvHolds ==
    ASSUME RoutingInv, HistoryInv, [Next]_vars
    PROVE  HistoryInv'
<1>1. CASE Next
  BY <1>1, OneAtATimeHolds, FreshHolds, ReadIsFileHolds, DropsOnlyLostHolds DEF RoutingInv, HistoryInv
<1>2. CASE UNCHANGED vars
  BY <1>2 DEF vars, mailbox, cache, runVars, scanVars, HistoryInv, OneAtATime, Fresh, ReadIsFile,
     DropsOnlyLost, Overlap, Undisturbed
<1> QED BY <1>1, <1>2

\* and holds always.
LEMMA HistoryInvariance == Spec => [](RoutingInv /\ HistoryInv)
<1>1. Init => RoutingInv /\ HistoryInv
  <2>1. ASSUME Init PROVE HistoryInv
    BY <2>1 DEF Init, RunInit, ScanInit, HistoryInv, OneAtATime, Fresh, ReadIsFile, DropsOnlyLost
  <2> QED BY <2>1, InitHolds
<1>2. RoutingInv /\ HistoryInv /\ [Next]_vars => (RoutingInv /\ HistoryInv)'
  BY NextHolds, HistoryInvHolds
<1> QED BY <1>1, <1>2, PTL DEF Spec

\* So no step loses an entry of a message that is still there.
LEMMA Keeps ==
    ASSUME RoutingInv, HistoryInv, [Next]_vars
    PROVE  [Undisturbed => \A m \in Messages :
              file.entries[m] # None /\ file'.entries[m] = None => where[m] = Gone \/ m \in old]_vars
<1> USE DEF RoutingInv, HistoryInv
<1> SUFFICES ASSUME Next, Undisturbed, NEW m \in Messages,
                    file.entries[m] # None, file'.entries[m] = None
             PROVE  where[m] = Gone \/ m \in old
  OBVIOUS
<1>1. CASE UNCHANGED <<file, corrupt>>
  BY <1>1
<1>2. ASSUME NEW r \in Runs, WriteTracking(r) PROVE FALSE
  <2>1. read[r] = file /\ file' = UpsertEntries(read[r], routed[r])
    BY <1>2 DEF WriteTracking, ReadIsFile
  <2>2. read[r] \in TrackingFile /\ routed[r] \in Entries
    BY DEF TypeOK, RunTypeOK
  <2>3. file'.entries[m] = IF routed[r][m] # None THEN routed[r][m] ELSE file.entries[m]
    BY <2>1, <2>2, UpsertIs
  <2> QED BY <2>3
<1>3. ASSUME NEW s \in Scans, ScanWrite(s) PROVE where[m] = Gone \/ m \in old
  BY <1>3 DEF ScanWrite, DropsOnlyLost
<1> QED BY <1>1, <1>2, <1>3, FileIs

\* An undisturbed day loses no entry but those of lost messages and those past
\* the retention.
THEOREM HistoryIsNotLost == Spec => HistoryKept
<1>1. RoutingInv /\ HistoryInv /\ [Next]_vars =>
        [Undisturbed => \A m \in Messages :
           file.entries[m] # None /\ file'.entries[m] = None => where[m] = Gone \/ m \in old]_vars
  BY Keeps
<1> QED BY <1>1, HistoryInvariance, PTL DEF Spec, HistoryKept

-----------------------------------------------------------------------------
\* What the cache and the scan say of the engine's own moves

\* The entry of a rule that ends in a move to a folder it can name.
LEMMA DestinationOfLast ==
    ASSUME NEW acts \in Seq(Actions), acts # <<>>,
           acts[Len(acts)].do = "move",
           \A i \in 1 .. Len(acts) - 1 : acts[i].do \notin {"move", "delete"},
           acts[Len(acts)].to \notin TopLevel \/ \A i \in DOMAIN acts : acts[i].do # "save"
    PROVE  Destination(acts) = acts[Len(acts)].to
<1> DEFINE moves == {i \in DOMAIN acts : acts[i].do = "move"}
           n == Len(acts)
<1>1. n \in Nat \ {0} /\ DOMAIN acts = 1 .. n
  BY EmptySeq
<1>2. moves = {n}
  BY <1>1
<1>3. Min(moves) = n
  BY <1>1, <1>2 DEF Min
<1>4. {i \in DOMAIN acts : acts[i].do = "save"} # {} => acts[n].to \notin TopLevel
  OBVIOUS
<1> HIDE DEF moves, n
<1> QED BY <1>2, <1>3, <1>4 DEF Destination, moves, n

\* Attributed is kept.
LEMMA AttributedHolds ==
    ASSUME RoutingInv, Attributed, Next
    PROVE  Attributed'
<1> USE DEF RoutingInv
<1>1. Grows
  BY NextGrows
<1>2. CASE UNCHANGED <<where, mover>>
  BY <1>1, <1>2 DEF Attributed, OfTheEngine, Grows
<1>3. ASSUME NEW m \in Messages, NEW to, Put(m, to, "owner"), been[m] # {} PROVE Attributed'
  BY <1>1, <1>3, RunsAssumption DEF Put, Attributed, OfTheEngine, Grows, TypeOK
<1>4. ASSUME NEW m \in Messages, NEW to, Put(m, to, "nobody") PROVE Attributed'
  BY <1>1, <1>4, RunsAssumption DEF Put, Attributed, OfTheEngine, Grows, TypeOK
<1>5. ASSUME NEW r \in Runs, RunStep(r) \/ Call(r) PROVE Attributed'
  <2>1. CASE UNCHANGED mailbox
    BY <1>2, <2>1 DEF mailbox
  <2>2. CASE ~UNCHANGED mailbox
    <3>1. \A k \in Messages :
             \/ where'[k] = where[k] /\ mover'[k] = mover[k]
             \/ mover'[k] = r /\ where'[k] \in been'[k]
      BY <1>5, <2>2, RunMoves
    <3>2. been' \in [Messages -> SUBSET Folders]
      BY <1>5, RunTypes
    <3> QED BY <1>1, <3>1, <3>2, LabelsAssumption DEF Attributed, OfTheEngine, Grows
  <2> QED BY <2>1, <2>2
<1>6. ASSUME NEW m \in Messages, NEW to \in Folders \cup {Gone}, OwnerMoves(m, to) PROVE Attributed'
  <2>1. been[m] # {}
    BY <1>6 DEF OwnerMoves, Found, Truth
  <2> QED BY <1>3, <1>6, <2>1 DEF OwnerMoves
<1>7. ASSUME NEW m \in Messages, Arrive(m) \/ Age(m) PROVE Attributed'
  BY <1>2, <1>4, <1>7 DEF Arrive, Age, mailbox
<1>8. ASSUME NEW s \in Scans, ScanStep(s) \/ CallScan(s) PROVE Attributed'
  BY <1>2, <1>8, ScanKeeps
<1> QED BY <1>5, <1>6, <1>7, <1>8 DEF Next, Step

\* The cache that an undisturbed day starts with stays readable, or is never read.
LEMMA TidyStays ==
    ASSUME RoutingInv, HistoryInv, Next, Tidy'
    PROVE  Tidy
<1> USE DEF RoutingInv, HistoryInv
<1>1. Attributable
  BY DEF Next, Tidy, Attributable, Undisturbed, Overlap, EndsInMove, Rules
<1>2. ~corrupt
  BY <1>1, FileIs DEF Tidy, Attributable, ReadIsFile, DropsOnlyLost, WriteTracking, ScanWrite
<1> QED BY <1>1, <1>2 DEF Tidy

\* The place of an action of such a rule: a move if it is the last, none else.
LEMMA ActionOfSuchRule ==
    ASSUME RoutingInv, Attributable, NEW r \in Runs, step[r] = "apply",
           Possible(r, Head(todo[r])), Effect(r, Head(todo[r]))
    PROVE  LET acts == Head(batch[r]).acts
               action == Head(todo[r])
           IN  /\ Message(r) \in Messages
               /\ Len(todo[r]) # 1 => action.do \notin {"move", "delete"}
               /\ Len(todo[r]) = 1 =>
                    action.do = "move" /\ action.to \in Folders /\ Destination(acts) = action.to
<1> USE DEF RoutingInv
<1> DEFINE acts == Head(batch[r]).acts
           n == Len(acts) - Len(todo[r])
           action == Head(todo[r])
<1>1. /\ acts \in Seq(Actions) /\ todo[r] \in Seq(Actions) /\ todo[r] # <<>> /\ batch[r] # <<>>
      /\ n \in Nat /\ action = acts[n + 1] /\ action \in Actions
      /\ Message(r) \in Messages
  BY ApplyIs, Candidate
<1>2. OfRule(Message(r), acts)
  BY <1>1, Candidate DEF Batched, Fits, Message
<1>3. /\ acts # <<>> /\ acts[Len(acts)].do = "move"
      /\ \A i \in 1 .. Len(acts) - 1 : acts[i].do \notin {"move", "delete"}
      /\ acts[Len(acts)].to \notin TopLevel \/ \A i \in DOMAIN acts : acts[i].do # "save"
  BY <1>1, <1>2 DEF OfRule, Attributable, EndsInMove
<1>4. Destination(acts) = acts[Len(acts)].to
  BY <1>1, <1>3, DestinationOfLast
<1> HIDE DEF acts, action
<1>5. Len(todo[r]) \in Nat \ {0} /\ Len(acts) \in Nat
  BY <1>1, EmptySeq
<1>6. ASSUME Len(todo[r]) = 1
      PROVE  action.do = "move" /\ action.to \in Folders /\ Destination(acts) = action.to
  <2>1. n + 1 = Len(acts)
    BY <1>5, <1>6
  <2>2. action = acts[Len(acts)]
    BY <1>1, <2>1, Zenon
  <2> QED BY <1>3, <1>4, <2>2 DEF Possible, action
<1>7. ASSUME Len(todo[r]) # 1
      PROVE  action.do \notin {"move", "delete"}
  <2>1. \A x \in Nat, y \in Nat \ {0} :
           x - y \in Nat /\ y # 1 => x - y + 1 \in 1 .. x - 1
    OBVIOUS
  <2>2. n + 1 \in 1 .. Len(acts) - 1
    BY <1>1, <1>5, <1>7, <2>1, Zenon
  <2> QED BY <1>1, <1>3, <2>2
<1> QED BY <1>1, <1>6, <1>7 DEF acts, action

\* The last action moves the message, and the entry names where.
LEMMA ApplyRecords ==
    ASSUME RoutingInv, Attributable, NEW r \in Runs, Apply(r), Len(todo[r]) = 1
    PROVE  /\ Message(r) \in Messages
           /\ mover'[Message(r)] = r
           /\ routed' = [routed EXCEPT ![r][Message(r)] = where'[Message(r)]]
           /\ where'[Message(r)] # None
           /\ \A k \in Messages \ {Message(r)} : where'[k] = where[k] /\ mover'[k] = mover[k]
           /\ UNCHANGED cache
<1> USE DEF RoutingInv
<1> DEFINE acts == Head(batch[r]).acts
           action == Head(todo[r])
<1>1. step[r] = "apply" /\ Possible(r, action) /\ Effect(r, action)
  BY DEF Apply
<1>2. NextMessage(r, Destination(acts)) /\ UNCHANGED cache
  BY DEF Apply
<1>3. /\ Message(r) \in Messages /\ action.do = "move" /\ action.to \in Folders
      /\ Destination(acts) = action.to
  BY <1>1, ActionOfSuchRule
<1> HIDE DEF acts, action
<1>4. Put(Message(r), action.to, r)
  BY <1>1, <1>3 DEF Effect
<1>5. /\ mover'[Message(r)] = r /\ where'[Message(r)] = action.to
      /\ \A k \in Messages \ {Message(r)} : where'[k] = where[k] /\ mover'[k] = mover[k]
  BY <1>3, <1>4 DEF Put, TypeOK
<1>6. action.to # None
  BY <1>3, LabelsAssumption
<1> QED BY <1>2, <1>3, <1>5, <1>6 DEF NextMessage

\* Every other step of a pass, but its write, leaves what the entries are about.
LEMMA RunQuietly ==
    ASSUME RoutingInv, HistoryInv, Tidy, NEW r \in Runs, RunStep(r),
           ~WriteTracking(r), ~(Apply(r) /\ Len(todo[r]) = 1)
    PROVE  UNCHANGED <<where, mover, file, old>> /\ routed'[r] = routed[r]
<1> USE DEF RoutingInv, HistoryInv
<1>1. Undisturbed /\ Attributable /\ ~corrupt
  BY DEF Tidy, Attributable
<1>2. routed \in [Runs -> Entries]
  BY DEF TypeOK, RunTypeOK
<1>3. ASSUME batch[r] # <<>>, NextMessage(r, None) PROVE routed'[r] = routed[r]
  BY <1>2, <1>3, Candidate DEF NextMessage, Entries
<1>4. CASE ListFolder(r) \/ CutBatch(r) \/ Resolve(r)
  BY <1>4 DEF ListFolder, CutBatch, Resolve, mailbox, cache
<1>5. CASE ResolveFails(r)
  BY <1>3, <1>5 DEF ResolveFails, mailbox, cache
<1>6. CASE Apply(r)
  <2>1. step[r] = "apply" /\ Possible(r, Head(todo[r])) /\ Effect(r, Head(todo[r]))
    BY <1>6 DEF Apply
  <2>2. Len(todo[r]) # 1 /\ UNCHANGED routed /\ UNCHANGED cache
    BY <1>6 DEF Apply
  <2>3. Head(todo[r]).do \notin {"move", "delete"}
    BY <1>1, <2>1, <2>2, ActionOfSuchRule
  <2>4. UNCHANGED mailbox
    BY <2>1, <2>3 DEF Effect
  <2> QED BY <2>2, <2>4 DEF mailbox, cache
<1>7. CASE ApplyFails(r)
  <2>1. batch[r] # <<>> /\ NextMessage(r, None) /\ UNCHANGED cache
    BY <1>7 DEF ApplyFails, Progress
  <2>2. UNCHANGED mailbox
    BY <1>1, <1>7, NoOtherFault, Zenon DEF ApplyFails, mailbox
  <2> QED BY <1>3, <2>1, <2>2 DEF mailbox, cache
<1>8. CASE NothingRouted(r)
  BY <1>2, <1>8 DEF NothingRouted, Return, mailbox, cache
<1>9. CASE ReadTracking(r)
  BY <1>1, <1>9, NoOtherFault DEF ReadTracking, mailbox, cache
<1>10. ~CallFails(r)
  BY <1>1, NoOtherFault DEF CallFails
<1> QED BY <1>4, <1>5, <1>6, <1>7, <1>8, <1>9, <1>10 DEF RunStep, RunProgress

\* The other passes have nothing routed, and no scan is under way.
LEMMA PassAlone ==
    ASSUME RoutingInv, HistoryInv, Attributable, NEW r \in Runs, RunStep(r)
    PROVE  /\ \A q \in Runs \ {r} : routed[q] = Untracked /\ routed'[q] = Untracked
           /\ \A s \in Scans : scan[s] = "idle"
<1>1. step[r] # "idle" /\ ~Overlap
  BY UnderWay, NoOtherFault DEF Attributable
<1>2. \A q \in Runs \ {r} : step[q] = "idle" /\ routed'[q] = routed[q]
  BY <1>1, OtherRuns DEF HistoryInv, OneAtATime, RoutingInv
<1> QED BY <1>1, <1>2 DEF HistoryInv, OneAtATime, Fresh

\* No pass is under way, and no other scan.
LEMMA ScanAlone ==
    ASSUME RoutingInv, HistoryInv, Attributable, NEW s \in Scans, ScanStep(s)
    PROVE  /\ \A r \in Runs : routed[r] = Untracked
           /\ \A t \in Scans \ {s} : scan[t] = "idle" /\ scan'[t] = "idle"
<1>1. scan[s] # "idle" /\ ~Overlap
  BY UnderWay, NoOtherFault DEF Attributable
<1>2. \A t \in Scans \ {s} : scan'[t] = scan[t]
  BY OtherScans DEF RoutingInv
<1> QED BY <1>1, <1>2 DEF HistoryInv, OneAtATime, Fresh

\* A step of a pass keeps what the entries say: its write carries the entries
\* of its moves over to the cache.
LEMMA RunRecords ==
    ASSUME RoutingInv, HistoryInv, RerouteInv, Tidy, NEW r \in Runs, RunStep(r),
           NEW m \in Messages
    PROVE  Recorded(m)'
<1> USE DEF RoutingInv, HistoryInv, RerouteInv
<1>1. Undisturbed /\ Attributable /\ ~corrupt
  BY DEF Tidy, Attributable
<1>2. \A q \in Runs \ {r} : routed[q] = Untracked /\ routed'[q] = Untracked
  BY <1>1, PassAlone
<1>3. Untracked[m] = None
  BY DEF Untracked
<1>4. Recorded(m)
  BY DEF RoutedEntries, Recorded
<1>5. /\ routed \in [Runs -> Entries] /\ routed[r] \in Entries /\ read[r] \in TrackingFile
      /\ more[r] \in BOOLEAN
  BY DEF TypeOK, RunTypeOK
<1>6. CASE WriteTracking(r)
  <2>1. /\ file' = UpsertEntries(file, routed[r])
        /\ old' = {k \in old : routed[r][k] = None}
        /\ UNCHANGED <<where, mover>>
    BY <1>1, <1>6 DEF WriteTracking, ReadIsFile, mailbox
  <2>2. file'.entries[m] = IF routed[r][m] # None THEN routed[r][m] ELSE file.entries[m]
    BY <1>5, <2>1, UpsertIs DEF TypeOK
  <2>3. routed'[r] = Untracked
    BY <1>5, <1>6 DEF WriteTracking, Return
  <2>4. \A q \in Runs : routed'[q][m] = None
    BY <1>2, <1>3, <2>3
  <2>5. \A q \in Runs \ {r} : routed[q][m] = None
    BY <1>2, <1>3
  <2> QED BY <1>4, <2>1, <2>2, <2>4, <2>5 DEF Recorded, OfTheEngine
<1>7. CASE Apply(r) /\ Len(todo[r]) = 1
  <2> DEFINE k == Message(r)
  <2>1. /\ k \in Messages /\ mover'[k] = r
        /\ routed' = [routed EXCEPT ![r][k] = where'[k]]
        /\ where'[k] # None
        /\ \A l \in Messages \ {k} : where'[l] = where[l] /\ mover'[l] = mover[l]
        /\ UNCHANGED <<file, old>>
    BY <1>1, <1>7, ApplyRecords DEF cache
  <2> HIDE DEF k
  <2>2. \A l \in Messages : routed'[r][l] = IF l = k THEN where'[k] ELSE routed[r][l]
    BY <1>5, <2>1 DEF Entries
  <2>3. r # "nobody"
    BY RunsAssumption
  <2>4. CASE m = k
    <3>1. routed'[r][m] = where'[m] /\ routed'[r][m] # None /\ mover'[m] = r
      BY <2>1, <2>2, <2>4
    <3>2. \A q \in Runs \ {r} : routed'[q][m] = None
      BY <1>2, <1>3
    <3> QED BY <2>3, <3>1, <3>2 DEF Recorded, OfTheEngine
  <2>5. CASE m # k
    <3>1. /\ where'[m] = where[m] /\ mover'[m] = mover[m]
          /\ \A q \in Runs : routed'[q][m] = routed[q][m]
      BY <1>2, <2>1, <2>2, <2>5
    <3> QED BY <1>4, <2>1, <3>1 DEF Recorded, OfTheEngine
  <2> QED BY <2>4, <2>5
<1>8. CASE ~WriteTracking(r) /\ ~(Apply(r) /\ Len(todo[r]) = 1)
  <2>1. UNCHANGED <<where, mover, file, old>> /\ routed'[r] = routed[r]
    BY <1>8, RunQuietly
  <2>2. \A q \in Runs : routed'[q] = routed[q]
    BY <1>2, <2>1
  <2> QED BY <1>4, <2>1, <2>2 DEF Recorded, OfTheEngine
<1> QED BY <1>6, <1>7, <1>8

\* Every step does.
LEMMA RoutedEntriesHolds ==
    ASSUME RoutingInv, HistoryInv, RerouteInv, Next
    PROVE  RoutedEntries'
<1> USE DEF RoutingInv, HistoryInv, RerouteInv
<1> SUFFICES ASSUME Tidy', NEW m \in Messages PROVE Recorded(m)'
  BY DEF RoutedEntries, Recorded
<1>1. Tidy
  BY TidyStays
<1>2. Undisturbed /\ Attributable /\ ~corrupt
  BY <1>1 DEF Tidy, Attributable
<1>3. Recorded(m)
  BY <1>1 DEF RoutedEntries, Recorded
<1>4. CASE UNCHANGED <<where, mover, file, old, routed>>
  BY <1>3, <1>4 DEF Recorded, OfTheEngine
<1>5. ASSUME NEW r \in Runs, RunStep(r) PROVE Recorded(m)'
  BY <1>1, <1>5, RunRecords
<1>6. ASSUME NEW r \in Runs, Call(r) PROVE Recorded(m)'
  BY <1>4, <1>6 DEF Call, mailbox, cache
<1>7. ASSUME NEW s \in Scans, ScanStep(s) \/ CallScan(s), UNCHANGED runVars PROVE Recorded(m)'
  <2>1. UNCHANGED <<where, mover, old, routed>>
    BY <1>7, ScanKeeps DEF runVars
  <2>2. CASE UNCHANGED file
    BY <1>4, <2>1, <2>2
  <2>3. CASE ScanWrite(s)
    <3>1. file' = kept[s] /\ toScan[s] = {} /\ scan[s] \in {"lookup", "write"} /\ ScanStep(s)
      BY <2>3 DEF ScanWrite, ScanStep, ScanProgress
    <3>2. \A r \in Runs : routed[r][m] = None
      BY <1>2, <3>1, ScanAlone DEF Untracked
    <3>3. /\ kept[s].entries[m] # None => mover[m] # "nobody"
          /\ OfTheEngine(m) /\ m \notin old => kept[s].entries[m] = where[m]
      BY <1>1, <3>1 DEF ScannedEntries, Examined
    <3> QED BY <2>1, <3>1, <3>2, <3>3 DEF Recorded, OfTheEngine
  <2> QED BY <1>7, <2>2, <2>3 DEF ScanStep, ScanProgress, ScanRead, Lookup, LookupFails, LookupUnmapped, ScanFails,
          CallScan, cache
<1>8. ASSUME NEW k \in Messages, Arrive(k) PROVE Recorded(m)'
  <2>1. been[k] = {} /\ Put(k, Inbox, "nobody") /\ UNCHANGED <<file, old, routed>>
    BY <1>8 DEF Arrive, cache, runVars
  <2>2. CASE m = k
    <3>1. file.entries[m] = None /\ \A r \in Runs : routed[r][m] = None
      BY <1>2, <2>1, <2>2 DEF Truth, True
    <3>2. mover'[m] = "nobody"
      BY <2>1, <2>2 DEF Put, TypeOK
    <3> QED BY <2>1, <3>1, <3>2, RunsAssumption DEF Recorded, OfTheEngine
  <2>3. CASE m # k
    <3>1. where'[m] = where[m] /\ mover'[m] = mover[m]
      BY <2>1, <2>3 DEF Put, TypeOK
    <3> QED BY <1>3, <2>1, <3>1 DEF Recorded, OfTheEngine
  <2> QED BY <2>2, <2>3
<1>9. ASSUME NEW k \in Messages, Age(k) PROVE Recorded(m)'
  <2>1. UNCHANGED <<where, mover, file, routed>> /\ old \subseteq old'
    BY <1>9 DEF Age, mailbox, runVars
  <2> QED BY <1>3, <2>1 DEF Recorded, OfTheEngine
<1>10. ASSUME NEW k \in Messages, NEW to \in Folders \cup {Gone}, OwnerMoves(k, to)
       PROVE  Recorded(m)'
  <2>1. Put(k, to, "owner") /\ UNCHANGED <<file, old, routed>>
    BY <1>10 DEF OwnerMoves, cache
  <2>2. CASE m = k
    <3>1. mover'[m] = "owner"
      BY <2>1, <2>2 DEF Put, TypeOK
    <3> QED BY <3>1, RunsAssumption DEF Recorded, OfTheEngine
  <2>3. CASE m # k
    <3>1. where'[m] = where[m] /\ mover'[m] = mover[m]
      BY <2>1, <2>3 DEF Put, TypeOK
    <3> QED BY <1>3, <2>1, <3>1 DEF Recorded, OfTheEngine
  <2> QED BY <2>2, <2>3
<1> QED BY <1>5, <1>6, <1>7, <1>8, <1>9, <1>10 DEF Next, Step

\* A step of a scan: what it reports, the engine did not move last.
LEMMA ScanExamines ==
    ASSUME RoutingInv, HistoryInv, RerouteInv, Tidy, NEW s \in Scans, ScanStep(s),
           NEW m \in Messages
    PROVE  Examined(s, m)' /\ (m \in reported'[s] => mover'[m] = "owner")
<1> USE DEF RoutingInv, HistoryInv, RerouteInv
<1>1. Undisturbed /\ Attributable /\ ~corrupt
  BY DEF Tidy, Attributable
<1>2. UNCHANGED <<where, mover, been, old>>
  BY ScanKeeps
<1>3. Examined(s, m) /\ (m \in reported[s] => mover[m] = "owner")
  BY <1>1 DEF ScannedEntries, Examined, RerouteIsManual
<1>4. /\ scan \in [Scans -> {"idle", "read", "lookup", "write"}]
      /\ kept \in [Scans -> TrackingFile] /\ again \in [Scans -> BOOLEAN]
      /\ toScan \in [Scans -> SUBSET Messages]
      /\ reported \in [Scans -> SUBSET Messages]
  BY DEF TypeOK, ScanTypeOK
<1>5. ASSUME NEW b \in BOOLEAN, ScanReturns(s, b)
      PROVE  Examined(s, m)' /\ (m \in reported'[s] => mover'[m] = "owner")
  <2>1. scan'[s] \in {"read", "idle"} /\ toScan'[s] = {} /\ reported'[s] = {}
    BY <1>4, <1>5 DEF ScanReturns
  <2> QED BY <2>1 DEF Examined
<1>6. CASE scan'[s] \in {"lookup", "write"} /\ scan[s] = "read"
  <2>1. PICK g \in TrackingFile, b \in SUBSET Messages, unseen \in BOOLEAN :
              Scanning(s, file, g, b, unseen)
    BY <1>1, <1>6, ScanStarts
  <2>2. \A r \in Runs : routed[r][m] = None
    BY <1>1, ScanAlone DEF Untracked
  <2>3. /\ file.entries[m] # None => mover[m] # "nobody"
        /\ OfTheEngine(m) /\ m \notin old => file.entries[m] = where[m]
    BY <2>2 DEF RoutedEntries, Recorded
  <2>4. kept'[s] = g /\ g.entries[m] = IF m \in old THEN None ELSE file.entries[m]
    BY <1>4, <2>1 DEF Scanning
  <2>5. m \notin toScan[s]
    BY <1>3, <1>6 DEF Examined
  <2>6. m \in toScan'[s] => g.entries[m] # None /\ scan'[s] = "lookup"
    BY <1>4, <2>1, <2>5 DEF Scanning
  <2>7. reported' = reported /\ m \notin reported[s]
    BY <1>6, <2>1 DEF Scanning, Reporting
  <2> QED BY <1>2, <1>3, <2>3, <2>4, <2>6, <2>7 DEF Examined, OfTheEngine
<1>7. CASE scan'[s] \in {"lookup", "write"} /\ scan[s] = "lookup"
  <2>1. PICK k \in toScan[s] : k \in Messages /\ Examine(s, k, Found(k), TRUE)
    BY <1>1, <1>7, ScanStarts
  <2>2. Found(k) \in BOOLEAN /\ TRUE \in BOOLEAN /\ k \in Messages
    BY <2>1 DEF Found
  <2>3. /\ \E g \in TrackingFile :
             /\ kept' = [kept EXCEPT ![s] = g]
             /\ g.entries[k] = IF Found(k) THEN where[k] ELSE None
             /\ \A l \in Messages \ {k} : g.entries[l] = kept[s].entries[l]
        /\ toScan' = [toScan EXCEPT ![s] = @ \ {k}]
        /\ \/ reported' = reported
           \/ /\ Found(k) /\ where[k] # kept[s].entries[k]
              /\ reported' = [reported EXCEPT ![s] = @ \cup {k}]
        /\ UNCHANGED <<scan, again>>
    BY <2>1, <2>2, ExamineMapped
  <2>4. /\ kept'[s].entries[k] = IF Found(k) THEN where[k] ELSE None
        /\ \A l \in Messages \ {k} : kept'[s].entries[l] = kept[s].entries[l]
    BY <1>4, <2>3
  <2>5. toScan'[s] = toScan[s] \ {k} /\ scan' = scan
    BY <1>4, <2>3
  <2>6. /\ kept[s].entries[k] # None /\ mover[k] # "nobody"
        /\ OfTheEngine(k) => kept[s].entries[k] = where[k]
    BY <1>7, <2>1, <2>2 DEF ScannedEntries, Examined
  <2>7. OfTheEngine(k) => Found(k)
    BY <2>2, <2>6 DEF Attributed, Found
  <2>8. Examined(s, m)'
    <3>1. CASE m = k
      BY <1>2, <1>7, <2>4, <2>5, <2>6, <2>7, <3>1 DEF Examined, OfTheEngine
    <3>2. CASE m # k
      BY <1>2, <1>3, <1>7, <2>4, <2>5, <3>2 DEF Examined, OfTheEngine
    <3> QED BY <3>1, <3>2
  <2>9. m \in reported'[s] => mover'[m] = "owner"
    <3>1. CASE reported' = reported
      BY <1>2, <1>3, <3>1
    <3>2. CASE /\ where[k] # kept[s].entries[k]
               /\ reported' = [reported EXCEPT ![s] = @ \cup {k}]
      <4>1. mover[k] = "owner"
        BY <2>2, <2>6, <3>2 DEF OfTheEngine, TypeOK
      <4>2. reported'[s] = reported[s] \cup {k}
        BY <1>4, <3>2
      <4> QED BY <1>2, <1>3, <4>1, <4>2
    <3> QED BY <2>3, <3>1, <3>2
  <2> QED BY <2>8, <2>9
<1>8. CASE scan'[s] \notin {"lookup", "write"}
  <2>1. ASSUME NEW f \in TrackingFile, StartScan(s, f) PROVE ScanReturns(s, FALSE)
    <3>1. ASSUME NEW g, NEW b, NEW unseen, Scanning(s, f, g, b, unseen) PROVE FALSE
      BY <1>4, <1>8, <3>1 DEF Scanning
    <3> QED BY <2>1, <3>1, StartScanIs
  <2>2. CASE ScanRead(s)
    BY <1>5, <2>1, <2>2, EmptyTypes DEF ScanRead, TypeOK
  <2>3. CASE ScanWrite(s) \/ ScanFails(s)
    BY <1>4, <1>5, <2>3 DEF ScanWrite, ScanFails
  <2>4. ASSUME NEW k \in Messages, Lookup(s, k) \/ LookupFails(s, k) \/ LookupUnmapped(s, k) PROVE FALSE
    <3>1. scan[s] = "lookup" /\ UNCHANGED scan
      BY <2>4 DEF Lookup, LookupFails, LookupUnmapped, Examine
    <3> QED BY <1>8, <3>1
  <2> QED BY <2>2, <2>3, <2>4 DEF ScanStep, ScanProgress
<1>9. scan'[s] \in {"lookup", "write"} => scan[s] \in {"read", "lookup"}
  BY <1>1, ScanStarts
<1> QED BY <1>6, <1>7, <1>8, <1>9

\* Every step keeps what the scans are going to write.
LEMMA ScannedHolds ==
    ASSUME RoutingInv, HistoryInv, RerouteInv, Next, Tidy', NEW s \in Scans, NEW m \in Messages
    PROVE  Examined(s, m)' /\ (m \in reported'[s] => mover'[m] = "owner")
<1> USE DEF RoutingInv, HistoryInv, RerouteInv
<1>1. Tidy
  BY TidyStays
<1>2. Undisturbed /\ Attributable /\ ~corrupt
  BY <1>1 DEF Tidy, Attributable
<1>3. Examined(s, m) /\ (m \in reported[s] => mover[m] = "owner")
  BY <1>1, <1>2 DEF ScannedEntries, Examined, RerouteIsManual
<1>4. ASSUME scan'[s] = scan[s], kept'[s] = kept[s], toScan'[s] = toScan[s], reported'[s] = reported[s],
             where'[m] = where[m], mover'[m] = mover[m], m \in old => m \in old'
      PROVE  Examined(s, m)' /\ (m \in reported'[s] => mover'[m] = "owner")
  BY <1>3, <1>4 DEF Examined, OfTheEngine
<1>5. ASSUME scan[s] \notin {"lookup", "write"}, UNCHANGED <<scan, kept, toScan, reported>>,
             m \in reported[s] => mover'[m] = "owner"
      PROVE  Examined(s, m)' /\ (m \in reported'[s] => mover'[m] = "owner")
  BY <1>3, <1>5 DEF Examined
<1>6. ASSUME NEW r \in Runs, RunStep(r), UNCHANGED scanVars
      PROVE  Examined(s, m)' /\ (m \in reported'[s] => mover'[m] = "owner")
  <2>1. scan[s] = "idle"
    BY <1>2, <1>6, PassAlone
  <2>2. m \notin reported[s]
    BY <2>1 DEF Reporting
  <2> QED BY <1>5, <1>6, <2>1, <2>2 DEF scanVars
<1>7. ASSUME NEW r \in Runs, Call(r), UNCHANGED scanVars
      PROVE  Examined(s, m)' /\ (m \in reported'[s] => mover'[m] = "owner")
  BY <1>4, <1>7 DEF Call, scanVars, mailbox, cache
<1>8. ASSUME NEW t \in Scans, ScanStep(t)
      PROVE  Examined(s, m)' /\ (m \in reported'[s] => mover'[m] = "owner")
  <2>1. CASE t = s
    BY <1>1, <1>8, <2>1, ScanExamines
  <2>2. CASE t # s
    BY <1>4, <1>8, <2>2, OtherScans, ScanKeeps
  <2> QED BY <2>1, <2>2
<1>9. ASSUME NEW t \in Scans, CallScan(t)
      PROVE  Examined(s, m)' /\ (m \in reported'[s] => mover'[m] = "owner")
  <2>1. UNCHANGED <<kept, toScan, reported, where, mover, old>>
    BY <1>9 DEF CallScan, mailbox, cache
  <2>2. scan'[s] = scan[s] \/ (scan[s] = "idle" /\ scan'[s] = "read")
    BY <1>9 DEF CallScan, TypeOK, ScanTypeOK
  <2> QED BY <1>3, <1>4, <2>1, <2>2 DEF Examined
<1>10. ASSUME NEW k \in Messages, Arrive(k)
       PROVE  Examined(s, m)' /\ (m \in reported'[s] => mover'[m] = "owner")
  <2>1. been[k] = {} /\ Put(k, Inbox, "nobody")
        /\ UNCHANGED <<file, old, scan, kept, toScan, reported>>
    BY <1>10 DEF Arrive, cache, scanVars
  <2>2. CASE m = k
    <3>1. kept[s].entries[m] = None
      BY <2>1, <2>2 DEF Truth, True
    <3>2. mover'[m] = "nobody" /\ "nobody" \notin Runs
      BY <2>1, <2>2, RunsAssumption DEF Put, TypeOK
    <3>3. m \notin reported[s]
      BY <1>3, <2>1, <2>2 DEF Attributed
    <3> QED BY <1>3, <2>1, <3>1, <3>2, <3>3 DEF Examined, OfTheEngine
  <2>3. CASE m # k
    BY <1>4, <2>1, <2>3 DEF Put, TypeOK
  <2> QED BY <2>2, <2>3
<1>11. ASSUME NEW k \in Messages, Age(k)
       PROVE  Examined(s, m)' /\ (m \in reported'[s] => mover'[m] = "owner")
  BY <1>4, <1>11 DEF Age, mailbox, scanVars
<1>12. ASSUME NEW k \in Messages, NEW to \in Folders \cup {Gone}, OwnerMoves(k, to)
       PROVE  Examined(s, m)' /\ (m \in reported'[s] => mover'[m] = "owner")
  <2>1. Put(k, to, "owner") /\ UNCHANGED <<old, scan, kept, toScan, reported>>
    BY <1>12 DEF OwnerMoves, cache, scanVars
  <2>2. CASE m = k
    <3>1. mover'[m] = "owner" /\ "owner" \notin Runs
      BY <2>1, <2>2, RunsAssumption DEF Put, TypeOK
    <3> QED BY <1>3, <2>1, <3>1 DEF Examined, OfTheEngine
  <2>3. CASE m # k
    BY <1>4, <2>1, <2>3 DEF Put, TypeOK
  <2> QED BY <2>2, <2>3
<1> QED BY <1>6, <1>7, <1>8, <1>9, <1>10, <1>11, <1>12 DEF Next, Step

\* A call begins with nothing reported.
LEMMA ReportingHolds ==
    ASSUME TypeOK, Reporting, Next
    PROVE  Reporting'
<1>1. /\ scan \in [Scans -> {"idle", "read", "lookup", "write"}]
      /\ reported \in [Scans -> SUBSET Messages] /\ again \in [Scans -> BOOLEAN]
  BY DEF TypeOK, ScanTypeOK
<1>2. CASE UNCHANGED <<scan, reported>>
  BY <1>2 DEF Reporting
<1>3. ASSUME NEW s \in Scans, ScanStep(s) \/ CallScan(s) PROVE Reporting'
  <2>1. \A t \in Scans \ {s} : scan'[t] = scan[t] /\ reported'[t] = reported[t]
    BY <1>3, OtherScans
  <2>2. ASSUME NEW b \in BOOLEAN, ScanReturns(s, b) PROVE reported'[s] = {}
    BY <1>1, <2>2 DEF ScanReturns
  <2>3. ASSUME NEW f \in TrackingFile, StartScan(s, f), scan[s] = "read" PROVE reported'[s] = {}
    <3>1. ASSUME NEW g, NEW b, NEW unseen, Scanning(s, f, g, b, unseen) PROVE reported' = reported
      BY <3>1 DEF Scanning
    <3> QED BY <2>2, <2>3, <3>1, StartScanIs DEF Reporting
  <2>4. CASE ScanRead(s)
    <3>1. file \in TrackingFile /\ EmptyFile \in TrackingFile
      BY EmptyTypes DEF TypeOK
    <3>2. reported'[s] = {}
      BY <2>2, <2>3, <2>4, <3>1 DEF ScanRead
    <3> QED BY <2>1, <3>2 DEF Reporting
  <2>5. CASE ScanWrite(s) \/ ScanFails(s)
    <3>1. reported'[s] = {}
      BY <1>1, <2>2, <2>5 DEF ScanWrite, ScanFails
    <3> QED BY <2>1, <3>1 DEF Reporting
  <2>6. ASSUME NEW m \in Messages, Lookup(s, m) \/ LookupFails(s, m) \/ LookupUnmapped(s, m) PROVE Reporting'
    <3>1. scan[s] = "lookup" /\ UNCHANGED scan
      BY <2>6 DEF Lookup, LookupFails, LookupUnmapped, Examine
    <3> QED BY <2>1, <3>1 DEF Reporting
  <2>7. CASE CallScan(s)
    <3>1. UNCHANGED reported /\ scan[s] = "idle"
      BY <2>7 DEF CallScan
    <3> QED BY <2>1, <3>1 DEF Reporting
  <2> QED BY <1>3, <2>4, <2>5, <2>6, <2>7 DEF ScanStep, ScanProgress
<1> QED BY <1>2, <1>3 DEF Next, Step, Arrive, Age, OwnerMoves, scanVars

\* The third invariant is kept,
LEMMA RerouteInvHolds ==
    ASSUME RoutingInv, HistoryInv, RerouteInv, [Next]_vars
    PROVE  RerouteInv'
<1>1. CASE UNCHANGED vars
  BY <1>1 DEF vars, mailbox, cache, runVars, scanVars, RerouteInv, Attributed, Reporting, RoutedEntries,
     ScannedEntries, Recorded, Examined, OfTheEngine, Tidy, Attributable, Undisturbed, Overlap,
     EndsInMove, Rules, RerouteIsManual
<1>2. CASE Next
  <2>1. Attributed' /\ Reporting' /\ RoutedEntries'
    BY <1>2, AttributedHolds, ReportingHolds, RoutedEntriesHolds DEF RoutingInv, RerouteInv
  <2>2. ScannedEntries'
    BY <1>2, ScannedHolds DEF ScannedEntries
  <2>3. RerouteIsManual'
    <3> SUFFICES ASSUME Attributable', NEW s \in Scans, NEW m \in Messages, m \in reported'[s]
                 PROVE  mover'[m] = "owner"
      BY DEF RerouteIsManual
    <3>1. scan'[s] = "lookup"
      BY <2>1 DEF Reporting
    <3>2. ~corrupt'
      BY <1>2, <3>1, HistoryInvHolds DEF HistoryInv, DropsOnlyLost, Attributable
    <3> QED BY <1>2, <3>2, ScannedHolds DEF Tidy
  <2> QED BY <2>1, <2>2, <2>3 DEF RerouteInv
<1> QED BY <1>1, <1>2

\* and holds always.
LEMMA RerouteInvariance == Spec => [](RoutingInv /\ HistoryInv /\ RerouteInv)
<1>1. Init => RerouteInv
  <2> SUFFICES ASSUME Init PROVE RerouteInv
    OBVIOUS
  <2>1. ~corrupt => file = EmptyFile
    BY DEF Init
  <2>2. \A m \in Messages : EmptyFile.entries[m] = None /\ Untracked[m] = None
    BY DEF EmptyFile, Untracked
  <2>3. /\ \A m \in Messages : mover[m] = "nobody"
        /\ \A r \in Runs : routed[r] = Untracked
        /\ \A s \in Scans : scan[s] = "idle" /\ toScan[s] = {} /\ reported[s] = {}
    BY DEF Init, RunInit, ScanInit
  <2> QED BY <2>1, <2>2, <2>3, RunsAssumption DEF RerouteInv, Attributed, Reporting, RoutedEntries,
          ScannedEntries, Recorded, Examined, OfTheEngine, Tidy, RerouteIsManual
<1>2. RoutingInv /\ HistoryInv /\ RerouteInv /\ [Next]_vars => RerouteInv'
  BY RerouteInvHolds
<1> QED BY <1>1, <1>2, HistoryInvariance, PTL DEF Spec

\* Between calls the cache has every message the engine was the last to move,
\* with the folder it is in: the drift scan is not blind to its own engine.
THEOREM OwnMovesAreRecorded == Spec => []RoutedIsRecorded
<1>1. HistoryInv /\ RerouteInv => RoutedIsRecorded
  BY DEF HistoryInv, Fresh, RerouteInv, RoutedEntries, Recorded, OfTheEngine, Tidy, Quiet, Untracked,
     RoutedIsRecorded
<1> QED BY <1>1, RerouteInvariance, PTL

\* Every re-route that a scan reports is the owner's.
THEOREM ReportsAreManual == Spec => []RerouteIsManual
<1>1. RerouteInv => RerouteIsManual
  BY DEF RerouteInv
<1> QED BY <1>1, RerouteInvariance, PTL

=============================================================================
