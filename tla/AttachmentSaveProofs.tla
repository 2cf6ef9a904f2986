------------------------ MODULE AttachmentSaveProofs ------------------------
(***************************************************************************)
(* For any passes, messages, attachments and names, and any number of      *)
(* faults: what a successful save wrote stays, and a message is disposed   *)
(* of only with all of its PDFs in the directory.                          *)
(***************************************************************************)
EXTENDS AttachmentSave, CommonLemmas

\* The saves that may still write files, and those that may still remove some.
Saving == {"list", "readdir", "fetch", "write"}
Active == Saving \cup {"rollback"}

Saved(d, m, i, files) ==
    \E f \in files : d[f] # None /\ d[f].message = m /\ d[f].index = i /\ d[f].whole

\* A save has a message, and is at one of its attachments while it has one.
Placed ==
    \A s \in Savers :
        /\ pc[s] # "idle" => msg[s] \in Messages
        /\ pc[s] \in {"list", "readdir"} => index[s] = 1
        /\ pc[s] \in {"readdir", "fetch", "write"} => index[s] \in DOMAIN Attachments[msg[s]]
        /\ pc[s] = "write" => target[s] \in Files

\* What a save has written and not removed, and what it is still removing, is on
\* the disk, its own, and no part of what a successful save has left; what that
\* has left is on the disk.  What is being removed was written by an earlier
\* save, or by one that is in its rollback.
Owned ==
    /\ kept \subseteq OnDisk
    /\ \A s \in Savers :
         /\ \A f \in removing[s] : f \notin kept /\ dir[f] # None /\ dir[f].by = s
         /\ pc[s] \in Active =>
              \A f \in written[s] : f \notin kept /\ dir[f] # None /\ dir[f].by = s
         /\ pc[s] \in Saving => written[s] \cap removing[s] = {}

\* A save has written what comes before the attachment it is at; one that has
\* succeeded, everything, if it was told of everything; and so has one whose
\* message was disposed of.
Progress ==
    /\ \A s \in Savers : pc[s] \in Saving =>
         \A i \in 1 .. index[s] - 1 : Saved(dir, msg[s], i, written[s])
    /\ \A s \in Savers : pc[s] = "dispose" /\ msg[s] \notin unlisted =>
         \A i \in DOMAIN Attachments[msg[s]] : Saved(dir, msg[s], i, kept)
    /\ \A m \in disposed \ unlisted : \A i \in DOMAIN Attachments[m] : Saved(dir, m, i, kept)

SaveInv == TypeOK /\ Placed /\ Owned /\ Progress

-----------------------------------------------------------------------------
\* Types

\* The suffixes are numbers, so one of those that are free is the first.
LEMMA DeconflictType ==
    ASSUME NEW name \in Names, NEW used
    PROVE  Deconflict(name, used) \in Files \cup {None}
<1> DEFINE free == {n \in 1 .. MaxSuffix : <<name, n>> \notin used}
           first == CHOOSE n \in free : \A k \in free : n <= k
<1>1. ASSUME free # {} PROVE first \in free
  <2>1. free \subseteq Nat
    OBVIOUS
  <2>2. \E n \in free : \A k \in free : n <= k
    BY <1>1, <2>1, Least
  <2> QED
    BY <2>2, Zenon
<1>2. Deconflict(name, used) = IF free = {} THEN None ELSE <<name, first>>
  BY Zenon DEF Deconflict
<1> HIDE DEF first
<1> QED
  BY <1>1, <1>2 DEF Files

LEMMA CurrentType ==
    ASSUME TypeOK, Placed, NEW s \in Savers, pc[s] \in {"fetch", "write"}
    PROVE  Current(s) \in [name : Names, large : BOOLEAN]
<1>1. msg[s] \in Messages /\ index[s] \in DOMAIN Attachments[msg[s]]
  BY DEF Placed
<1>2. Attachments[msg[s]] \in Seq([name : Names, large : BOOLEAN])
  BY <1>1, AttachmentsAssumption
<1> QED
  BY <1>1, <1>2, ElementType DEF Current

LEMMA InitTypeOK == Init => TypeOK
BY BoundsAssumption DEF Init, TypeOK, Steps

\* What a save makes of its target.
LEMMA CreatesFile ==
    ASSUME TypeOK, Placed, NEW s \in Savers, pc[s] = "write",
           NEW whole \in BOOLEAN, Creates(s, whole)
    PROVE  /\ target[s] \in Files
           /\ dir' \in [Files -> Content \cup {None}]
           /\ dir'[target[s]] # None
           /\ dir'[target[s]].by = s /\ dir'[target[s]].message = msg[s]
           /\ dir'[target[s]].index = index[s] /\ dir'[target[s]].whole = whole
           /\ \A f \in Files \ {target[s]} : dir'[f] = dir[f]
<1> DEFINE content == [by |-> s, message |-> msg[s], index |-> index[s], whole |-> whole]
<1>1. dir' = [dir EXCEPT ![target[s]] = content]
  BY Zenon DEF Creates
<1>2. msg[s] \in Messages /\ index[s] \in Nat /\ target[s] \in Files
  BY DEF Placed, TypeOK
<1>3. content \in Content
  BY <1>2 DEF Content
<1>4. content # None
  BY <1>3, NoneAssumption
<1>5. /\ content.by = s /\ content.message = msg[s] /\ content.index = index[s]
      /\ content.whole = whole
  OBVIOUS
<1> HIDE DEF content
<1> QED
  BY <1>1, <1>2, <1>3, <1>4, <1>5 DEF TypeOK

\* A file left in part takes nobody's place.
LEMMA PartTakesNoPlace ==
    ASSUME TypeOK, Placed, NEW s \in Savers, UNCHANGED dir \/ LeavesPart(s)
    PROVE  /\ dir' \in [Files -> Content \cup {None}]
           /\ \A f \in OnDisk : dir'[f] = dir[f]
<1>1. CASE UNCHANGED dir
  BY <1>1 DEF TypeOK
<1>2. CASE LeavesPart(s)
  <2>1. pc[s] = "write" /\ target[s] \notin OnDisk /\ Creates(s, FALSE)
    BY <1>2 DEF LeavesPart
  <2> QED
    BY <2>1, CreatesFile DEF OnDisk
<1> QED
  BY <1>1, <1>2

LEMMA WriteDir ==
    ASSUME TypeOK, Placed, NEW s \in Savers, Write(s)
    PROVE  /\ target[s] \in Files /\ dir[target[s]] = None
           /\ dir' \in [Files -> Content \cup {None}]
           /\ dir'[target[s]] # None
           /\ dir'[target[s]].by = s /\ dir'[target[s]].message = msg[s]
           /\ dir'[target[s]].index = index[s] /\ dir'[target[s]].whole
           /\ \A f \in Files \ {target[s]} : dir'[f] = dir[f]
<1>1. pc[s] = "write" /\ target[s] \notin OnDisk /\ Creates(s, TRUE)
  BY Zenon DEF Write
<1> QED
  BY <1>1, CreatesFile DEF OnDisk

LEMMA NextTypeOK ==
    ASSUME TypeOK, Placed, [Next]_vars
    PROVE  TypeOK'
<1> USE DEF TypeOK, Steps, Goto, Ends, Fault
<1>1. ASSUME NEW s \in Savers, NEW m \in Messages, Begin(s, m) PROVE TypeOK'
  BY <1>1 DEF Begin
<1>15. ASSUME NEW s \in Savers, NEW m \in Messages, Refused(s, m) PROVE TypeOK'
  BY <1>15 DEF Refused
<1>16. ASSUME NEW s \in Savers, ListsNothing(s) PROVE TypeOK'
  BY <1>16, BoundsAssumption DEF ListsNothing, Placed
<1>17. ASSUME NEW s \in Savers, NEW f \in Files, RemoveFails(s, f) PROVE TypeOK'
  BY <1>17, BoundsAssumption DEF RemoveFails
<1>2. ASSUME NEW s \in Savers, List(s) PROVE TypeOK'
  BY <1>2 DEF List
<1>3. ASSUME NEW s \in Savers, ReadDir(s) PROVE TypeOK'
  BY <1>3 DEF ReadDir, OnDisk
<1>4. ASSUME NEW s \in Savers, TooLarge(s) PROVE TypeOK'
  BY <1>4 DEF TooLarge, StartRollback
<1>5. ASSUME NEW s \in Savers, Fetch(s) PROVE TypeOK'
  <2>1. Deconflict(Current(s).name, taken[s]) \in Files
    BY <1>5, CurrentType, DeconflictType DEF Fetch
  <2> QED
    BY <1>5, <2>1 DEF Fetch
<1>6. ASSUME NEW s \in Savers, Throws(s) PROVE TypeOK'
  BY <1>6, BoundsAssumption DEF Throws
<1>7. ASSUME NEW s \in Savers, Write(s) PROVE TypeOK'
  <2>1. dir' \in [Files -> Content \cup {None}] /\ target[s] \in Files
    BY <1>7, WriteDir
  <2>2. /\ pc[s] = "write"
        /\ written' = [written EXCEPT ![s] = @ \cup {target[s]}]
        /\ \/ Ends(s, "ok") /\ kept' = kept \cup written'[s] /\ UNCHANGED index
           \/ /\ index' = [index EXCEPT ![s] = @ + 1]
              /\ Goto(s, "fetch")
              /\ UNCHANGED <<taken, target, outcome, kept>>
        /\ UNCHANGED <<msg, removing, disposed, unlisted, faults>>
    BY <1>7, Zenon DEF Write, Advance
  <2> QED
    BY <2>1, <2>2
<1>8. ASSUME NEW s \in Savers, WriteFails(s) PROVE TypeOK'
  <2>1. dir' \in [Files -> Content \cup {None}]
    BY <1>8, PartTakesNoPlace DEF WriteFails
  <2> QED
    BY <1>8, <2>1, BoundsAssumption DEF WriteFails, StartRollback
<1>9. ASSUME NEW s \in Savers, NEW f \in Files, Remove(s, f) PROVE TypeOK'
  BY <1>9 DEF Remove
<1>10. ASSUME NEW s \in Savers, RolledBackAll(s) PROVE TypeOK'
  BY <1>10 DEF RolledBackAll
<1>11. ASSUME NEW s \in Savers, Dispose(s) PROVE TypeOK'
  BY <1>11 DEF Dispose, Placed
<1>12. ASSUME NEW s \in Savers, DisposeFails(s) PROVE TypeOK'
  BY <1>12, BoundsAssumption DEF DisposeFails
<1>13. ASSUME NEW s \in Savers, Dies(s) PROVE TypeOK'
  <2>1. dir' \in [Files -> Content \cup {None}]
    BY <1>13, PartTakesNoPlace DEF Dies
  <2> QED
    BY <1>13, <2>1, BoundsAssumption DEF Dies
<1>14. CASE UNCHANGED vars
  BY <1>14 DEF vars
<1> QED
  BY <1>1, <1>2, <1>3, <1>4, <1>5, <1>6, <1>7, <1>8, <1>9, <1>10, <1>11, <1>12, <1>13,
     <1>14, <1>15, <1>16, <1>17 DEF Next

-----------------------------------------------------------------------------
\* Where a save stands

LEMMA NextPlaced ==
    ASSUME TypeOK, Placed, [Next]_vars
    PROVE  Placed'
<1> USE DEF TypeOK, Placed, Goto, Ends
<1>1. ASSUME NEW s \in Savers, NEW m \in Messages, Begin(s, m) PROVE Placed'
  BY <1>1 DEF Begin
<1>15. ASSUME NEW s \in Savers, NEW m \in Messages, Refused(s, m) PROVE Placed'
  BY <1>15 DEF Refused
<1>16. ASSUME NEW s \in Savers, ListsNothing(s) PROVE Placed'
  BY <1>16, BoundsAssumption DEF ListsNothing
<1>17. ASSUME NEW s \in Savers, NEW f \in Files, RemoveFails(s, f) PROVE Placed'
  BY <1>17, BoundsAssumption DEF RemoveFails
<1>2. ASSUME NEW s \in Savers, List(s) PROVE Placed'
  <2>1. Attachments[msg[s]] # <<>> => 1 \in DOMAIN Attachments[msg[s]]
    BY <1>2, AttachmentsAssumption DEF List
  <2> QED
    BY <1>2, <2>1 DEF List
<1>3. ASSUME NEW s \in Savers, ReadDir(s) PROVE Placed'
  BY <1>3 DEF ReadDir
<1>4. ASSUME NEW s \in Savers, TooLarge(s) PROVE Placed'
  BY <1>4 DEF TooLarge, StartRollback
<1>5. ASSUME NEW s \in Savers, Fetch(s) PROVE Placed'
  <2>1. Deconflict(Current(s).name, taken[s]) \in Files
    BY <1>5, CurrentType, DeconflictType DEF Fetch
  <2> QED
    BY <1>5, <2>1 DEF Fetch
<1>6. ASSUME NEW s \in Savers, Throws(s) PROVE Placed'
  BY <1>6 DEF Throws
<1>7. ASSUME NEW s \in Savers, Write(s) PROVE Placed'
  <2>1. index[s] # Len(Attachments[msg[s]]) => index[s] + 1 \in DOMAIN Attachments[msg[s]]
    BY <1>7, AttachmentsAssumption DEF Write, Advance
  <2> QED
    BY <1>7, <2>1 DEF Write, Advance
<1>8. ASSUME NEW s \in Savers, WriteFails(s) PROVE Placed'
  BY <1>8 DEF WriteFails, StartRollback
<1>9. ASSUME NEW s \in Savers, NEW f \in Files, Remove(s, f) PROVE Placed'
  BY <1>9 DEF Remove
<1>10. ASSUME NEW s \in Savers, RolledBackAll(s) PROVE Placed'
  BY <1>10 DEF RolledBackAll
<1>11. ASSUME NEW s \in Savers, Dispose(s) PROVE Placed'
  BY <1>11 DEF Dispose
<1>12. ASSUME NEW s \in Savers, DisposeFails(s) PROVE Placed'
  BY <1>12 DEF DisposeFails
<1>13. ASSUME NEW s \in Savers, Dies(s) PROVE Placed'
  BY <1>13 DEF Dies
<1>14. CASE UNCHANGED vars
  BY <1>14 DEF vars
<1> QED
  BY <1>1, <1>2, <1>3, <1>4, <1>5, <1>6, <1>7, <1>8, <1>9, <1>10, <1>11, <1>12, <1>13,
     <1>14, <1>15, <1>16, <1>17 DEF Next

-----------------------------------------------------------------------------
\* Steps that write nothing, remove nothing and end no save with success

LEMMA QuietKeepsOwned ==
    ASSUME Owned, TypeOK, UNCHANGED kept, \A f \in OnDisk : dir'[f] = dir[f],
           \A s \in Savers :
             /\ pc'[s] \in Active =>
                  written'[s] = {} \/ (pc[s] \in Active /\ written'[s] = written[s])
             /\ \A f \in removing'[s] : f \in removing[s] \/ (pc[s] \in Active /\ f \in written[s])
             /\ pc'[s] \in Saving =>
                  \/ written'[s] = {}
                  \/ pc[s] \in Saving /\ written'[s] = written[s] /\ removing'[s] \subseteq removing[s]
    PROVE  Owned'
<1>1. \A f \in Files : dir[f] # None => dir'[f] = dir[f]
  BY DEF OnDisk
<1>2. kept' \subseteq OnDisk'
  BY <1>1 DEF Owned, OnDisk
<1>3. ASSUME NEW s \in Savers, NEW f \in removing'[s]
      PROVE  f \notin kept /\ dir'[f] # None /\ dir'[f].by = s
  BY <1>1, <1>3 DEF Owned, TypeOK
<1>4. ASSUME NEW s \in Savers, pc'[s] \in Active, NEW f \in written'[s]
      PROVE  f \notin kept /\ dir'[f] # None /\ dir'[f].by = s
  BY <1>1, <1>4 DEF Owned, TypeOK
<1>5. ASSUME NEW s \in Savers, pc'[s] \in Saving PROVE written'[s] \cap removing'[s] = {}
  BY <1>5 DEF Owned
<1> QED
  BY <1>2, <1>3, <1>4, <1>5 DEF Owned

\* What an unfinished save may do to the invariants of progress.
LEMMA QuietKeepsProgress ==
    ASSUME Progress, Owned, TypeOK, UNCHANGED <<kept, disposed>>, unlisted \subseteq unlisted',
           \A f \in OnDisk : dir'[f] = dir[f],
           \A s \in Savers :
             \/ pc'[s] \in {"idle", "rollback"}
             \/ pc'[s] = "list" /\ index'[s] = 1
             \/ /\ pc'[s] = pc[s] \/ {pc[s], pc'[s]} \subseteq Saving
                /\ msg'[s] = msg[s] /\ index'[s] = index[s] /\ written'[s] = written[s]
             \/ /\ pc'[s] = "dispose"
                /\ Attachments[msg'[s]] = <<>> \/ msg'[s] \in unlisted'
    PROVE  Progress'
<1>1. ASSUME NEW m, NEW i, NEW files \in SUBSET Files, Saved(dir, m, i, files)
      PROVE  Saved(dir', m, i, files)
  BY <1>1 DEF Saved, OnDisk
<1>2. ASSUME NEW s \in Savers, pc'[s] \in Saving, NEW i \in 1 .. index'[s] - 1
      PROVE  Saved(dir', msg'[s], i, written'[s])
  <2>1. \/ index'[s] = 1
        \/ /\ pc[s] \in Saving
           /\ msg'[s] = msg[s] /\ index'[s] = index[s] /\ written'[s] = written[s]
    BY <1>2 DEF Saving
  <2> QED
    BY <1>1, <1>2, <2>1 DEF Progress, TypeOK
<1>3. ASSUME NEW s \in Savers, pc'[s] = "dispose", msg'[s] \notin unlisted',
             NEW i \in DOMAIN Attachments[msg'[s]]
      PROVE  Saved(dir', msg'[s], i, kept')
  <2>1. /\ pc[s] = "dispose" /\ msg'[s] = msg[s] /\ msg[s] \notin unlisted
    BY <1>3 DEF Saving
  <2> QED
    BY <1>1, <1>3, <2>1 DEF Progress, TypeOK
<1>4. \A m \in disposed' \ unlisted' : \A i \in DOMAIN Attachments[m] : Saved(dir', m, i, kept')
  BY <1>1 DEF Progress, TypeOK
<1> QED
  BY <1>2, <1>3, <1>4 DEF Progress

\* The steps that finish, remove and dispose of nothing.
Quiet(s) ==
    \/ \E m \in Messages : Refused(s, m) \/ Begin(s, m)
    \/ List(s) \/ ListsNothing(s) \/ ReadDir(s) \/ TooLarge(s) \/ Fetch(s) \/ Throws(s)
    \/ WriteFails(s) \/ \E f \in Files : RemoveFails(s, f)
    \/ RolledBackAll(s) \/ DisposeFails(s) \/ Dies(s)

LEMMA QuietKeeps ==
    ASSUME TypeOK, Placed, Owned, Progress, NEW s \in Savers, Quiet(s)
    PROVE  Owned' /\ Progress' /\ \A f \in OnDisk : dir'[f] = dir[f]
<1> USE DEF Goto, Ends, StartRollback, TypeOK
<1>1. UNCHANGED <<kept, disposed>> /\ unlisted \subseteq unlisted'
  BY DEF Quiet, Refused, Begin, List, ListsNothing, ReadDir, TooLarge, Fetch, Throws, WriteFails,
         RemoveFails, RolledBackAll, DisposeFails, Dies
<1>2. UNCHANGED dir \/ LeavesPart(s)
  BY DEF Quiet, Refused, Begin, List, ListsNothing, ReadDir, TooLarge, Fetch, Throws, WriteFails,
         RemoveFails, RolledBackAll, DisposeFails, Dies
<1>3. \A f \in OnDisk : dir'[f] = dir[f]
  BY <1>2, PartTakesNoPlace
<1>4. \A q \in Savers \ {s} : /\ pc'[q] = pc[q] /\ msg'[q] = msg[q] /\ index'[q] = index[q]
                             /\ written'[q] = written[q] /\ removing'[q] = removing[q]
  BY DEF Quiet, Refused, Begin, List, ListsNothing, ReadDir, TooLarge, Fetch, Throws, WriteFails,
         RemoveFails, RolledBackAll, DisposeFails, Dies
<1>5. /\ pc'[s] \in Active =>
           written'[s] = {} \/ (pc[s] \in Active /\ written'[s] = written[s])
      /\ \A f \in removing'[s] : f \in removing[s] \/ (pc[s] \in Active /\ f \in written[s])
      /\ pc'[s] \in Saving =>
           \/ written'[s] = {}
           \/ pc[s] \in Saving /\ written'[s] = written[s] /\ removing'[s] \subseteq removing[s]
  BY DEF Quiet, Refused, Begin, List, ListsNothing, ReadDir, TooLarge, Fetch, Throws, WriteFails,
         RemoveFails, RolledBackAll, DisposeFails, Dies, Active, Saving
<1>6. Owned'
  BY <1>1, <1>3, <1>4, <1>5, QuietKeepsOwned DEF Active
<1>7. \/ pc'[s] \in {"idle", "rollback"}
      \/ pc'[s] = "list" /\ index'[s] = 1
      \/ /\ pc'[s] = pc[s] \/ {pc[s], pc'[s]} \subseteq Saving
         /\ msg'[s] = msg[s] /\ index'[s] = index[s] /\ written'[s] = written[s]
      \/ /\ pc'[s] = "dispose"
         /\ Attachments[msg'[s]] = <<>> \/ msg'[s] \in unlisted'
  BY DEF Quiet, Refused, Begin, List, ListsNothing, ReadDir, TooLarge, Fetch, Throws, WriteFails,
         RemoveFails, RolledBackAll, DisposeFails, Dies, Saving
<1>8. Progress'
  BY <1>1, <1>3, <1>4, <1>7, QuietKeepsProgress
<1> QED
  BY <1>3, <1>6, <1>8

\* A file that was not there is written: everything on the disk stays.
LEMMA WriteKeeps ==
    ASSUME TypeOK, Placed, Owned, Progress, NEW s \in Savers, Write(s)
    PROVE  Owned' /\ Progress' /\ \A f \in kept : dir'[f] = dir[f]
<1>1. /\ pc[s] = "write"
      /\ written' = [written EXCEPT ![s] = @ \cup {target[s]}]
      /\ \/ /\ index[s] = Len(Attachments[msg[s]])
            /\ pc' = [pc EXCEPT ![s] = "dispose"]
            /\ kept' = kept \cup written'[s] /\ UNCHANGED index
         \/ /\ index' = [index EXCEPT ![s] = @ + 1]
            /\ pc' = [pc EXCEPT ![s] = "fetch"]
            /\ UNCHANGED kept
      /\ UNCHANGED <<msg, removing, disposed, unlisted>>
  BY Zenon DEF Write, Advance, Ends, Goto
<1>2. /\ target[s] \in Files /\ dir[target[s]] = None
      /\ dir'[target[s]] # None
      /\ dir'[target[s]].by = s /\ dir'[target[s]].message = msg[s]
      /\ dir'[target[s]].index = index[s] /\ dir'[target[s]].whole
      /\ \A f \in Files \ {target[s]} : dir'[f] = dir[f]
  BY WriteDir
<1>3. \A f \in kept : f \in Files /\ f # target[s] /\ dir'[f] = dir[f]
  BY <1>2 DEF Owned, OnDisk, TypeOK
<1>4. \A q \in Savers :
        /\ pc[q] \in Active => \A f \in written[q] : f # target[s] /\ dir'[f] = dir[f] /\ f \in Files
        /\ \A f \in removing[q] : f # target[s] /\ dir'[f] = dir[f]
  BY <1>2 DEF Owned, TypeOK
<1>5. Owned'
  <2>1. \A f \in written'[s] : f \in Files /\ dir'[f] # None /\ dir'[f].by = s
    BY <1>1, <1>2, <1>4 DEF Owned, Active, Saving, TypeOK
  <2>2. kept' \subseteq OnDisk'
    BY <1>1, <1>2, <1>3, <2>1 DEF Owned, OnDisk, TypeOK
  <2>3. pc[s] \in Active /\ pc[s] \in Saving
    BY <1>1 DEF Active, Saving
  <2>4. written'[s] = written[s] \cup {target[s]} /\ removing' = removing
    BY <1>1 DEF TypeOK
  <2>5. ASSUME NEW q \in Savers, NEW f \in removing[q]
        PROVE  f \notin kept' /\ dir'[f] # None /\ dir'[f].by = q
    <3>1. f \notin kept /\ f # target[s] /\ dir'[f] = dir[f] /\ dir[f] # None /\ dir[f].by = q
      BY <1>4 DEF Owned
    <3>2. f \notin written[s]
      BY <2>3, <3>1 DEF Owned
    <3> QED
      BY <1>1, <2>4, <3>1, <3>2
  <2>6. ASSUME NEW q \in Savers, pc'[q] \in Active, NEW f \in written'[q]
        PROVE  f \notin kept' /\ dir'[f] # None /\ dir'[f].by = q
    <3>1. CASE q = s
      <4>1. kept' = kept
        BY <1>1, <2>6, <3>1 DEF Active, Saving, TypeOK
      <4>2. f \notin kept
        BY <1>3, <2>3, <2>4, <2>6, <3>1 DEF Owned
      <4> QED
        BY <2>1, <2>6, <3>1, <4>1, <4>2
    <3>2. CASE q # s
      <4>1. pc[q] \in Active /\ written'[q] = written[q]
        BY <1>1, <2>6, <3>2 DEF TypeOK
      <4>2. f \notin kept /\ dir'[f] # None /\ dir'[f].by = q
        BY <1>4, <2>6, <4>1 DEF Owned
      <4>3. f \notin written'[s]
        BY <2>1, <3>2, <4>2
      <4> QED
        BY <1>1, <4>2, <4>3
    <3> QED
      BY <3>1, <3>2
  <2>7. ASSUME NEW q \in Savers, pc'[q] \in Saving PROVE written'[q] \cap removing'[q] = {}
    <3>1. CASE q = s
      BY <1>4, <2>3, <2>4, <3>1 DEF Owned
    <3>2. CASE q # s
      <4>1. pc[q] \in Saving /\ written'[q] = written[q]
        BY <1>1, <2>7, <3>2 DEF TypeOK
      <4> QED
        BY <2>4, <4>1 DEF Owned
    <3> QED
      BY <3>1, <3>2
  <2> QED
    BY <2>2, <2>4, <2>5, <2>6, <2>7 DEF Owned
<1>6. Progress'
  <2>1. ASSUME NEW m, NEW i, Saved(dir, m, i, kept) PROVE Saved(dir', m, i, kept')
    BY <1>1, <1>3, <2>1 DEF Saved
  <2>2. ASSUME NEW q \in Savers, pc[q] \in Active, NEW m, NEW i, Saved(dir, m, i, written[q])
        PROVE  Saved(dir', m, i, written'[q])
    BY <1>1, <1>4, <2>2 DEF Saved, TypeOK
  <2>3. Saved(dir', msg[s], index[s], written'[s])
    BY <1>1, <1>2 DEF Saved, TypeOK
  <2>4. ASSUME NEW i \in 1 .. index[s] PROVE Saved(dir', msg[s], i, written'[s])
    <3>1. CASE i = index[s]
      BY <2>3, <3>1
    <3>2. CASE i # index[s]
      <4>1. i \in 1 .. index[s] - 1
        BY <3>2 DEF TypeOK
      <4> QED
        BY <1>1, <2>2, <4>1 DEF Progress, Active, Saving
    <3> QED
      BY <3>1, <3>2
  <2>5. ASSUME NEW q \in Savers, pc'[q] \in Saving, NEW i \in 1 .. index'[q] - 1
        PROVE  Saved(dir', msg[q], i, written'[q])
    <3>1. CASE q = s
      <4>1. pc'[s] # "dispose" /\ index'[s] = index[s] + 1
        BY <1>1, <2>5, <3>1 DEF TypeOK, Saving
      <4> QED
        BY <2>4, <2>5, <3>1, <4>1 DEF TypeOK
    <3>2. CASE q # s
      BY <1>1, <2>2, <2>5, <3>2 DEF TypeOK, Progress, Active
    <3> QED
      BY <3>1, <3>2
  <2>6. ASSUME NEW q \in Savers, pc'[q] = "dispose", msg[q] \notin unlisted,
               NEW i \in DOMAIN Attachments[msg[q]]
        PROVE  Saved(dir', msg[q], i, kept')
    <3>1. CASE q = s
      <4>1. index[s] = Len(Attachments[msg[s]]) /\ kept' = kept \cup written'[s]
        BY <1>1, <2>6, <3>1 DEF TypeOK
      <4>2. msg[s] \in Messages
        BY <1>1 DEF Placed
      <4>3. i \in 1 .. index[s]
        BY <2>6, <3>1, <4>1, <4>2, AttachmentsAssumption
      <4>4. Saved(dir', msg[s], i, written'[s])
        BY <2>4, <4>3
      <4> QED
        BY <3>1, <4>1, <4>4 DEF Saved
    <3>2. CASE q # s
      BY <1>1, <2>1, <2>6, <3>2 DEF TypeOK, Progress
    <3> QED
      BY <3>1, <3>2
  <2>7. \A m \in disposed' \ unlisted' : \A i \in DOMAIN Attachments[m] : Saved(dir', m, i, kept')
    BY <1>1, <2>1 DEF Progress
  <2> QED
    BY <1>1, <2>5, <2>6, <2>7 DEF Progress
<1> QED
  BY <1>3, <1>5, <1>6

\* A rollback removes what is its save's own.
LEMMA RemoveKeeps ==
    ASSUME TypeOK, Placed, Owned, Progress, NEW s \in Savers, NEW f \in Files, Remove(s, f)
    PROVE  Owned' /\ Progress' /\ \A k \in kept : dir'[k] = dir[k]
<1>1. /\ f \in removing[s]
      /\ dir' = [dir EXCEPT ![f] = None]
      /\ removing' = [removing EXCEPT ![s] = @ \ {f}]
      /\ written' = [written EXCEPT ![s] = @ \ {f}]
      /\ UNCHANGED <<pc, msg, index, disposed, unlisted, kept>>
  BY DEF Remove
<1>2. \A k \in kept : k \in Files /\ k # f /\ dir'[k] = dir[k]
  BY <1>1 DEF Owned, TypeOK
<1>3. \A q \in Savers :
        /\ pc[q] \in Active => \A k \in written'[q] : k # f /\ dir'[k] = dir[k]
        /\ \A k \in removing'[q] : k # f /\ dir'[k] = dir[k] /\ k \in removing[q]
  BY <1>1 DEF Owned, TypeOK
<1>8. \A q \in Savers : written'[q] \subseteq written[q] /\ removing'[q] \subseteq removing[q]
  BY <1>1 DEF TypeOK
<1>4. Owned'
  <2>1. kept' \subseteq OnDisk'
    BY <1>1, <1>2 DEF Owned, OnDisk
  <2>2. ASSUME NEW q \in Savers, NEW k \in removing'[q]
        PROVE  k \notin kept' /\ dir'[k] # None /\ dir'[k].by = q
    BY <1>1, <1>3 DEF Owned
  <2>3. ASSUME NEW q \in Savers, pc'[q] \in Active, NEW k \in written'[q]
        PROVE  k \notin kept' /\ dir'[k] # None /\ dir'[k].by = q
    BY <1>1, <1>3, <1>8, <2>3 DEF Owned
  <2>4. ASSUME NEW q \in Savers, pc'[q] \in Saving PROVE written'[q] \cap removing'[q] = {}
    BY <1>1, <1>8, <2>4 DEF Owned
  <2> QED
    BY <2>1, <2>2, <2>3, <2>4 DEF Owned
<1>5. ASSUME NEW m, NEW i, Saved(dir, m, i, kept) PROVE Saved(dir', m, i, kept)
  BY <1>1, <1>2, <1>5 DEF Saved
<1>6. ASSUME NEW q \in Savers, pc[q] \in Saving, NEW i \in 1 .. index[q] - 1
      PROVE  Saved(dir', msg[q], i, written'[q])
  <2>1. written'[q] = written[q] /\ pc[q] \in Active
    <3>1. q = s => f \notin written[q]
      BY <1>1, <1>6 DEF Owned
    <3> QED
      BY <1>1, <1>6, <3>1 DEF TypeOK, Active
  <2>2. Saved(dir, msg[q], i, written[q])
    BY <1>6 DEF Progress
  <2>3. \A k \in written[q] : dir'[k] = dir[k]
    BY <1>3, <1>6, <2>1
  <2> QED
    BY <2>1, <2>2, <2>3 DEF Saved
<1>7. Progress'
  BY <1>1, <1>5, <1>6 DEF Progress
<1> QED
  BY <1>2, <1>4, <1>7

LEMMA DisposeKeeps ==
    ASSUME TypeOK, Placed, Owned, Progress, NEW s \in Savers, Dispose(s)
    PROVE  Owned' /\ Progress'
<1>1. /\ pc[s] = "dispose" /\ pc' = [pc EXCEPT ![s] = "idle"]
      /\ disposed' = disposed \cup {msg[s]}
      /\ UNCHANGED <<dir, msg, index, written, removing, unlisted, kept>>
  BY DEF Dispose, Goto
<1>3. Progress'
  BY <1>1 DEF Progress, TypeOK, Saving
<1>4. Owned'
  BY <1>1 DEF Owned, OnDisk, TypeOK, Active, Saving
<1> QED
  BY <1>3, <1>4

-----------------------------------------------------------------------------
\* The theorems

LEMMA InitSaveInv == Init => SaveInv
<1> SUFFICES ASSUME Init PROVE SaveInv
  OBVIOUS
<1>1. Placed /\ Owned /\ Progress
  BY DEF Init, Placed, Owned, Progress, Active, Saving
<1> QED
  BY <1>1, InitTypeOK DEF SaveInv

LEMMA NextSaveInv ==
    ASSUME SaveInv, [Next]_vars
    PROVE  SaveInv' /\ \A f \in kept : dir'[f] = dir[f]
<1>1. TypeOK /\ Placed /\ Owned /\ Progress /\ TypeOK' /\ Placed'
  BY NextTypeOK, NextPlaced DEF SaveInv
<1>2. ASSUME NEW s \in Savers, Quiet(s)
      PROVE  Owned' /\ Progress' /\ \A f \in kept : dir'[f] = dir[f]
  BY <1>1, <1>2, QuietKeeps DEF Owned
<1>3. ASSUME NEW s \in Savers, Dispose(s) PROVE Owned' /\ Progress' /\ UNCHANGED dir
  BY <1>1, <1>3, DisposeKeeps DEF Dispose
<1>4. CASE UNCHANGED vars
  <2>1. UNCHANGED <<dir, pc, msg, index, written, removing, disposed, unlisted, kept>>
    BY <1>4 DEF vars
  <2>2. Owned'
    BY <1>1, <2>1 DEF Owned, OnDisk
  <2>3. Progress'
    BY <1>1, <2>1 DEF Progress
  <2> QED
    BY <1>1, <2>1, <2>2, <2>3 DEF SaveInv
<1>5. ASSUME NEW s \in Savers, Write(s) \/ \E f \in Files : Remove(s, f)
      PROVE  Owned' /\ Progress' /\ \A f \in kept : dir'[f] = dir[f]
  BY <1>1, <1>5, WriteKeeps, RemoveKeeps
<1>6. Next => \E s \in Savers : Quiet(s) \/ Dispose(s) \/ Write(s) \/ \E f \in Files : Remove(s, f)
  BY DEF Next, Quiet
<1>7. CASE Next
  <2>1. PICK s \in Savers : Quiet(s) \/ Dispose(s) \/ Write(s) \/ \E f \in Files : Remove(s, f)
    BY <1>6, <1>7
  <2> QED
    BY <1>1, <1>2, <1>3, <1>5, <2>1 DEF SaveInv
<1> QED
  BY <1>4, <1>7

\* The saves keep their types, whatever is attached and whatever fails.
THEOREM TypeCorrect == Spec => []TypeOK
<1>1. SaveInv /\ [Next]_vars => SaveInv'
  BY NextSaveInv
<1>2. SaveInv => TypeOK
  BY DEF SaveInv
<1> QED
  BY InitSaveInv, <1>1, <1>2, PTL DEF Spec

\* A message is disposed of only with all of its PDFs in the directory, whole,
\* however many passes save at once and whatever they fail in (saveAttachments),
\* as long as Graph has listed what is attached to it.
THEOREM DisposedSaved == Spec => []DisposedIsSaved
<1>1. SaveInv /\ [Next]_vars => SaveInv'
  BY NextSaveInv
<1>2. SaveInv => DisposedIsSaved
  BY DEF SaveInv, Progress, Saved, DisposedIsSaved, TypeOK
<1> QED
  BY InitSaveInv, <1>1, <1>2, PTL DEF Spec

\* No write and no rollback, of any pass, touches what a successful save left.
THEOREM SavedFilesStay == Spec => SavedStays
<1>1. SaveInv /\ [Next]_vars => SaveInv' /\ [\A f \in kept : dir'[f] = dir[f]]_vars
  BY NextSaveInv
<1> QED
  BY InitSaveInv, <1>1, PTL DEF Spec, SavedStays
=============================================================================
