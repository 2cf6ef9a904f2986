--------------------------- MODULE AttachmentSave ---------------------------
(***************************************************************************)
(* The save-attachments action (src/main/attachments/save.ts, naming.ts):  *)
(* each PDF of a message is fetched, named after the message and written   *)
(* to the destination directory under a name nobody has taken.  Passes of  *)
(* two servers may save at the same time, even the same message.  When it  *)
(* has saved all, the rule disposes of the message; otherwise the message  *)
(* stays and a later call tries again.  A file is there from its exclusive *)
(* open on, and whole once its write has ended.                            *)
(***************************************************************************)
EXTENDS Naturals, Sequences

CONSTANTS
    Savers,       \* passes that save at the same time
    Messages,
    Attachments,  \* the PDFs of each message: their composed name and size
    Destination,  \* what is wrong with the destination of each message's rule
    Names,        \* names composeFilename gives
    MaxSuffix,    \* the suffixes deconflict tries are below this one, 1 is none
    None,
    MaxFaults     \* bound: failures of Graph, the disk and the servers

Files   == Names \X (1 .. MaxSuffix)
Content == [by : Savers, message : Messages, index : Nat, whole : BOOLEAN]

\* No roots are configured, the rule note does not declare the destination, or
\* its directory is outside the roots.
Refusals == {"no roots", "undeclared", "outside"}

ASSUME AttachmentsAssumption ==
    Attachments \in [Messages -> Seq([name : Names, large : BOOLEAN])]
ASSUME DestinationAssumption == Destination \in [Messages -> {"open"} \cup Refusals]
ASSUME NoneAssumption   == None \notin Content /\ None \notin Messages /\ None \notin Files
ASSUME BoundsAssumption == MaxSuffix \in Nat \ {0} /\ MaxFaults \in Nat

VARIABLES
    dir,       \* what each file of the directory holds
    pc,        \* where each save stands
    msg,       \* its message
    index,     \* the attachment it is at
    taken,     \* names it knows to be taken
    target,    \* the file it is about to write
    written,   \* the files it wrote and has not removed
    removing,  \* the removals of a rollback that are under way; they outlive it
    outcome,   \* of the last save of each pass
    disposed,  \* messages whose rule went on to dispose of them
    unlisted,  \* history: messages whose attachments Graph once failed to list
    kept,      \* history: the files of the saves that succeeded
    faults

vars == <<dir, pc, msg, index, taken, target, written, removing, outcome, disposed,
          unlisted, kept, faults>>

Steps == {"idle", "list", "readdir", "fetch", "write", "rollback", "dispose"}

TypeOK ==
    /\ dir \in [Files -> Content \cup {None}]
    /\ pc \in [Savers -> Steps]
    /\ msg \in [Savers -> Messages \cup {None}]
    /\ index \in [Savers -> Nat]
    /\ taken \in [Savers -> SUBSET Files]
    /\ target \in [Savers -> Files \cup {None}]
    /\ written \in [Savers -> SUBSET Files]
    /\ removing \in [Savers -> SUBSET Files]
    /\ outcome \in [Savers -> {"none", "ok", "failed"}]
    /\ disposed \in SUBSET Messages
    /\ unlisted \in SUBSET Messages
    /\ kept \in SUBSET Files
    /\ faults \in 0 .. MaxFaults

Init ==
    /\ dir = [f \in Files |-> None]
    /\ pc = [s \in Savers |-> "idle"]
    /\ msg = [s \in Savers |-> None]
    /\ index = [s \in Savers |-> 1]
    /\ taken = [s \in Savers |-> {}]
    /\ target = [s \in Savers |-> None]
    /\ written = [s \in Savers |-> {}]
    /\ removing = [s \in Savers |-> {}]
    /\ outcome = [s \in Savers |-> "none"]
    /\ disposed = {}
    /\ unlisted = {}
    /\ kept = {}
    /\ faults = 0

Goto(s, step) == pc' = [pc EXCEPT ![s] = step]

Fault == faults < MaxFaults /\ faults' = faults + 1

OnDisk == {f \in Files : dir[f] # None}

Current(s) == Attachments[msg[s]][index[s]]

\* Mutant: no end to the suffixes.
DeconflictUnchecked(name, used) ==
    LET free == {n \in 1 .. MaxSuffix + 1 : <<name, n>> \notin used}
    IN  <<name, CHOOSE n \in free : \A k \in free : n <= k>>

\* deconflict: the first suffix that is not taken, or None where it throws.
Deconflict(name, used) ==
    LET free == {n \in 1 .. MaxSuffix : <<name, n>> \notin used}
    IN  IF free = {} THEN None
        ELSE <<name, CHOOSE n \in free : \A k \in free : n <= k>>

-----------------------------------------------------------------------------
\* The saver

\* The destination is refused before anything is asked of Graph.
Refused(s, m) ==
    /\ pc[s] = "idle"
    /\ m \notin disposed
    /\ Destination[m] \in Refusals
    /\ written' = [written EXCEPT ![s] = {}]
    /\ outcome' = [outcome EXCEPT ![s] = "failed"]
    /\ UNCHANGED <<dir, pc, msg, index, taken, target, removing, disposed, unlisted, kept, faults>>

\* applyActions calls the saver for a message that is still in the folder.
Begin(s, m) ==
    /\ pc[s] = "idle"
    /\ m \notin disposed
    /\ Destination[m] = "open"
    /\ Goto(s, "list")
    /\ msg' = [msg EXCEPT ![s] = m]
    /\ index' = [index EXCEPT ![s] = 1]
    /\ written' = [written EXCEPT ![s] = {}]
    /\ outcome' = [outcome EXCEPT ![s] = "none"]
    /\ UNCHANGED <<dir, taken, target, removing, disposed, unlisted, kept, faults>>

\* The save returns; written is kept to speak about what it leaves behind.
Ends(s, result) ==
    /\ Goto(s, IF result = "ok" THEN "dispose" ELSE "idle")
    /\ outcome' = [outcome EXCEPT ![s] = result]
    /\ taken' = [taken EXCEPT ![s] = {}]
    /\ target' = [target EXCEPT ![s] = None]

\* listPdfAttachments, and mkdir: a message with no PDF is saved at once.
List(s) ==
    /\ pc[s] = "list"
    /\ \/ /\ Attachments[msg[s]] = <<>>
          /\ Ends(s, "ok")
       \/ /\ Attachments[msg[s]] # <<>>
          /\ Goto(s, "readdir")
          /\ UNCHANGED <<taken, target, outcome>>
    /\ UNCHANGED <<dir, msg, index, written, removing, disposed, unlisted, kept, faults>>

\* The answer is a success that carries no list: it counts as an empty one.
ListsNothing(s) ==
    /\ pc[s] = "list"
    /\ Fault
    /\ Ends(s, "ok")
    /\ unlisted' = unlisted \cup {msg[s]}
    /\ UNCHANGED <<dir, msg, index, written, removing, disposed, kept>>

ReadDir(s) ==
    /\ pc[s] = "readdir"
    /\ taken' = [taken EXCEPT ![s] = OnDisk]
    /\ Goto(s, "fetch")
    /\ UNCHANGED <<dir, msg, index, target, written, removing, outcome, disposed,
                   unlisted, kept, faults>>

\* rollback: Promise.all starts the removal of every file written so far.
StartRollback(s) ==
    /\ Goto(s, "rollback")
    /\ removing' = [removing EXCEPT ![s] = @ \cup written[s]]

\* Mutant: an attachment over the limit is left out and the loop goes on.
FetchSkipsLarge(s) ==
    /\ pc[s] = "fetch"
    /\ Current(s).large
    /\ IF index[s] = Len(Attachments[msg[s]])
       THEN Ends(s, "ok") /\ UNCHANGED index
       ELSE /\ index' = [index EXCEPT ![s] = @ + 1]
            /\ UNCHANGED <<pc, taken, target, outcome>>
    /\ UNCHANGED <<dir, msg, written, removing, disposed, unlisted, kept, faults>>

TooLarge(s) ==
    /\ pc[s] = "fetch"
    /\ Current(s).large
    /\ StartRollback(s)
    /\ UNCHANGED <<dir, msg, index, taken, target, written, outcome, disposed,
                   unlisted, kept, faults>>

\* The bytes, the text and the name.
Fetch(s) == LET file == Deconflict(Current(s).name, taken[s]) IN
    /\ pc[s] = "fetch"
    /\ ~Current(s).large
    /\ file # None
    /\ target' = [target EXCEPT ![s] = file]
    /\ taken' = [taken EXCEPT ![s] = @ \cup {file}]
    /\ Goto(s, "write")
    /\ UNCHANGED <<dir, msg, index, written, removing, outcome, disposed, unlisted, kept, faults>>

\* An error of the listing, of a fetch or of deconflict reaches the outer catch,
\* which does not roll back.
Throws(s) ==
    /\ \/ /\ pc[s] \in {"list", "readdir", "fetch"}
          /\ Fault
       \/ /\ pc[s] = "fetch"
          /\ ~Current(s).large
          /\ Deconflict(Current(s).name, taken[s]) = None
          /\ UNCHANGED faults
    /\ Ends(s, "failed")
    /\ UNCHANGED <<dir, msg, index, written, removing, disposed, unlisted, kept>>

\* What the target of a save holds once it is open, and once it is written.
Creates(s, whole) ==
    dir' = [dir EXCEPT ![target[s]] =
              [by |-> s, message |-> msg[s], index |-> index[s], whole |-> whole]]

\* The save goes on to the next attachment, or returns after the last.
Advance(s) ==
    /\ written' = [written EXCEPT ![s] = @ \cup {target[s]}]
    /\ IF index[s] = Len(Attachments[msg[s]])
       THEN Ends(s, "ok") /\ kept' = kept \cup written'[s] /\ UNCHANGED index
       ELSE /\ index' = [index EXCEPT ![s] = @ + 1]
            /\ Goto(s, "fetch")
            /\ UNCHANGED <<taken, target, outcome, kept>>

\* Mutant: the file is written without the wx flag.
WriteOverwrites(s) ==
    /\ pc[s] = "write"
    /\ Creates(s, TRUE)
    /\ Advance(s)
    /\ UNCHANGED <<msg, removing, disposed, unlisted, faults>>

\* writeFile with wx creates the file and fills it.
Write(s) ==
    /\ pc[s] = "write"
    /\ target[s] \notin OnDisk
    /\ Creates(s, TRUE)
    /\ Advance(s)
    /\ UNCHANGED <<msg, removing, disposed, unlisted, faults>>

\* The open went through and the write did not: nobody removes what is there.
LeavesPart(s) ==
    /\ pc[s] = "write"
    /\ target[s] \notin OnDisk
    /\ Creates(s, FALSE)

\* The name was taken since the directory was read, or the disk refused to
\* open the file or to fill it.
WriteFails(s) ==
    /\ pc[s] = "write"
    /\ \/ target[s] \in OnDisk /\ UNCHANGED <<dir, faults>>
       \/ Fault /\ (UNCHANGED dir \/ LeavesPart(s))
    /\ StartRollback(s)
    /\ UNCHANGED <<msg, index, taken, target, written, outcome, disposed, unlisted, kept>>

\* A file of a rollback is gone, in any order.
Remove(s, f) ==
    /\ f \in removing[s]
    /\ dir' = [dir EXCEPT ![f] = None]
    /\ removing' = [removing EXCEPT ![s] = @ \ {f}]
    /\ written' = [written EXCEPT ![s] = @ \ {f}]
    /\ UNCHANGED <<pc, msg, index, taken, target, outcome, disposed, unlisted, kept, faults>>

\* The first removal that fails rejects Promise.all, and the outer catch returns
\* while the others go on.
RemoveFails(s, f) ==
    /\ f \in removing[s]
    /\ Fault
    /\ removing' = [removing EXCEPT ![s] = @ \ {f}]
    /\ IF pc[s] = "rollback" /\ f \in written[s]
       THEN Ends(s, "failed") ELSE UNCHANGED <<pc, taken, target, outcome>>
    /\ UNCHANGED <<dir, msg, index, written, disposed, unlisted, kept>>

RolledBackAll(s) ==
    /\ pc[s] = "rollback"
    /\ written[s] = {}
    /\ Ends(s, "failed")
    /\ UNCHANGED <<dir, msg, index, written, removing, disposed, unlisted, kept, faults>>

-----------------------------------------------------------------------------
\* What follows the save

Dispose(s) ==
    /\ pc[s] = "dispose"
    /\ Goto(s, "idle")
    /\ disposed' = disposed \cup {msg[s]}
    /\ UNCHANGED <<dir, msg, index, taken, target, written, removing, outcome, unlisted,
                   kept, faults>>

\* The action after the save fails, and the message stays where it is.
DisposeFails(s) ==
    /\ pc[s] = "dispose"
    /\ Fault
    /\ Goto(s, "idle")
    /\ UNCHANGED <<dir, msg, index, taken, target, written, removing, outcome, disposed,
                   unlisted, kept>>

\* The server dies: its memory is gone, the directory stays as it is, with a
\* file that was being written in part.
Dies(s) ==
    /\ pc[s] # "idle" \/ removing[s] # {}
    /\ Fault
    /\ UNCHANGED dir \/ LeavesPart(s)
    /\ Goto(s, "idle")
    /\ outcome' = [outcome EXCEPT ![s] = "none"]
    /\ taken' = [taken EXCEPT ![s] = {}]
    /\ target' = [target EXCEPT ![s] = None]
    /\ written' = [written EXCEPT ![s] = {}]
    /\ removing' = [removing EXCEPT ![s] = {}]
    /\ UNCHANGED <<msg, index, disposed, unlisted, kept>>

Next ==
    \E s \in Savers :
        \/ \E m \in Messages : Refused(s, m) \/ Begin(s, m)
        \/ List(s) \/ ListsNothing(s) \/ ReadDir(s)
        \/ TooLarge(s) \/ Fetch(s) \/ Throws(s)
        \/ Write(s) \/ WriteFails(s)
        \/ \E f \in Files : Remove(s, f) \/ RemoveFails(s, f)
        \/ RolledBackAll(s) \/ Dispose(s) \/ DisposeFails(s) \/ Dies(s)

Spec == Init /\ [][Next]_vars

-----------------------------------------------------------------------------
\* A message is disposed of only when every PDF it carried is in the directory,
\* whole, whatever another pass was writing there meanwhile; unless Graph had
\* answered the request for its attachments without a list.
DisposedIsSaved ==
    \A m \in disposed \ unlisted : \A i \in DOMAIN Attachments[m] :
        \E f \in Files :
            dir[f] # None /\ dir[f].message = m /\ dir[f].index = i /\ dir[f].whole

\* What a successful save wrote is never overwritten and never removed, by the
\* writes or by the rollback of any other save.
SavedStays == [][\A f \in kept : dir'[f] = dir[f]]_vars

\* A save that failed has left none of the files it wrote, so that the next try
\* cannot duplicate them.
RolledBack ==
    \A s \in Savers : outcome[s] = "failed" =>
        \A f \in written[s] : dir[f] = None \/ dir[f].by # s
=============================================================================
