------------------------------ MODULE AuditLog ------------------------------
(***************************************************************************)
(* The audit log (src/utils/audit-log.ts): an append-only file of one line *)
(* per audited call, rotated by size.  Every server writes the same file   *)
(* through a queue of its own, so appends and rotations are one after the  *)
(* other within a server, and in any order between servers.                *)
(*                                                                         *)
(* A file is the sequence of its lines; one that does not exist is empty,  *)
(* since a file is created by the append of its first line.  Sizes are     *)
(* counted in lines: maxBytes is 0, or holds maxLines of them.             *)
(***************************************************************************)
EXTENDS Naturals, SequencesExt

CONSTANT Servers

VARIABLES
    audit,       \* the audit slice of the configuration, the same for all
    live,        \* the live file
    slot,        \* the rotated files, 1 the newest
    queue,       \* auditQueue of each server: events not yet written
    writer,      \* what each server's writer does next
    appended,    \* history: the lines in the order of their appends
    missed,      \* history: events never appended
    disturbed,   \* history: two servers have rotated at once, or a rotated
                 \*   file could not be renamed
    cutShort     \* history: a rotation was left half-way

logVars == <<audit, live, slot, queue, writer, appended, missed, disturbed, cutShort>>

Writing == {"idle", "stat", "drop", "shift", "rename", "remove"}

LogInit ==
    /\ live = <<>>
    /\ slot = [i \in 1 .. audit.keep |-> <<>>]
    /\ queue = [s \in Servers |-> <<>>]
    /\ writer = [s \in Servers |-> [at |-> "idle", i |-> 0]]
    /\ appended = <<>>
    /\ missed = {}
    /\ disturbed = FALSE
    /\ cutShort = FALSE

\* withAuditLog: the calls of a tool of this level are audited.
Audited(level) == audit.mode # "off" /\ (level = "read" => audit.mode = "all")

\* appendAuditEvent, not awaited: the call is answered whatever becomes of it.
Enqueue(s, event) == queue' = [queue EXCEPT ![s] = Append(@, event)]

At(s, step) == writer[s].at = step
WriterTo(s, step) == writer' = [writer EXCEPT ![s] = [at |-> step, i |-> 0]]
Rotating(s) == writer[s].at \in {"drop", "shift", "rename", "remove"}

-----------------------------------------------------------------------------
\* writeAuditEvent

AppendLine(s) ==
    /\ At(s, "idle") /\ queue[s] # <<>>
    /\ live' = Append(live, Head(queue[s]))
    /\ appended' = Append(appended, Head(queue[s]))
    /\ queue' = [queue EXCEPT ![s] = Tail(@)]
    /\ WriterTo(s, "stat")
    /\ UNCHANGED <<audit, slot, missed, disturbed, cutShort>>

\* Mutant: the rejection is not caught, and breaks the chain of appends.
AppendBreaks(s) ==
    /\ At(s, "idle") /\ queue[s] # <<>>
    /\ WriterTo(s, "broken")
    /\ UNCHANGED <<audit, live, slot, queue, appended, missed, disturbed, cutShort>>

\* The directory or the disk refuses: the event is lost, the chain goes on.
AppendFails(s) ==
    /\ At(s, "idle") /\ queue[s] # <<>>
    /\ missed' = missed \cup {Head(queue[s])}
    /\ queue' = [queue EXCEPT ![s] = Tail(@)]
    /\ UNCHANGED <<audit, live, slot, writer, appended, disturbed, cutShort>>

-----------------------------------------------------------------------------
\* rotateIfNeeded

OverLimit == audit.rotates /\ Len(live) > audit.maxLines

\* stat: a live file that another server has just rotated away is not found.
Stat(s) ==
    /\ At(s, "stat")
    /\ WriterTo(s, IF ~OverLimit THEN "idle" ELSE IF audit.keep > 0 THEN "drop" ELSE "remove")
    /\ disturbed' = (disturbed \/ (OverLimit /\ \E t \in Servers \ {s} : Rotating(t)))
    /\ UNCHANGED <<audit, live, slot, queue, appended, missed, cutShort>>

DropOldest(s) ==
    /\ At(s, "drop")
    /\ slot' = [slot EXCEPT ![audit.keep] = <<>>]
    /\ writer' = [writer EXCEPT ![s] = [at |-> "shift", i |-> audit.keep - 1]]
    /\ UNCHANGED <<audit, live, queue, appended, missed, disturbed, cutShort>>

\* Mutant: the loop stops before the newest rotated file.
RenamedButFirst(i) ==
    IF slot[i] = <<>> \/ i = 1 THEN slot ELSE [slot EXCEPT ![i + 1] = slot[i], ![i] = <<>>]

\* rename .i to .(i+1), replacing what is there; a missing .i changes nothing.
Renamed(i) == IF slot[i] = <<>> THEN slot ELSE [slot EXCEPT ![i + 1] = slot[i], ![i] = <<>>]

ShiftSlot(s) ==
    /\ At(s, "shift")
    /\ IF writer[s].i = 0
       THEN WriterTo(s, "rename") /\ UNCHANGED slot
       ELSE /\ slot' = Renamed(writer[s].i)
            /\ writer' = [writer EXCEPT ![s].i = @ - 1]
    /\ UNCHANGED <<audit, live, queue, appended, missed, disturbed, cutShort>>

\* A failure of the rename is taken for a missing file, and the loop goes on:
\* what comes next replaces the file that could not be moved.
ShiftFails(s) ==
    /\ At(s, "shift") /\ writer[s].i > 0
    /\ slot[writer[s].i] # <<>>
    /\ writer' = [writer EXCEPT ![s].i = @ - 1]
    /\ disturbed' = TRUE
    /\ UNCHANGED <<audit, live, slot, queue, appended, missed, cutShort>>

RenameLive(s) ==
    /\ At(s, "rename")
    /\ slot' = IF live = <<>> THEN slot ELSE [slot EXCEPT ![1] = live]
    /\ live' = <<>>
    /\ WriterTo(s, "idle")
    /\ UNCHANGED <<audit, queue, appended, missed, disturbed, cutShort>>

\* keep is 0: the live file is removed.
RemoveLive(s) ==
    /\ At(s, "remove")
    /\ live' = <<>>
    /\ WriterTo(s, "idle")
    /\ UNCHANGED <<audit, slot, queue, appended, missed, disturbed, cutShort>>

\* rm or the rename of the live file is refused: logged, and the file stays.
RotationFails(s) ==
    /\ Rotating(s)
    /\ writer[s].i = 0
    /\ WriterTo(s, "idle")
    /\ cutShort' = TRUE
    /\ UNCHANGED <<audit, live, slot, queue, appended, missed, disturbed>>

WriterStep(s) ==
    \/ AppendLine(s) \/ Stat(s) \/ DropOldest(s) \/ ShiftSlot(s) \/ RenameLive(s) \/ RemoveLive(s)

\* The process ends: what it had queued is never written.
LogDies(s) ==
    /\ missed' = missed \cup ToSet(queue[s])
    /\ queue' = [queue EXCEPT ![s] = <<>>]
    /\ cutShort' = (cutShort \/ Rotating(s))
    /\ WriterTo(s, "idle")
    /\ UNCHANGED <<audit, live, slot, appended, disturbed>>

-----------------------------------------------------------------------------

\* The lines on disk, the oldest first.
OnDisk == FlattenSeq(Reverse(slot)) \o live

\* The log on disk is the newest part of what was ever appended, in order and
\* without a gap, whatever servers and rotations end half-way; and unless one
\* did, it is never shorter than `keep` full files.  Two servers that rotate at
\* once void both, since the queue serialises one process only, and so does a
\* rotated file that cannot be renamed.
LogKeepsNewest ==
    ~disturbed =>
        /\ IsSuffix(OnDisk, appended)
        /\ \/ OnDisk = appended
           \/ audit.rotates /\ cutShort
           \/ audit.rotates /\ Len(OnDisk) >= audit.keep * (audit.maxLines + 1)
=============================================================================
