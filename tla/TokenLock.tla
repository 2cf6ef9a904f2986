----------------------------- MODULE TokenLock ------------------------------
(***************************************************************************)
(* The file-system lock that serialises OAuth token writes between the MCP *)
(* server and the sign-in server (src/main/auth/token-lock.ts).            *)
(*                                                                         *)
(* The shared state is what is on disk next to the token file: the         *)
(* directory <file>.lock, the owner.json in it, and the directory          *)
(* <file>.lock.recovery that serialises reclaimers.  Every file-system     *)
(* call is one step, because another process can run between any two.  A   *)
(* directory is labelled with the caller whose mkdir made it; the code     *)
(* sees only that it exists, and no guard below reads the label.           *)
(***************************************************************************)
EXTENDS Naturals

CONSTANTS
    Callers,          \* concurrent calls of withTokenLock
    Pids,             \* process ids
    PidOf,            \* the process each caller runs in
    NoOne,            \* no directory, no file
    MaxFaults,        \* file-system calls that fail for no modelled reason
    ExitDuringProbe   \* may a process exit between a reclaimer's read of
                      \* owner.json and its kill(pid, 0)?

ASSUME PidsAssumption   == PidOf \in [Callers -> Pids]
ASSUME NoOneAssumption  == NoOne \notin Callers \cup Pids
ASSUME FaultsAssumption == MaxFaults \in Nat /\ ExitDuringProbe \in BOOLEAN

VARIABLES
    lock,      \* maker of the directory <file>.lock, or NoOne
    owner,     \* <file>.lock/owner.json: who created it, and whether its
               \* content is written yet; or NoOne
    guard,     \* maker of the directory <file>.lock.recovery, or NoOne
    alive,     \* the processes that are running
    pc,        \* where each caller stands
    seen,      \* the pid a reclaimer read from owner.json
    expired,   \* callers whose deadline has passed
    faults     \* file-system calls that failed

vars == <<lock, owner, guard, alive, pc, seen, expired, faults>>

-----------------------------------------------------------------------------

\* A caller that made <file>.lock and has not yet removed it.
HoldingSteps    == {"claim", "write", "inside", "unlinkOwn", "rmdirOwn"}
\* A caller that made the recovery directory and has not yet removed it.
ReclaimingSteps == {"statLock", "statOwner", "read", "probe", "unlinkDead",
                    "rmdirDead", "unguard", "abort"}
WaitingSteps    == {"try", "guard"} \cup ReclaimingSteps \cup {"check"}
Steps           == {"idle"} \cup WaitingSteps \cup HoldingSteps

Holding(c)    == pc[c] \in HoldingSteps
Reclaiming(c) == pc[c] \in ReclaimingSteps
Waiting(c)    == pc[c] \in WaitingSteps
Inside        == {c \in Callers : pc[c] = "inside"}

OwnerFile     == [by : Callers, filled : BOOLEAN]
NoOwnerFile   == owner = NoOne
\* owner.json parses and names a process.
OwnerReadable == ~NoOwnerFile /\ owner.filled

TypeOK ==
    /\ lock \in Callers \cup {NoOne}
    /\ owner \in OwnerFile \cup {NoOne}
    /\ guard \in Callers \cup {NoOne}
    /\ alive \in SUBSET Pids
    /\ pc \in [Callers -> Steps]
    /\ seen \in [Callers -> Pids \cup {NoOne}]
    /\ expired \in SUBSET Callers
    /\ faults \in 0 .. MaxFaults

Init ==
    /\ lock = NoOne
    /\ owner = NoOne
    /\ guard = NoOne
    /\ alive = Pids
    /\ pc = [c \in Callers |-> "idle"]
    /\ seen = [c \in Callers |-> NoOne]
    /\ expired = {}
    /\ faults = 0

-----------------------------------------------------------------------------
\* withTokenLock

At(c, step)   == PidOf[c] \in alive /\ pc[c] = step
Goto(c, step) == pc' = [pc EXCEPT ![c] = step]
Disk          == <<lock, owner, guard>>

Call(c) ==
    /\ At(c, "idle")
    /\ Goto(c, "try")
    /\ expired' = expired \ {c}
    /\ UNCHANGED <<Disk, alive, seen, faults>>

\* Mutant: mkdir(lock, recursive) succeeds on a directory that exists.
MkdirLockRecursive(c) ==
    /\ At(c, "try")
    /\ lock' = c
    /\ Goto(c, "claim")
    /\ UNCHANGED <<owner, guard, alive, seen, expired, faults>>

\* mkdir(lock): success or EEXIST.
MkdirLock(c) ==
    /\ At(c, "try")
    /\ \/ /\ lock = NoOne
          /\ lock' = c
          /\ Goto(c, "claim")
       \/ lock # NoOne /\ Goto(c, "guard") /\ UNCHANGED lock
    /\ UNCHANGED <<owner, guard, alive, seen, expired, faults>>

\* Mutant: the loop has no deadline.
CheckNoDeadline(c) ==
    /\ At(c, "check")
    /\ Goto(c, "try")
    /\ UNCHANGED <<Disk, alive, seen, expired, faults>>

\* After recoverDeadOwner returns: throw past the deadline, else sleep, retry.
CheckDeadline(c) ==
    /\ At(c, "check")
    /\ Goto(c, IF c \in expired THEN "idle" ELSE "try")
    /\ UNCHANGED <<Disk, alive, seen, expired, faults>>

\* writeFile(owner.json, flag wx) creates the file, unless the directory has
\* gone or has an owner.json, ...
CreateOwner(c) ==
    /\ At(c, "claim")
    /\ \/ /\ lock # NoOne /\ NoOwnerFile
          /\ owner' = [by |-> c, filled |-> FALSE]
          /\ Goto(c, "write")
       \/ (lock = NoOne \/ ~NoOwnerFile) /\ Goto(c, "unlinkOwn") /\ UNCHANGED owner
    /\ UNCHANGED <<lock, guard, alive, seen, expired, faults>>

\* ... then fills it, through the open descriptor: a file that was
\* unlinked meanwhile stays unlinked.
FillOwner(c) ==
    /\ At(c, "write")
    /\ owner' = IF owner = [by |-> c, filled |-> FALSE]
                THEN [owner EXCEPT !.filled = TRUE] ELSE owner
    /\ Goto(c, "inside")
    /\ UNCHANGED <<lock, guard, alive, seen, expired, faults>>

\* The operation settles, with a value or an error: the finally block runs.
EndOperation(c) ==
    /\ At(c, "inside")
    /\ Goto(c, "unlinkOwn")
    /\ UNCHANGED <<Disk, alive, seen, expired, faults>>

\* unlink(owner.json): whatever owner.json is there now; ENOENT is ignored.
UnlinkOwn(c) ==
    /\ At(c, "unlinkOwn")
    /\ owner' = NoOne
    /\ Goto(c, "rmdirOwn")
    /\ UNCHANGED <<lock, guard, alive, seen, expired, faults>>

\* rmdir(lock): whatever empty <file>.lock is there now; otherwise it throws
\* out of the call, leaving the directory.
RmdirOwn(c) ==
    /\ At(c, "rmdirOwn")
    /\ lock' = IF NoOwnerFile THEN NoOne ELSE lock
    /\ Goto(c, "idle")
    /\ UNCHANGED <<owner, guard, alive, seen, expired, faults>>

-----------------------------------------------------------------------------
\* recoverDeadOwner

\* mkdir(guard); EEXIST returns to the caller at once.
MkdirGuard(c) ==
    /\ At(c, "guard")
    /\ \/ guard = NoOne /\ guard' = c /\ Goto(c, "statLock")
       \/ guard # NoOne /\ Goto(c, "check") /\ UNCHANGED guard
    /\ UNCHANGED <<lock, owner, alive, seen, expired, faults>>

\* lstat(lock): ENOENT gives up quietly.
StatLock(c) ==
    /\ At(c, "statLock")
    /\ Goto(c, IF lock = NoOne THEN "unguard" ELSE "statOwner")
    /\ UNCHANGED <<Disk, alive, seen, expired, faults>>

\* lstat(owner.json): ENOENT gives up quietly; a file not yet written passes.
StatOwner(c) ==
    /\ At(c, "statOwner")
    /\ Goto(c, IF NoOwnerFile THEN "unguard" ELSE "read")
    /\ UNCHANGED <<Disk, alive, seen, expired, faults>>

\* Mutant: a missing or half-written owner.json counts as a dead owner.
ReadOwnerOrDead(c) ==
    /\ At(c, "read")
    /\ \/ /\ OwnerReadable
          /\ seen' = [seen EXCEPT ![c] = PidOf[owner.by]]
          /\ Goto(c, "probe")
       \/ ~OwnerReadable /\ Goto(c, "unlinkDead") /\ UNCHANGED seen
    /\ UNCHANGED <<Disk, alive, expired, faults>>

\* Mutant: the caller's mark is kept where its pid is needed.
ReadOwnerNonce(c) ==
    /\ At(c, "read")
    /\ OwnerReadable
    /\ seen' = [seen EXCEPT ![c] = owner.by]
    /\ Goto(c, "probe")
    /\ UNCHANGED <<Disk, alive, expired, faults>>

\* readFile(owner.json): a file that has gone meanwhile or does not parse gives
\* up quietly.
ReadOwner(c) ==
    /\ At(c, "read")
    /\ \/ /\ OwnerReadable
          /\ seen' = [seen EXCEPT ![c] = PidOf[owner.by]]
          /\ Goto(c, "probe")
       \/ ~OwnerReadable /\ Goto(c, "unguard") /\ UNCHANGED seen
    /\ UNCHANGED <<Disk, alive, expired, faults>>

\* Mutant: no answer of kill(pid, 0) counts as stale evidence.
ProbeNeverDead(c) ==
    /\ At(c, "probe")
    /\ Goto(c, "unguard")
    /\ UNCHANGED <<Disk, alive, seen, expired, faults>>

\* Mutant: any answer of kill(pid, 0) counts as stale evidence.
ProbeAlwaysDead(c) ==
    /\ At(c, "probe")
    /\ Goto(c, "unlinkDead")
    /\ UNCHANGED <<Disk, alive, seen, expired, faults>>

\* kill(pid, 0): alive, or ESRCH.
Probe(c) ==
    /\ At(c, "probe")
    /\ Goto(c, IF seen[c] \in alive THEN "unguard" ELSE "unlinkDead")
    /\ UNCHANGED <<Disk, alive, seen, expired, faults>>

\* unlink(owner.json): ENOENT gives up quietly.
UnlinkDead(c) ==
    /\ At(c, "unlinkDead")
    /\ \/ ~NoOwnerFile /\ owner' = NoOne /\ Goto(c, "rmdirDead")
       \/ NoOwnerFile /\ Goto(c, "unguard") /\ UNCHANGED owner
    /\ UNCHANGED <<lock, guard, alive, seen, expired, faults>>

\* rmdir(lock): ENOENT gives up quietly, ENOTEMPTY throws.
RmdirDead(c) ==
    /\ At(c, "rmdirDead")
    /\ \/ NoOwnerFile /\ lock' = NoOne /\ Goto(c, "unguard")
       \/ ~NoOwnerFile /\ Goto(c, "abort") /\ UNCHANGED lock
    /\ UNCHANGED <<owner, guard, alive, seen, expired, faults>>

\* finally: rmdir(guard), then return to the loop or throw out of the call.
RmdirGuard(c) ==
    /\ \/ At(c, "unguard") /\ Goto(c, "check")
       \/ At(c, "abort") /\ Goto(c, "idle")
    /\ guard' = NoOne
    /\ seen' = [seen EXCEPT ![c] = NoOne]
    /\ UNCHANGED <<lock, owner, alive, expired, faults>>

-----------------------------------------------------------------------------
\* Errors, time and processes

\* Where an unexpected error of the file-system call of each step leads.
ErrorPath ==
    [try |-> "idle", claim |-> "unlinkOwn", write |-> "unlinkOwn",
     unlinkOwn |-> "idle", rmdirOwn |-> "idle",
     guard |-> "idle", statLock |-> "abort", statOwner |-> "abort",
     read |-> "abort", unlinkDead |-> "abort", rmdirDead |-> "abort",
     unguard |-> "idle", abort |-> "idle"]

\* The call changes nothing on disk and throws.
CallFails(c) ==
    /\ pc[c] \in DOMAIN ErrorPath
    /\ At(c, pc[c])
    /\ faults < MaxFaults
    /\ faults' = faults + 1
    /\ Goto(c, ErrorPath[pc[c]])
    /\ UNCHANGED <<Disk, alive, seen, expired>>

Expire(c) ==
    /\ Waiting(c)
    /\ c \notin expired
    /\ expired' = expired \cup {c}
    /\ UNCHANGED <<Disk, alive, pc, seen, faults>>

\* A process exits or is killed: its calls are gone, what it left on disk stays.
Exit(p) ==
    /\ p \in alive
    /\ ExitDuringProbe \/ \A c \in Callers : pc[c] = "probe" => seen[c] # p
    /\ alive' = alive \ {p}
    /\ pc' = [c \in Callers |-> IF PidOf[c] = p THEN "idle" ELSE pc[c]]
    /\ seen' = [c \in Callers |-> IF PidOf[c] = p THEN NoOne ELSE seen[c]]
    /\ expired' = {c \in expired : PidOf[c] # p}
    /\ UNCHANGED <<Disk, faults>>

\* A new process starts; it may be given the pid of one that died.
Start(p) ==
    /\ p \notin alive
    /\ alive' = alive \cup {p}
    /\ UNCHANGED <<Disk, pc, seen, expired, faults>>

CallerStep(c) ==
    \/ MkdirLock(c)  \/ CheckDeadline(c)
    \/ CreateOwner(c) \/ FillOwner(c) \/ UnlinkOwn(c) \/ RmdirOwn(c)
    \/ MkdirGuard(c) \/ StatLock(c) \/ StatOwner(c) \/ ReadOwner(c) \/ Probe(c)
    \/ UnlinkDead(c) \/ RmdirDead(c) \/ RmdirGuard(c)

Next ==
    \/ \E c \in Callers :
          Call(c) \/ CallerStep(c) \/ EndOperation(c) \/ CallFails(c) \/ Expire(c)
    \/ \E p \in Pids : Exit(p) \/ Start(p)

Spec == Init /\ [][Next]_vars

\* A live process runs its callbacks and time passes.  Nothing says that a
\* token operation settles, that anyone calls, exits or starts.
Fairness == \A c \in Callers : WF_vars(CallerStep(c)) /\ WF_vars(Expire(c))

FairSpec == Spec /\ Fairness

-----------------------------------------------------------------------------
\* Safety

\* Two token operations never run at once: the point of the lock.  Without it
\* a refresh and a sign-in can overwrite each other's rotated refresh token.
MutualExclusion == \A c, d \in Inside : c = d

\* The lock directory of a caller between its mkdir and its rmdir is removed
\* by nobody else, neither by a reclaimer nor by another caller's release.
LiveLockKept ==
    [][lock # NoOne /\ lock' # lock /\ Holding(lock) => pc[lock] = "rmdirOwn"]_vars

\* withTokenLock implements the mutex that the token operations rely on.
Mutex == INSTANCE TokenMutex WITH inside <- Inside
MutexSpec == Mutex!Spec

-----------------------------------------------------------------------------
\* Liveness

\* A wait for the lock is bounded: it ends, with the lock or with an error,
\* even if the holder never releases or has left a lock nobody can recover.
BoundedWait == \A c \in Callers : Waiting(c) ~> ~Waiting(c)

Abandoned == OwnerReadable /\ PidOf[owner.by] \notin alive
GuardAbandoned == guard # NoOne /\ ~Reclaiming(guard)

\* Once no more processes come and go, the lock of a dead process does not
\* outlast the calls that wait for it: it is recovered, unless a reclaimer
\* died, or failed, and left its recovery directory.
DeadOwnerRecovered ==
    <>[][alive' = alive]_vars =>
        []<>(~Abandoned \/ GuardAbandoned \/ \A c \in Callers : ~Waiting(c))

-----------------------------------------------------------------------------
(***************************************************************************)
(* The inductive invariant behind MutualExclusion when no process exits    *)
(* during a probe: the directory is its holder's, and what a reclaimer has *)
(* read is either live, or a dead owner's file nobody else will touch.     *)
(***************************************************************************)
DirectoryOfHolder == \A c \in Callers : Holding(c) => lock = c

OwnerOfMaker == ~NoOwnerFile => lock # NoOne /\ owner.by = lock

OwnerOfHolder ==
    \A c \in Callers :
       /\ pc[c] \in {"claim", "rmdirOwn"} => NoOwnerFile
       /\ pc[c] = "write" => owner = [by |-> c, filled |-> FALSE]

GuardOfReclaimer == \A c \in Callers : Reclaiming(c) => guard = c

RunningCallersLive == \A c \in Callers : pc[c] # "idle" => PidOf[c] \in alive

ReclaimsOrphan ==
    \A c \in Callers :
       /\ pc[c] = "probe" =>
             \/ seen[c] \in alive
             \/ ~NoOwnerFile /\ ~Holding(lock)
       /\ pc[c] = "unlinkDead" => ~NoOwnerFile /\ ~Holding(lock)
       /\ pc[c] = "rmdirDead" => NoOwnerFile /\ lock # NoOne /\ ~Holding(lock)

LockInv ==
    /\ TypeOK
    /\ DirectoryOfHolder
    /\ OwnerOfMaker
    /\ OwnerOfHolder
    /\ GuardOfReclaimer
    /\ RunningCallersLive
    /\ ReclaimsOrphan
=============================================================================
