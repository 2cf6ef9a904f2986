-------------------------- MODULE TokenLockProofs ---------------------------
(***************************************************************************)
(* Proofs about TokenLock for every set of callers and processes.          *)
(***************************************************************************)
EXTENDS TokenLock, TLAPS

\* Type correctness is inductive by itself, whatever processes do.
LEMMA InitTypeOK == Init => TypeOK
  BY FaultsAssumption DEF Init, TypeOK, Steps

LEMMA NextTypeOK == TypeOK /\ [Next]_vars => TypeOK'
<1> SUFFICES ASSUME TypeOK, [Next]_vars
             PROVE  TypeOK'
  OBVIOUS
<1> USE PidsAssumption, NoOneAssumption, FaultsAssumption
    DEF TypeOK, Steps, WaitingSteps, ReclaimingSteps, HoldingSteps, Disk, At, Goto,
        OwnerFile, OwnerReadable, NoOwnerFile
<1>1. ASSUME NEW c \in Callers, Call(c) PROVE TypeOK'
  BY <1>1 DEF Call
<1>2. ASSUME NEW c \in Callers, CallerStep(c) PROVE TypeOK'
  <2>1. CASE MkdirLock(c)     BY <2>1 DEF MkdirLock
  <2>2. CASE CheckDeadline(c) BY <2>2 DEF CheckDeadline
  <2>3. CASE CreateOwner(c)
    <3>1. [by |-> c, filled |-> FALSE] \in OwnerFile
      BY Zenon
    <3>2. owner' \in OwnerFile \cup {NoOne}
      BY <2>3, <3>1, Zenon DEF CreateOwner
    <3> QED BY <2>3, <3>2 DEF CreateOwner
  <2>4. CASE FillOwner(c)
    <3>1. ASSUME owner \in OwnerFile PROVE [owner EXCEPT !.filled = TRUE] \in OwnerFile
      BY <3>1
    <3>2. ASSUME owner = [by |-> c, filled |-> FALSE] PROVE owner \in OwnerFile
      BY <3>2, Zenon
    <3>3. owner' \in OwnerFile \cup {NoOne}
      BY <2>4, <3>1, <3>2 DEF FillOwner
    <3> QED BY <2>4, <3>3 DEF FillOwner
  <2>5. CASE UnlinkOwn(c)     BY <2>5 DEF UnlinkOwn
  <2>6. CASE RmdirOwn(c)      BY <2>6 DEF RmdirOwn
  <2>7. CASE MkdirGuard(c)    BY <2>7 DEF MkdirGuard
  <2>8. CASE ReadOwner(c)     BY <2>8 DEF ReadOwner
  <2>9. CASE Probe(c)         BY <2>9 DEF Probe
  <2>10. CASE UnlinkDead(c)   BY <2>10 DEF UnlinkDead
  <2>11. CASE RmdirDead(c)    BY <2>11 DEF RmdirDead
  <2>12. CASE RmdirGuard(c)   BY <2>12 DEF RmdirGuard
  <2>13. CASE StatLock(c)     BY <2>13 DEF StatLock
  <2>14. CASE StatOwner(c)    BY <2>14 DEF StatOwner
  <2> QED BY <1>2, <2>1, <2>2, <2>3, <2>4, <2>5, <2>6, <2>7, <2>8, <2>9, <2>10,
             <2>11, <2>12, <2>13, <2>14 DEF CallerStep
<1>3. ASSUME NEW c \in Callers, EndOperation(c) PROVE TypeOK'
  BY <1>3 DEF EndOperation
<1>4. ASSUME NEW c \in Callers, CallFails(c) PROVE TypeOK'
  BY <1>4 DEF CallFails, ErrorPath
<1>5. ASSUME NEW c \in Callers, Expire(c) PROVE TypeOK'
  BY <1>5 DEF Expire
<1>6. ASSUME NEW p \in Pids, Exit(p) PROVE TypeOK'
  BY <1>6 DEF Exit
<1>7. ASSUME NEW p \in Pids, Start(p) PROVE TypeOK'
  BY <1>7 DEF Start
<1>8. CASE UNCHANGED vars
  BY <1>8 DEF vars
<1> QED BY <1>1, <1>2, <1>3, <1>4, <1>5, <1>6, <1>7, <1>8 DEF Next

THEOREM TypeCorrect == Spec => []TypeOK
  BY InitTypeOK, NextTypeOK, PTL DEF Spec
-----------------------------------------------------------------------------
\* If no process exits between a reclaimer's read of owner.json and its probe,
\* LockInv is inductive.

LEMMA InitLockInv == Init => LockInv
<1> SUFFICES ASSUME Init PROVE LockInv
  OBVIOUS
<1>1. TypeOK
  BY InitTypeOK
<1> QED BY <1>1 DEF Init, LockInv, DirectoryOfHolder, OwnerOfMaker, OwnerOfHolder,
      GuardOfReclaimer, RunningCallersLive, ReclaimsOrphan, Holding, Reclaiming,
      HoldingSteps, ReclaimingSteps, NoOwnerFile

LEMMA NextLockInv ==
    ASSUME ~ExitDuringProbe, LockInv, [Next]_vars
    PROVE  LockInv'
<1> DEFINE Inv ==
      /\ DirectoryOfHolder /\ OwnerOfMaker /\ OwnerOfHolder
      /\ GuardOfReclaimer /\ RunningCallersLive /\ ReclaimsOrphan
<1>0. TypeOK /\ TypeOK' /\ Inv
  BY NextTypeOK DEF LockInv
<1> USE PidsAssumption, NoOneAssumption, <1>0
    DEF TypeOK, DirectoryOfHolder, OwnerOfMaker, OwnerOfHolder,
        GuardOfReclaimer, RunningCallersLive, ReclaimsOrphan, Holding, Reclaiming,
        HoldingSteps, ReclaimingSteps, NoOwnerFile, OwnerReadable, OwnerFile,
        Disk, At, Goto
<1>1. ASSUME NEW c \in Callers, Call(c) PROVE Inv'
  BY <1>1 DEF Call
<1>2. ASSUME NEW c \in Callers, CallerStep(c) PROVE Inv'
  <2>1. CASE MkdirLock(c)     BY <2>1 DEF MkdirLock
  <2>2. CASE CheckDeadline(c) BY <2>2 DEF CheckDeadline
  <2>3. CASE CreateOwner(c)   BY <2>3 DEF CreateOwner
  <2>4. CASE FillOwner(c)     BY <2>4 DEF FillOwner
  <2>5. CASE UnlinkOwn(c)     BY <2>5 DEF UnlinkOwn
  <2>6. CASE RmdirOwn(c)      BY <2>6 DEF RmdirOwn
  <2>7. CASE MkdirGuard(c)    BY <2>7 DEF MkdirGuard
  <2>8. CASE ReadOwner(c)     BY <2>8 DEF ReadOwner
  <2>9. CASE Probe(c)         BY <2>9 DEF Probe
  <2>10. CASE UnlinkDead(c)   BY <2>10 DEF UnlinkDead
  <2>11. CASE RmdirDead(c)    BY <2>11 DEF RmdirDead
  <2>12. CASE RmdirGuard(c)   BY <2>12 DEF RmdirGuard
  <2>13. CASE StatLock(c)     BY <2>13 DEF StatLock
  <2>14. CASE StatOwner(c)    BY <2>14 DEF StatOwner
  <2> QED BY <1>2, <2>1, <2>2, <2>3, <2>4, <2>5, <2>6, <2>7, <2>8, <2>9, <2>10,
             <2>11, <2>12, <2>13, <2>14 DEF CallerStep
<1>3. ASSUME NEW c \in Callers, EndOperation(c) PROVE Inv'
  BY <1>3 DEF EndOperation
<1>4. ASSUME NEW c \in Callers, CallFails(c) PROVE Inv'
  BY <1>4 DEF CallFails, ErrorPath
<1>5. ASSUME NEW c \in Callers, Expire(c) PROVE Inv'
  BY <1>5 DEF Expire
<1>6. ASSUME NEW p \in Pids, Exit(p) PROVE Inv'
  BY <1>6 DEF Exit
<1>7. ASSUME NEW p \in Pids, Start(p) PROVE Inv'
  BY <1>7 DEF Start
<1>8. ASSUME UNCHANGED vars PROVE Inv'
  BY <1>8 DEF vars
<1>9. Inv'
  BY <1>1, <1>2, <1>3, <1>4, <1>5, <1>6, <1>7, <1>8 DEF Next
<1> QED BY <1>0, <1>9 DEF LockInv

\* What a process may rely on when none exits during a probe: the directory
\* belongs to its holder, and a reclaimer only ever removes a dead owner's.
THEOREM LockInvariant ==
    ASSUME ~ExitDuringProbe
    PROVE  Spec => []LockInv
<1>1. Init => LockInv
  BY InitLockInv
<1>2. LockInv /\ [Next]_vars => LockInv'
  BY NextLockInv
<1> QED BY <1>1, <1>2, PTL DEF Spec

\* Under the same assumption, two token operations never run at once.
THEOREM MutualExclusionHolds ==
    ASSUME ~ExitDuringProbe
    PROVE  Spec => []MutualExclusion
<1>1. LockInv => MutualExclusion
  BY DEF LockInv, DirectoryOfHolder, MutualExclusion, Inside, Holding, HoldingSteps
<1> QED BY <1>1, LockInvariant, PTL

\* Under the same assumption, the directory of a live holder is removed only by
\* its own release.
THEOREM LiveLockKeptHolds ==
    ASSUME ~ExitDuringProbe
    PROVE  Spec => LiveLockKept
<1> DEFINE Kept == lock # NoOne /\ lock' # lock /\ Holding(lock) => pc[lock] = "rmdirOwn"
<1>1. ASSUME LockInv, [Next]_vars PROVE [Kept]_vars
  <2> SUFFICES ASSUME lock # NoOne, lock' # lock, Holding(lock)
               PROVE  pc[lock] = "rmdirOwn"
    OBVIOUS
  <2> USE <1>1 DEF LockInv, TypeOK, Disk, Holding, HoldingSteps
  <2>1. lock \in Callers
    OBVIOUS
  <2>2. ASSUME NEW c \in Callers, CallerStep(c) PROVE pc[lock] = "rmdirOwn"
    <3>1. CASE MkdirLock(c)
      BY <3>1 DEF MkdirLock
    <3>2. CASE RmdirOwn(c)
      BY <3>2 DEF RmdirOwn, At, DirectoryOfHolder
    <3>3. CASE RmdirDead(c)
      BY <3>3 DEF RmdirDead, At, ReclaimsOrphan
    <3> QED BY <2>2, <3>1, <3>2, <3>3 DEF CallerStep, CheckDeadline, CreateOwner,
              FillOwner, UnlinkOwn, MkdirGuard, StatLock, StatOwner, ReadOwner, Probe,
              UnlinkDead, RmdirGuard
  <2> QED BY <2>2 DEF Next, vars, Call, EndOperation, CallFails, Expire, Exit, Start
<1>2. LockInv /\ [Next]_vars => [Kept]_vars
  BY <1>1
<1>3. Spec => [][Kept]_vars
  BY <1>2, LockInvariant, PTL DEF Spec
<1> QED BY <1>3 DEF LiveLockKept

-----------------------------------------------------------------------------
\* Under the same assumption, withTokenLock implements the mutex on which
\* TokenStore is built.
THEOREM ImplementsMutex ==
    ASSUME ~ExitDuringProbe
    PROVE  Spec => MutexSpec
<1>1. Init => Mutex!Init
  BY DEF Init, Mutex!Init, Inside
<1>2. ASSUME LockInv, [Next]_vars PROVE [Mutex!Next]_Inside
  <2> USE <1>2 DEF LockInv, TypeOK, Inside, At, Goto
  <2>1. ASSUME NEW c \in Callers, FillOwner(c) PROVE Mutex!Enter(c)
    <3>1. pc[c] = "write" /\ pc' = [pc EXCEPT ![c] = "inside"]
      BY <2>1 DEF FillOwner
    <3>2. Inside = {}
      BY <3>1 DEF DirectoryOfHolder, Holding, HoldingSteps
    <3>3. Inside' = {c}
      BY <3>1, <3>2
    <3> QED BY <3>2, <3>3 DEF Mutex!Enter
  <2>2. ASSUME NEW c \in Callers, EndOperation(c) PROVE Mutex!Leave(c)
    <3>1. pc[c] = "inside" /\ pc' = [pc EXCEPT ![c] = "unlinkOwn"]
      BY <2>2 DEF EndOperation
    <3>2. Inside = {c}
      BY <3>1 DEF DirectoryOfHolder, Holding, HoldingSteps
    <3>3. Inside' = {}
      BY <3>1, <3>2
    <3> QED BY <3>2, <3>3 DEF Mutex!Leave
  <2>3. ASSUME NEW p \in Pids, Exit(p)
        PROVE  UNCHANGED Inside \/ \E c \in Callers : Mutex!Leave(c)
    <3>1. CASE \E c \in Inside : PidOf[c] = p
      <4> PICK c \in Inside : PidOf[c] = p
        BY <3>1
      <4>1. Inside = {c}
        BY DEF DirectoryOfHolder, Holding, HoldingSteps
      <4>2. Inside' = {}
        BY <2>3, <4>1 DEF Exit
      <4> QED BY <4>1, <4>2 DEF Mutex!Leave
    <3>2. CASE \A c \in Inside : PidOf[c] # p
      BY <2>3, <3>2 DEF Exit
    <3> QED BY <3>1, <3>2
  <2>4. ASSUME NEW c \in Callers, CallFails(c) PROVE UNCHANGED Inside
    BY <2>4 DEF CallFails, ErrorPath
  <2>5. ASSUME NEW c \in Callers, CallerStep(c), ~FillOwner(c) PROVE UNCHANGED Inside
    BY <2>5 DEF CallerStep, MkdirLock, CheckDeadline, CreateOwner, UnlinkOwn, RmdirOwn,
       MkdirGuard, StatLock, StatOwner, ReadOwner, Probe, UnlinkDead, RmdirDead,
       RmdirGuard
  <2>6. ASSUME NEW c \in Callers, Call(c) \/ Expire(c) PROVE UNCHANGED Inside
    BY <2>6 DEF Call, Expire
  <2>7. ASSUME NEW p \in Pids, Start(p) PROVE UNCHANGED Inside
    BY <2>7 DEF Start
  <2>8. ASSUME UNCHANGED vars PROVE UNCHANGED Inside
    BY <2>8 DEF vars
  <2> QED BY <2>1, <2>2, <2>3, <2>4, <2>5, <2>6, <2>7, <2>8 DEF Next, Mutex!Next
<1>3. LockInv /\ [Next]_vars => [Mutex!Next]_Inside
  BY <1>2
<1> QED BY <1>1, <1>3, LockInvariant, PTL DEF Spec, MutexSpec, Mutex!Spec
=============================================================================
