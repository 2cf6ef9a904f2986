-------------------------- MODULE TokenStoreProofs --------------------------
(***************************************************************************)
(* Proofs about TokenStore for every set of servers, sign-ins and tool     *)
(* calls: the stored session stays usable, no copy in memory runs ahead of *)
(* it, and a refresh replaces only the tokens it was computed from.        *)
(*                                                                         *)
(* StoreInv adds to those properties what they owe to the lock: whoever    *)
(* has reloaded the file under it is alone, so the file is still what was  *)
(* read, or deleted, and the candidate to save is the newest token issued. *)
(***************************************************************************)
EXTENDS TokenStore, TLAPS

Working  == {"reload", "acquire", "save"}
Acquired == {"acquire", "save"}

\* The lock is held exactly by the one that works under it.
LockOfWorkers ==
    /\ \A s \in Servers : s \in inside <=> flow[s] \in Working
    /\ \A e \in SignIns : e \in inside <=> signIn[e] \in Working
    /\ \A a, b \in inside : a = b

\* What was read under the lock can be refreshed and is still the file, unless
\* the user has deleted it; a sign-in keeps no refresh token but a usable one.
PriorIsStored ==
    /\ \A s \in Servers : flow[s] \in Acquired =>
          /\ HasRefresh(prior[s])
          /\ file \in {prior[s], None}
    /\ \A e \in SignIns : signIn[e] \in Acquired /\ HasRefresh(prior[e]) =>
          prior[e].refresh \in valid \cup stranded

\* The candidate to save is the last token issued, and can be refreshed.
NextIsNewest ==
    /\ \A s \in Servers : flow[s] = "save" =>
          next[s] # None /\ next[s].id = issued /\ next[s].refresh \in valid
    /\ \A e \in SignIns : signIn[e] = "save" =>
          /\ next[e] # None /\ next[e].id = issued
          /\ HasRefresh(next[e]) => next[e].refresh \in valid \cup stranded

\* No token is held before it is issued.
HeldWasIssued ==
    /\ file # None => file.id <= issued
    /\ \A s \in Servers : mem[s] # None => mem[s].id <= issued

StoreInv ==
    /\ TypeOK /\ LockOfWorkers /\ PriorIsStored /\ NextIsNewest /\ HeldWasIssued
    /\ FileUsable /\ MemoryNotAhead
-----------------------------------------------------------------------------

LEMMA InitStoreInv == Init => StoreInv
  BY IssuedAssumption, DisjointAssumption
  DEF Init, StoreInv, TypeOK, LockOfWorkers, PriorIsStored, NextIsNewest, HeldWasIssued,
      FileUsable, MemoryNotAhead, HasRefresh, MaybeTokens, CallSteps, FlowSteps, Actors,
      Working, Acquired, Lock!Init

\* The fields of a token set, and its construction.
LEMMA TokenFields ==
    ASSUME NEW t \in TokenSet
    PROVE  t.id \in 1 .. MaxIssued /\ t.refresh \in 0 .. MaxIssued
  BY DEF TokenSet

LEMMA TokenMade ==
    ASSUME NEW id \in 1 .. MaxIssued, NEW refresh \in 0 .. MaxIssued
    PROVE  [id |-> id, refresh |-> refresh] \in TokenSet
  BY DEF TokenSet

\* What a refresh grant changes.
LEMMA GrantEffect ==
    ASSUME NEW r, NEW id, NEW refresh, Grant(r, [id |-> id, refresh |-> refresh])
    PROVE  /\ issued < MaxIssued /\ r \in valid
           /\ issued' = issued + 1 /\ id = issued + 1
           /\ expired' = expired
           /\ \/ refresh = 0 /\ valid' = valid
              \/ refresh = issued + 1 /\ valid' = (valid \ {r}) \cup {issued + 1}
  BY DEF Grant

\* The same, for an answer that is lost.
LEMMA GrantRotates ==
    ASSUME NEW r, NEW granted, Grant(r, granted)
    PROVE  /\ issued < MaxIssued /\ r \in valid
           /\ issued' = issued + 1
           /\ expired' = expired
           /\ valid' = valid \/ valid' = (valid \ {r}) \cup {issued + 1}
  BY Zenon DEF Grant

LEMMA GrantTypes ==
    ASSUME TypeOK, NEW r, NEW granted, Grant(r, granted)
    PROVE  /\ issued' \in 0 .. MaxIssued /\ expired' = expired
           /\ valid' \in SUBSET (1 .. MaxIssued)
           /\ r \in 1 .. MaxIssued
<1> issued \in Nat /\ issued' = issued + 1 /\ issued < MaxIssued /\ r \in valid
    /\ expired' = expired
  BY GrantRotates DEF TypeOK
<1> valid \subseteq 1 .. MaxIssued
  BY DEF TypeOK
<1> issued + 1 \in 1 .. MaxIssued
  BY IssuedAssumption
<1> valid' \subseteq valid \cup {issued + 1}
  BY GrantRotates
<1> QED BY IssuedAssumption

\* The refresh token a refresh holds is one the provider has issued.
LEMMA PriorRefresh ==
    ASSUME TypeOK, PriorIsStored, NEW s \in Servers, flow[s] \in Acquired
    PROVE  prior[s].refresh \in 1 .. MaxIssued
  BY TokenFields DEF TypeOK, PriorIsStored, HasRefresh, MaybeTokens, Actors

\* The types need one fact more: what a failed save strands was an issued token.
LEMMA NextTypeOK == TypeOK /\ PriorIsStored /\ [Next]_vars => TypeOK'
<1> SUFFICES ASSUME TypeOK, PriorIsStored, [Next]_vars
             PROVE  TypeOK'
  OBVIOUS
<1> USE IssuedAssumption, NoneAssumption, ServerOfAssumption
    DEF TypeOK, MaybeTokens, CallSteps, FlowSteps, Actors, client, provider, Goto,
        Release, EndFlow, FailFlow, Lock!Enter, Lock!Leave
<1>1. ASSUME NEW k \in Calls, StartLoad(k) PROVE TypeOK'
  BY <1>1 DEF StartLoad
<1>2. ASSUME NEW k \in Calls, CheckTokens(k) PROVE TypeOK'
  BY <1>2 DEF CheckTokens
<1>3. ASSUME NEW s \in Servers, FinishLoad(s) PROVE TypeOK'
  BY <1>3 DEF FinishLoad
<1>4. ASSUME NEW s \in Servers, RefreshLock(s) PROVE TypeOK'
  BY <1>4 DEF RefreshLock
<1>5. ASSUME NEW s \in Servers, RefreshLockFails(s) PROVE TypeOK'
  BY <1>5 DEF RefreshLockFails
<1>6. ASSUME NEW s \in Servers, RefreshReload(s) PROVE TypeOK'
  <2>1. CASE FailFlow(s) /\ Release(s)
    BY <1>6, <2>1 DEF RefreshReload
  <2>2. CASE EndFlow(s, file) /\ Release(s)
    BY <1>6, <2>2 DEF RefreshReload
  <2>3. CASE /\ prior' = [prior EXCEPT ![s] = file]
             /\ flow' = [flow EXCEPT ![s] = "acquire"]
             /\ mem' = [mem EXCEPT ![s] = file]
             /\ UNCHANGED <<observed, call, inside, next>>
    BY <1>6, <2>3 DEF RefreshReload
  <2> QED BY <1>6, <2>1, <2>2, <2>3 DEF RefreshReload
<1>7. ASSUME NEW s \in Servers, RefreshAcquire(s) PROVE TypeOK'
  <2>1. PICK id, refresh \in 0 .. MaxIssued :
          /\ Grant(prior[s].refresh, [id |-> id, refresh |-> refresh])
          /\ next' = [next EXCEPT ![s] = [id |-> id, refresh |->
                         IF refresh = 0 THEN prior[s].refresh ELSE refresh]]
    BY <1>7 DEF RefreshAcquire
  <2> DEFINE granted == [id |-> id, refresh |->
                            IF refresh = 0 THEN prior[s].refresh ELSE refresh]
  <2>2. /\ issued < MaxIssued /\ prior[s].refresh \in valid
        /\ issued' = issued + 1 /\ id = issued + 1
        /\ expired' = expired
        /\ \/ refresh = 0 /\ valid' = valid
           \/ refresh = issued + 1 /\ valid' = (valid \ {prior[s].refresh}) \cup {issued + 1}
    BY <2>1, GrantEffect
  <2>3. granted \in TokenSet
    BY <2>2, TokenMade
  <2>4. next' = [next EXCEPT ![s] = granted]
    BY <2>1
  <2> HIDE DEF granted
  <2> QED BY <1>7, <2>2, <2>3, <2>4 DEF RefreshAcquire
<1>8. ASSUME NEW s \in Servers, RefreshAcquireFails(s) PROVE TypeOK'
  <2>2. /\ issued' \in 0 .. MaxIssued /\ expired' = expired
        /\ valid' \in SUBSET (1 .. MaxIssued)
        /\ stranded' \in SUBSET (1 .. MaxIssued)
    BY <1>8, GrantTypes DEF RefreshAcquireFails
  <2>3. FailFlow(s) /\ Release(s) /\ UNCHANGED <<load, signIn, file>>
    BY <1>8, Zenon DEF RefreshAcquireFails
  <2> QED BY <2>2, <2>3
<1>9. ASSUME NEW s \in Servers, RefreshSave(s) PROVE TypeOK'
  <2>1. prior[s].refresh \in 1 .. MaxIssued
    BY <1>9, PriorRefresh DEF RefreshSave, Acquired
  <2>2. next[s] \in MaybeTokens
    OBVIOUS
  <2>3. CASE file' = next[s] /\ EndFlow(s, next[s]) /\ UNCHANGED stranded
    BY <1>9, <2>2, <2>3 DEF RefreshSave
  <2>5. CASE file' = next[s] /\ FailFlow(s) /\ UNCHANGED stranded
    BY <1>9, <2>2, <2>5 DEF RefreshSave
  <2>4. CASE /\ FailFlow(s)
             /\ stranded' = stranded \cup ({prior[s].refresh} \ valid)
             /\ UNCHANGED file
    BY <1>9, <2>1, <2>4 DEF RefreshSave
  <2> QED BY <1>9, <2>3, <2>4, <2>5 DEF RefreshSave
<1>10. ASSUME NEW e \in SignIns, StartSignIn(e) PROVE TypeOK'
  BY <1>10 DEF StartSignIn
<1>11. ASSUME NEW e \in SignIns, SignInLock(e) PROVE TypeOK'
  BY <1>11 DEF SignInLock
<1>12. ASSUME NEW e \in SignIns, SignInAcquire(e) PROVE TypeOK'
  <2>1. CASE /\ issued < MaxIssued
             /\ issued' = issued + 1
             /\ valid' \in {valid, valid \cup {issued + 1}}
             /\ next'[e] \in TokenSet
             /\ next' = [next EXCEPT ![e] = next'[e]]
             /\ signIn' = [signIn EXCEPT ![e] = "save"]
             /\ UNCHANGED <<inside, prior>>
    BY <1>12, <2>1 DEF SignInAcquire
  <2>2. CASE /\ signIn' = [signIn EXCEPT ![e] = "none"]
             /\ Release(e)
             /\ UNCHANGED <<issued, valid>>
    BY <1>12, <2>2 DEF SignInAcquire
  <2> DEFINE kept == IF prior[e] = None THEN 0 ELSE prior[e].refresh
             fresh == [id |-> issued + 1, refresh |-> issued + 1]
             bare == [id |-> issued + 1, refresh |-> kept]
  <2>3. kept \in 0 .. MaxIssued
    BY TokenFields
  <2>4. issued < MaxIssued => fresh \in TokenSet /\ bare \in TokenSet
    BY <2>3, TokenMade
  <2> HIDE DEF kept, fresh, bare
  <2>5. \/ /\ issued < MaxIssued
           /\ issued' = issued + 1
           /\ \/ valid' = valid \cup {issued + 1} /\ next' = [next EXCEPT ![e] = fresh]
              \/ UNCHANGED valid /\ next' = [next EXCEPT ![e] = bare]
           /\ signIn' = [signIn EXCEPT ![e] = "save"]
           /\ UNCHANGED <<inside, prior>>
        \/ /\ signIn' = [signIn EXCEPT ![e] = "none"]
           /\ Release(e)
           /\ UNCHANGED <<issued, valid>>
    BY <1>12, Zenon DEF SignInAcquire, fresh, bare, kept
  <2> QED BY <2>1, <2>2, <2>4, <2>5
<1>13. ASSUME NEW e \in SignIns, SignInSave(e) PROVE TypeOK'
  BY <1>13 DEF SignInSave
<1>14. CASE Expire
  <2>1. PICK t \in ({file} \cup {mem[s] : s \in Servers}) \ {None} :
           expired' = expired \cup {t.id}
    BY <1>14 DEF Expire
  <2>2. t.id \in 1 .. MaxIssued
    BY TokenFields
  <2> QED BY <1>14, <2>1, <2>2 DEF Expire
<1>15. CASE DeleteFile
  BY <1>15 DEF DeleteFile
<1>16. ASSUME NEW s \in Servers, Restart(s) PROVE TypeOK'
  BY <1>16, PriorRefresh DEF Restart, Acquired
<1>17. CASE UNCHANGED vars
  BY <1>17 DEF vars
<1> QED BY <1>1, <1>2, <1>3, <1>4, <1>5, <1>6, <1>7, <1>8, <1>9, <1>10, <1>11, <1>12,
           <1>13, <1>14, <1>15, <1>16, <1>17
        DEF Next, CheckCached, CheckLoaded, RefreshStep, SignInStep

\* The lock is entered when free and left by its holder, in one step with the
\* change of flow or signIn that says so.
LEMMA NextLockOfWorkers == TypeOK /\ LockOfWorkers /\ [Next]_vars => LockOfWorkers'
<1> SUFFICES ASSUME TypeOK, LockOfWorkers, [Next]_vars
             PROVE  LockOfWorkers'
  OBVIOUS
<1> USE DisjointAssumption
    DEF TypeOK, LockOfWorkers, Working, FlowSteps, Actors, client, provider,
        Release, EndFlow, FailFlow, Lock!Enter, Lock!Leave
<1>1. ASSUME NEW k \in Calls, StartLoad(k) PROVE LockOfWorkers'
  BY <1>1 DEF StartLoad
<1>2. ASSUME NEW k \in Calls, CheckTokens(k) PROVE LockOfWorkers'
  BY <1>2, ServerOfAssumption DEF CheckTokens
<1>3. ASSUME NEW s \in Servers, FinishLoad(s) PROVE LockOfWorkers'
  BY <1>3 DEF FinishLoad
<1>4. ASSUME NEW s \in Servers, RefreshLock(s) PROVE LockOfWorkers'
  BY <1>4 DEF RefreshLock
<1>5. ASSUME NEW s \in Servers, RefreshLockFails(s) PROVE LockOfWorkers'
  BY <1>5 DEF RefreshLockFails
<1>6. ASSUME NEW s \in Servers, RefreshReload(s) PROVE LockOfWorkers'
  BY <1>6 DEF RefreshReload
<1>7. ASSUME NEW s \in Servers, RefreshAcquire(s) PROVE LockOfWorkers'
  BY <1>7 DEF RefreshAcquire
<1>8. ASSUME NEW s \in Servers, RefreshAcquireFails(s) PROVE LockOfWorkers'
  BY <1>8 DEF RefreshAcquireFails
<1>9. ASSUME NEW s \in Servers, RefreshSave(s) PROVE LockOfWorkers'
  BY <1>9 DEF RefreshSave
<1>10. ASSUME NEW e \in SignIns, StartSignIn(e) PROVE LockOfWorkers'
  BY <1>10 DEF StartSignIn
<1>11. ASSUME NEW e \in SignIns, SignInLock(e) PROVE LockOfWorkers'
  BY <1>11 DEF SignInLock
<1>12. ASSUME NEW e \in SignIns, SignInAcquire(e) PROVE LockOfWorkers'
  BY <1>12 DEF SignInAcquire
<1>13. ASSUME NEW e \in SignIns, SignInSave(e) PROVE LockOfWorkers'
  BY <1>13 DEF SignInSave
<1>14. CASE Expire
  BY <1>14 DEF Expire
<1>15. CASE DeleteFile
  BY <1>15 DEF DeleteFile
<1>16. ASSUME NEW s \in Servers, Restart(s) PROVE LockOfWorkers'
  BY <1>16 DEF Restart
<1>17. CASE UNCHANGED vars
  BY <1>17 DEF vars
<1> QED BY <1>1, <1>2, <1>3, <1>4, <1>5, <1>6, <1>7, <1>8, <1>9, <1>10, <1>11, <1>12,
           <1>13, <1>14, <1>15, <1>16, <1>17
        DEF Next, CheckCached, CheckLoaded, RefreshStep, SignInStep
-----------------------------------------------------------------------------
\* The steps that leave the provider's tokens and the work under the lock alone.

Undisturbed ==
    /\ file' \in {file, None}
    /\ UNCHANGED <<issued, valid, stranded>>
    /\ \A s \in Servers :
          /\ mem'[s] \in {mem[s], None, file}
          /\ flow[s] = "save" => flow'[s] = "save"
          /\ flow'[s] \in Acquired =>
                flow'[s] = flow[s] /\ prior'[s] = prior[s] /\ next'[s] = next[s]
    /\ \A e \in SignIns : signIn'[e] \in Acquired =>
          signIn'[e] = signIn[e] /\ prior'[e] = prior[e] /\ next'[e] = next[e]

\* The part of StoreInv that these steps could disturb.
TokensInv == PriorIsStored /\ NextIsNewest /\ HeldWasIssued /\ FileUsable /\ MemoryNotAhead

LEMMA UndisturbedKeeps == StoreInv /\ Undisturbed => TokensInv'
<1> SUFFICES ASSUME StoreInv, Undisturbed
             PROVE  TokensInv'
  OBVIOUS
<1> USE DEF StoreInv, Undisturbed, Acquired, HasRefresh
<1>1. PriorIsStored'
  BY DEF PriorIsStored
<1>2. NextIsNewest'
  BY DEF NextIsNewest
<1>3. HeldWasIssued'
  BY DEF HeldWasIssued
<1>4. FileUsable'
  <2> SUFFICES ASSUME file' = file, HasRefresh(file), file.refresh \notin valid \cup stranded
               PROVE  \E s \in Servers : Replacing(s)' /\ (prior[s].refresh = file.refresh)'
    BY DEF FileUsable
  <2>1. PICK s \in Servers : Replacing(s) /\ prior[s].refresh = file.refresh
    BY DEF FileUsable
  <2>2. flow'[s] = "save" /\ prior'[s] = prior[s]
    BY <2>1 DEF Replacing
  <2> QED BY <2>1, <2>2 DEF Replacing
<1>5. MemoryNotAhead'
  BY DEF MemoryNotAhead, HeldWasIssued, TypeOK, MaybeTokens, TokenSet
<1> QED BY <1>1, <1>2, <1>3, <1>4, <1>5 DEF TokensInv

LEMMA CallsUndisturbed ==
    ASSUME TypeOK, NEW k \in Calls, StartLoad(k) \/ CheckTokens(k)
    PROVE  Undisturbed
  BY ServerOfAssumption
  DEF StartLoad, CheckTokens, Undisturbed, TypeOK, provider, Acquired

LEMMA ServersUndisturbed ==
    ASSUME TypeOK, NEW s \in Servers,
           FinishLoad(s) \/ RefreshLock(s) \/ RefreshLockFails(s)
    PROVE  Undisturbed
  BY DisjointAssumption
  DEF FinishLoad, RefreshLock, RefreshLockFails, FailFlow, EndFlow, Undisturbed,
      TypeOK, provider, Acquired

LEMMA SignInUndisturbed ==
    ASSUME TypeOK, NEW e \in SignIns, StartSignIn(e)
    PROVE  Undisturbed
  BY DEF StartSignIn, Undisturbed, TypeOK, provider, Acquired

LEMMA WorldUndisturbed ==
    ASSUME TypeOK, Expire \/ DeleteFile \/ UNCHANGED vars
    PROVE  Undisturbed
  BY DEF Expire, DeleteFile, Undisturbed, TypeOK, vars, client, provider, Acquired
-----------------------------------------------------------------------------
\* The steps of the one that holds the lock.

\* While one works under the lock, nobody else does.
LEMMA OthersWait ==
    ASSUME LockOfWorkers, NEW a \in inside
    PROVE  /\ \A s \in Servers : s # a => flow[s] \notin Working
           /\ \A e \in SignIns : e # a => signIn[e] \notin Working
  BY DEF LockOfWorkers

LEMMA ReloadKeeps ==
    ASSUME StoreInv, NEW s \in Servers, RefreshReload(s)
    PROVE  TokensInv'
<1> USE DEF StoreInv, TypeOK, Actors
<1>1. CASE FailFlow(s) /\ Release(s)
  <2> Undisturbed
    BY <1>1, DisjointAssumption
    DEF RefreshReload, FailFlow, EndFlow, Release, Undisturbed, provider, Acquired
  <2> QED BY UndisturbedKeeps
<1>2. CASE EndFlow(s, file) /\ Release(s)
  <2> Undisturbed
    BY <1>2, DisjointAssumption
    DEF RefreshReload, EndFlow, Release, Undisturbed, provider, Acquired
  <2> QED BY UndisturbedKeeps
<1>3. CASE /\ HasRefresh(file)
           /\ prior' = [prior EXCEPT ![s] = file]
           /\ flow' = [flow EXCEPT ![s] = "acquire"]
           /\ mem' = [mem EXCEPT ![s] = file]
           /\ UNCHANGED <<observed, call, inside, next>>
  <2>1. UNCHANGED <<signIn, file, issued, valid, stranded>> /\ flow[s] = "reload"
    BY DEF RefreshReload, provider
  <2>2. /\ \A r \in Servers : r # s => flow[r] \notin Working
        /\ \A e \in SignIns : signIn[e] \notin Working
    BY <2>1, OthersWait, DisjointAssumption DEF LockOfWorkers, Working
  <2>3. PriorIsStored'
    BY <1>3, <2>1, <2>2 DEF PriorIsStored, Acquired, Working, HasRefresh
  <2>4. NextIsNewest'
    BY <1>3, <2>1, <2>2 DEF NextIsNewest, Working, HasRefresh
  <2>5. HeldWasIssued'
    BY <1>3, <2>1 DEF HeldWasIssued
  <2>6. FileUsable'
    BY <1>3, <2>1, <2>2 DEF FileUsable, Replacing, Working, HasRefresh
  <2>7. MemoryNotAhead'
    BY <1>3, <2>1 DEF MemoryNotAhead, MaybeTokens, TokenSet
  <2> QED BY <2>3, <2>4, <2>5, <2>6, <2>7 DEF TokensInv
<1> QED BY <1>1, <1>2, <1>3 DEF RefreshReload

LEMMA AcquireKeeps ==
    ASSUME StoreInv, NEW s \in Servers, RefreshAcquire(s)
    PROVE  TokensInv'
<1> USE DEF StoreInv, Actors
<1>1. PICK id, refresh \in 0 .. MaxIssued :
        /\ Grant(prior[s].refresh, [id |-> id, refresh |-> refresh])
        /\ next' = [next EXCEPT ![s] = [id |-> id, refresh |->
                       IF refresh = 0 THEN prior[s].refresh ELSE refresh]]
  BY DEF RefreshAcquire
<1> DEFINE r == prior[s].refresh
           granted == [id |-> id, refresh |-> IF refresh = 0 THEN r ELSE refresh]
<1>2. /\ issued < MaxIssued /\ r \in valid
      /\ issued' = issued + 1 /\ id = issued + 1
      /\ \/ refresh = 0 /\ valid' = valid
         \/ refresh = issued + 1 /\ valid' = (valid \ {r}) \cup {issued + 1}
  BY <1>1, GrantEffect
<1>3. granted \in TokenSet /\ granted.id = issued' /\ granted.refresh \in valid'
  <2> DEFINE kept == IF refresh = 0 THEN r ELSE refresh
  <2>1. r \in 1 .. MaxIssued /\ issued \in Nat
    <3>1. r \in valid
      BY <1>2
    <3> HIDE DEF r
    <3> QED BY <3>1, IssuedAssumption DEF TypeOK
  <2>2. kept \in valid'
    BY <1>2, <2>1
  <2>3. kept \in 0 .. MaxIssued
    BY <2>1
  <2>4. id \in 1 .. MaxIssued
    BY <1>2, <2>1, IssuedAssumption
  <2> QED BY <1>2, <2>2, <2>3, <2>4, TokenMade
<1>4. next' = [next EXCEPT ![s] = granted]
  BY <1>1
<1> HIDE DEF granted
<1>5. /\ flow[s] = "acquire" /\ flow' = [flow EXCEPT ![s] = "save"]
      /\ UNCHANGED <<mem, signIn, prior, file, inside, stranded>>
  BY DEF RefreshAcquire
<1>6. /\ \A q \in Servers : q # s => flow[q] \notin Working
      /\ \A e \in SignIns : signIn[e] \notin Working
  BY <1>5, OthersWait, DisjointAssumption DEF LockOfWorkers, Working
<1>7. HasRefresh(prior[s]) /\ file \in {prior[s], None}
  BY <1>5 DEF PriorIsStored, Acquired
<1> USE DEF TypeOK
<1>8. PriorIsStored'
  BY <1>5, <1>6, <1>7 DEF PriorIsStored, Acquired, Working, HasRefresh
<1>9. NextIsNewest'
  BY <1>3, <1>4, <1>5, <1>6, NoneAssumption DEF NextIsNewest, Working
<1>10. HeldWasIssued'
  BY <1>2, <1>5, TokenFields DEF HeldWasIssued, MaybeTokens
<1>11. FileUsable'
  <2> SUFFICES ASSUME HasRefresh(file), file.refresh \notin valid' \cup stranded'
               PROVE  Replacing(s)' /\ (prior[s].refresh = file.refresh)'
    BY <1>5 DEF FileUsable, HasRefresh
  <2> QED BY <1>2, <1>5, <1>7 DEF Replacing, HasRefresh
<1>12. MemoryNotAhead'
  BY <1>5 DEF MemoryNotAhead
<1> QED BY <1>8, <1>9, <1>10, <1>11, <1>12 DEF TokensInv

LEMMA AcquireFailsKeeps ==
    ASSUME StoreInv, NEW s \in Servers, RefreshAcquireFails(s)
    PROVE  TokensInv'
<1> USE DEF StoreInv, Actors
<1>1. CASE UNCHANGED <<provider, stranded>>
  <2>1. FailFlow(s) /\ Release(s) /\ UNCHANGED <<load, signIn, file>> /\ flow[s] = "acquire"
    BY Zenon DEF RefreshAcquireFails
  <2>2. Undisturbed
    BY <1>1, <2>1, DisjointAssumption
    DEF FailFlow, EndFlow, Release, Undisturbed, provider, Acquired, TypeOK
  <2> QED BY <2>2, UndisturbedKeeps
<1>2. ASSUME NEW granted \in TokenSet, Grant(prior[s].refresh, granted),
             stranded' = stranded \cup ({prior[s].refresh} \ valid')
      PROVE  TokensInv'
  <2> DEFINE r == prior[s].refresh
  <2>1. /\ r \in valid /\ issued' = issued + 1
        /\ valid' = valid \/ valid' = (valid \ {r}) \cup {issued + 1}
    BY <1>2, GrantRotates
  <2>2. /\ FailFlow(s) /\ Release(s) /\ UNCHANGED <<load, signIn, file>>
        /\ flow[s] = "acquire"
    BY Zenon DEF RefreshAcquireFails
  <2>3. /\ \A q \in Servers : flow'[q] \notin Acquired
        /\ \A e \in SignIns : signIn'[e] \notin Acquired
    BY <2>2, OthersWait, DisjointAssumption
    DEF LockOfWorkers, Working, Acquired, FailFlow, EndFlow, TypeOK
  <2>4. valid \cup stranded \subseteq valid' \cup stranded'
    BY <1>2, <2>1
  <2>5. PriorIsStored'
    BY <2>3 DEF PriorIsStored
  <2>6. NextIsNewest'
    BY <2>3 DEF NextIsNewest, Acquired
  <2>7. /\ \A q \in Servers : mem'[q] \in {mem[q], None}
    BY <2>2 DEF FailFlow, EndFlow, TypeOK
  <2>8. HeldWasIssued'
    BY <2>1, <2>2, <2>7, TokenFields DEF HeldWasIssued, MaybeTokens, TypeOK
  <2>9. FileUsable'
    <3>1. \A q \in Servers : ~Replacing(q)
      BY <2>2, OthersWait DEF LockOfWorkers, Working, Replacing
    <3> QED BY <2>2, <2>4, <3>1 DEF FileUsable, HasRefresh
  <2>10. MemoryNotAhead'
    BY <2>2, <2>7 DEF MemoryNotAhead
  <2> QED BY <2>5, <2>6, <2>8, <2>9, <2>10 DEF TokensInv
<1> QED BY <1>1, <1>2, Zenon DEF RefreshAcquireFails

LEMMA SaveKeeps ==
    ASSUME StoreInv, NEW s \in Servers, RefreshSave(s)
    PROVE  TokensInv'
<1> USE DEF StoreInv, Actors
<1>1. flow[s] = "save" /\ Release(s) /\ UNCHANGED <<signIn, issued, valid>>
  BY DEF RefreshSave, provider
<1>2. /\ \A q \in Servers : q # s => flow[q] \notin Working
      /\ \A e \in SignIns : signIn[e] \notin Working
  BY <1>1, OthersWait, DisjointAssumption DEF LockOfWorkers, Working
<1>3. next[s] # None /\ next[s].id = issued /\ next[s].refresh \in valid
  BY <1>1 DEF NextIsNewest
<1>4. CASE /\ file' = next[s]
           /\ EndFlow(s, next[s]) \/ FailFlow(s)
           /\ UNCHANGED stranded
  <2>1. \A q \in Servers : flow'[q] \notin Acquired
    BY <1>2, <1>4 DEF FailFlow, EndFlow, TypeOK, Acquired, Working
  <2>2. \A e \in SignIns : signIn'[e] \notin Acquired
    BY <1>1, <1>2 DEF Acquired, Working
  <2>3. PriorIsStored'
    BY <2>1, <2>2 DEF PriorIsStored
  <2>4. NextIsNewest'
    BY <2>1, <2>2 DEF NextIsNewest, Acquired
  <2>5. \A q \in Servers : mem'[q] \in {mem[q], file', None}
    BY <1>4 DEF FailFlow, EndFlow, TypeOK
  <2>6. issued \in Nat
    BY IssuedAssumption DEF TypeOK
  <2>7. HeldWasIssued'
    BY <1>1, <1>3, <1>4, <2>5, <2>6 DEF HeldWasIssued
  <2>8. FileUsable'
    BY <1>1, <1>3, <1>4 DEF FileUsable
  <2>9. MemoryNotAhead'
    BY <1>3, <1>4, <2>5, <2>6 DEF MemoryNotAhead, HeldWasIssued
  <2> QED BY <2>3, <2>4, <2>7, <2>8, <2>9 DEF TokensInv
<1>5. CASE /\ FailFlow(s)
           /\ stranded' = stranded \cup ({prior[s].refresh} \ valid)
           /\ UNCHANGED file
  <2>1. \A q \in Servers : flow'[q] \notin Acquired
    BY <1>2, <1>5 DEF FailFlow, EndFlow, TypeOK, Acquired, Working
  <2>2. \A e \in SignIns : signIn'[e] \notin Acquired
    BY <1>1, <1>2 DEF Acquired, Working
  <2>3. PriorIsStored'
    BY <2>1, <2>2 DEF PriorIsStored
  <2>4. NextIsNewest'
    BY <2>1, <2>2 DEF NextIsNewest, Acquired
  <2>5. \A q \in Servers : mem'[q] \in {mem[q], None}
    BY <1>5 DEF FailFlow, EndFlow, TypeOK
  <2>6. HeldWasIssued'
    BY <1>1, <1>5, <2>5 DEF HeldWasIssued
  <2>7. FileUsable'
    BY <1>1, <1>2, <1>5 DEF FileUsable, HasRefresh, Replacing, Working
  <2>8. MemoryNotAhead'
    BY <1>5, <2>5 DEF MemoryNotAhead
  <2> QED BY <2>3, <2>4, <2>6, <2>7, <2>8 DEF TokensInv
<1> QED BY <1>4, <1>5 DEF RefreshSave

LEMMA RestartKeeps ==
    ASSUME StoreInv, NEW s \in Servers, Restart(s)
    PROVE  TokensInv'
<1> USE DEF StoreInv, Actors
<1>1. /\ UNCHANGED <<signIn, file, issued, valid>>
      /\ \A q \in Servers : q # s =>
            flow'[q] = flow[q] /\ prior'[q] = prior[q] /\ next'[q] = next[q]
      /\ \A e \in SignIns : prior'[e] = prior[e] /\ next'[e] = next[e]
      /\ flow'[s] = "none"
      /\ \A q \in Servers : mem'[q] \in {mem[q], None}
      /\ stranded \subseteq stranded'
      /\ flow[s] = "save" => stranded' = stranded \cup ({prior[s].refresh} \ valid)
  BY DisjointAssumption DEF Restart, provider, TypeOK
<1>2. PriorIsStored'
  BY <1>1 DEF PriorIsStored, Acquired, HasRefresh
<1>3. NextIsNewest'
  BY <1>1 DEF NextIsNewest, HasRefresh
<1>4. HeldWasIssued'
  BY <1>1 DEF HeldWasIssued
<1>5. FileUsable'
  <2> SUFFICES ASSUME HasRefresh(file), file.refresh \notin valid \cup stranded'
               PROVE  \E q \in Servers : Replacing(q)' /\ (prior[q].refresh = file.refresh)'
    BY <1>1 DEF FileUsable, HasRefresh
  <2>1. PICK q \in Servers : Replacing(q) /\ prior[q].refresh = file.refresh
    BY <1>1 DEF FileUsable
  <2>2. q # s
    BY <1>1, <2>1 DEF Replacing
  <2> QED BY <1>1, <2>1, <2>2 DEF Replacing
<1>6. MemoryNotAhead'
  BY <1>1 DEF MemoryNotAhead
<1> QED BY <1>2, <1>3, <1>4, <1>5, <1>6 DEF TokensInv

LEMMA SignInLockKeeps ==
    ASSUME StoreInv, NEW e \in SignIns, SignInLock(e)
    PROVE  TokensInv'
<1> USE DEF StoreInv, Actors, TypeOK
<1>1. CASE signIn' = [signIn EXCEPT ![e] = "none"] /\ UNCHANGED <<prior, inside>>
  <2> Undisturbed
    BY <1>1 DEF SignInLock, Undisturbed, provider, Acquired
  <2> QED BY UndisturbedKeeps
<1>2. CASE /\ Lock!Enter(e)
           /\ prior' = [prior EXCEPT ![e] = file]
           /\ signIn' = [signIn EXCEPT ![e] = "acquire"]
  <2>1. UNCHANGED <<mem, flow, next, file, issued, valid, stranded>>
    BY DEF SignInLock, provider
  <2>2. /\ \A q \in Servers : flow[q] \notin Working
        /\ \A d \in SignIns : signIn[d] \notin Working
    BY <1>2 DEF LockOfWorkers, Lock!Enter
  <2>3. HasRefresh(file) => file.refresh \in valid \cup stranded
    BY <2>2 DEF FileUsable, Replacing, Working
  <2>4. PriorIsStored'
    BY <1>2, <2>1, <2>2, <2>3 DEF PriorIsStored, Acquired, Working, HasRefresh
  <2>5. NextIsNewest'
    BY <1>2, <2>1, <2>2 DEF NextIsNewest, Working
  <2>6. HeldWasIssued' /\ MemoryNotAhead'
    BY <2>1 DEF HeldWasIssued, MemoryNotAhead
  <2>7. FileUsable'
    BY <2>1, <2>3 DEF FileUsable, HasRefresh
  <2> QED BY <2>4, <2>5, <2>6, <2>7 DEF TokensInv
<1> QED BY <1>1, <1>2 DEF SignInLock

LEMMA SignInAcquireKeeps ==
    ASSUME StoreInv, NEW e \in SignIns, SignInAcquire(e)
    PROVE  TokensInv'
<1> USE DEF StoreInv, Actors
<1> DEFINE kept == IF prior[e] = None THEN 0 ELSE prior[e].refresh
           fresh == [id |-> issued + 1, refresh |-> issued + 1]
           bare == [id |-> issued + 1, refresh |-> kept]
<1>1. /\ signIn[e] = "acquire"
      /\ UNCHANGED <<mem, flow, file, stranded>>
  BY Zenon DEF SignInAcquire
<1>2. /\ \A q \in Servers : flow[q] \notin Working
      /\ \A d \in SignIns : d # e => signIn[d] \notin Working
  BY <1>1, OthersWait, DisjointAssumption DEF LockOfWorkers, Working
<1>3. kept = 0 \/ kept \in valid \cup stranded
  BY <1>1 DEF PriorIsStored, HasRefresh, Acquired
<1>4. /\ fresh.id = issued + 1 /\ fresh.refresh = issued + 1
      /\ bare.id = issued + 1 /\ bare.refresh = kept
  OBVIOUS
<1>5. issued < MaxIssued => fresh \in TokenSet /\ bare \in TokenSet
  <2>1. kept \in 0 .. MaxIssued
    BY TokenFields, IssuedAssumption DEF TypeOK, MaybeTokens
  <2>2. issued < MaxIssued => issued + 1 \in 1 .. MaxIssued
    BY IssuedAssumption DEF TypeOK
  <2> QED BY <2>1, <2>2, TokenMade
<1>6. \/ /\ issued < MaxIssued
         /\ issued' = issued + 1
         /\ \/ valid' = valid \cup {issued + 1} /\ next' = [next EXCEPT ![e] = fresh]
            \/ UNCHANGED valid /\ next' = [next EXCEPT ![e] = bare]
         /\ signIn' = [signIn EXCEPT ![e] = "save"]
         /\ UNCHANGED <<inside, prior>>
      \/ /\ signIn' = [signIn EXCEPT ![e] = "none"]
         /\ Release(e)
         /\ UNCHANGED <<issued, valid>>
  BY Zenon DEF SignInAcquire
<1> HIDE DEF kept, fresh, bare
<1>7. CASE /\ signIn' = [signIn EXCEPT ![e] = "none"]
           /\ Release(e)
           /\ UNCHANGED <<issued, valid>>
  <2> Undisturbed
    BY <1>1, <1>7, DisjointAssumption DEF Undisturbed, Release, Acquired, TypeOK
  <2> QED BY UndisturbedKeeps
<1>8. ASSUME issued < MaxIssued, issued' = issued + 1, NEW t \in {fresh, bare},
             next' = [next EXCEPT ![e] = t], valid \subseteq valid',
             t.refresh # 0 => t.refresh \in valid' \cup stranded,
             signIn' = [signIn EXCEPT ![e] = "save"], UNCHANGED prior
      PROVE  TokensInv'
  <2>1. t \in TokenSet /\ t.id = issued'
    BY <1>4, <1>5, <1>8
  <2>2. HasRefresh(t) => t.refresh \in valid' \cup stranded
    BY <1>8 DEF HasRefresh
  <2>3. PriorIsStored'
    BY <1>1, <1>8 DEF PriorIsStored, Acquired, HasRefresh, TypeOK
  <2>4. NextIsNewest'
    BY <1>1, <1>2, <1>8, <2>1, <2>2, NoneAssumption
    DEF NextIsNewest, Working, HasRefresh, TypeOK
  <2>5. HeldWasIssued'
    BY <1>1, <1>8, TokenFields DEF HeldWasIssued, MaybeTokens, TypeOK
  <2>6. FileUsable'
    BY <1>1, <1>2, <1>8 DEF FileUsable, HasRefresh, Replacing, Working
  <2>7. MemoryNotAhead'
    BY <1>1 DEF MemoryNotAhead
  <2> QED BY <2>3, <2>4, <2>5, <2>6, <2>7 DEF TokensInv
<1>9. CASE /\ issued < MaxIssued
           /\ issued' = issued + 1
           /\ valid' = valid \cup {issued + 1} /\ next' = [next EXCEPT ![e] = fresh]
           /\ signIn' = [signIn EXCEPT ![e] = "save"]
           /\ UNCHANGED prior
  <2> fresh.refresh \in valid'
    BY <1>4, <1>9
  <2> QED BY <1>8, <1>9
<1>10. CASE /\ issued < MaxIssued
            /\ issued' = issued + 1
            /\ UNCHANGED valid /\ next' = [next EXCEPT ![e] = bare]
            /\ signIn' = [signIn EXCEPT ![e] = "save"]
            /\ UNCHANGED prior
  <2> bare.refresh # 0 => bare.refresh \in valid' \cup stranded
    BY <1>3, <1>4, <1>10
  <2> QED BY <1>8, <1>10
<1> QED BY <1>6, <1>7, <1>9, <1>10

LEMMA SignInSaveKeeps ==
    ASSUME StoreInv, NEW e \in SignIns, SignInSave(e)
    PROVE  TokensInv'
<1> USE DEF StoreInv, Actors, TypeOK
<1>1. /\ signIn[e] = "save" /\ signIn' = [signIn EXCEPT ![e] = "none"] /\ Release(e)
      /\ UNCHANGED <<mem, flow, issued, valid, stranded>>
  BY DEF SignInSave, provider
<1>2. CASE UNCHANGED file
  <2> Undisturbed
    BY <1>1, <1>2, DisjointAssumption DEF Undisturbed, Release, Acquired
  <2> QED BY UndisturbedKeeps
<1>3. CASE file' = next[e]
  <2>1. /\ \A q \in Servers : flow'[q] \notin Acquired
        /\ \A d \in SignIns : signIn'[d] \notin Acquired
    BY <1>1, OthersWait, DisjointAssumption DEF LockOfWorkers, Working, Acquired
  <2>2. /\ next[e] # None /\ next[e].id = issued
        /\ HasRefresh(next[e]) => next[e].refresh \in valid \cup stranded
    BY <1>1 DEF NextIsNewest
  <2>3. PriorIsStored' /\ NextIsNewest'
    BY <2>1 DEF PriorIsStored, NextIsNewest, Acquired
  <2>4. issued \in Nat
    BY IssuedAssumption
  <2>5. HeldWasIssued' /\ MemoryNotAhead'
    BY <1>1, <1>3, <2>2, <2>4 DEF HeldWasIssued, MemoryNotAhead
  <2>6. FileUsable'
    BY <1>1, <1>3, <2>2 DEF FileUsable, HasRefresh
  <2> QED BY <2>3, <2>5, <2>6 DEF TokensInv
<1> QED BY <1>2, <1>3 DEF SignInSave
-----------------------------------------------------------------------------

\* Every step of every process preserves the inductive invariant.
LEMMA NextStoreInv == StoreInv /\ [Next]_vars => StoreInv'
<1> SUFFICES ASSUME StoreInv, [Next]_vars
             PROVE  StoreInv'
  OBVIOUS
<1>1. TypeOK' /\ LockOfWorkers'
  BY NextTypeOK, NextLockOfWorkers DEF StoreInv
<1>2. TypeOK
  BY DEF StoreInv
<1>3. TokensInv'
  <2>1. ASSUME NEW k \in Calls, StartLoad(k) \/ CheckCached(k) \/ CheckLoaded(k)
        PROVE  TokensInv'
    BY <1>2, <2>1, CallsUndisturbed, UndisturbedKeeps DEF CheckCached, CheckLoaded
  <2>2. ASSUME NEW s \in Servers, FinishLoad(s) \/ RefreshStep(s) \/ Restart(s)
        PROVE  TokensInv'
    BY <1>2, <2>2, ServersUndisturbed, UndisturbedKeeps, ReloadKeeps, AcquireKeeps,
       AcquireFailsKeeps, SaveKeeps, RestartKeeps DEF RefreshStep
  <2>3. ASSUME NEW e \in SignIns, StartSignIn(e) \/ SignInStep(e)
        PROVE  TokensInv'
    BY <1>2, <2>3, SignInUndisturbed, UndisturbedKeeps, SignInLockKeeps,
       SignInAcquireKeeps, SignInSaveKeeps DEF SignInStep
  <2>4. CASE Expire \/ DeleteFile \/ UNCHANGED vars
    BY <1>2, <2>4, WorldUndisturbed, UndisturbedKeeps
  <2> QED BY <2>1, <2>2, <2>3, <2>4 DEF Next
<1> QED BY <1>1, <1>3 DEF StoreInv, TokensInv

\* The invariant holds in every behaviour.
LEMMA StoreInvariant == Spec => []StoreInv
  BY InitStoreInv, NextStoreInv, PTL DEF Spec

\* The state of the session always has its type: no token number outside those
\* issued reaches the file, a copy or a promise.
THEOREM TypeCorrect == Spec => []TypeOK
<1>1. StoreInv => TypeOK
  BY DEF StoreInv
<1> QED BY <1>1, StoreInvariant, PTL

\* The refresh token of the stored session is the provider's, or a replacement of
\* it was lost, or is about to be saved: two processes never spend the same one.
THEOREM StoredSessionUsable == Spec => []FileUsable
<1>1. StoreInv => FileUsable
  BY DEF StoreInv
<1> QED BY <1>1, StoreInvariant, PTL

\* A server serves no token that it has not first persisted.
THEOREM CopiesNotAhead == Spec => []MemoryNotAhead
<1>1. StoreInv => MemoryNotAhead
  BY DEF StoreInv
<1> QED BY <1>1, StoreInvariant, PTL

\* A refresh overwrites only the tokens it reloaded: never a sign-in, or another
\* process's refresh, that it has not seen.
THEOREM NoBlindOverwrite == Spec => RefreshReplacesWhatItRead
<1>1. StoreInv /\ [Next]_vars =>
        [\A s \in Servers : flow[s] = "save" /\ file' # file /\ file' = next[s]
                               => file \in {prior[s], None}]_vars
  BY DEF StoreInv, PriorIsStored, Acquired
<1> QED BY <1>1, StoreInvariant, PTL DEF Spec, RefreshReplacesWhatItRead

\* The processes use the lock only as TokenMutex lets them.
THEOREM LockDiscipline == Spec => Lock!Spec
<1>1. Init => Lock!Init
  BY DEF Init
<1>2. StoreInv /\ [Next]_vars => [Lock!Next]_inside
  <2> SUFFICES ASSUME StoreInv, [Next]_vars, inside' # inside
               PROVE  \E a \in Actors : Lock!Enter(a) \/ Lock!Leave(a)
    BY DEF Lock!Next
  <2>1. ASSUME NEW k \in Calls, StartLoad(k) \/ CheckCached(k) \/ CheckLoaded(k)
        PROVE  FALSE
    BY <2>1 DEF StartLoad, CheckCached, CheckLoaded, CheckTokens
  <2>2. ASSUME NEW s \in Servers, FinishLoad(s) \/ RefreshStep(s)
        PROVE  Lock!Enter(s) \/ Lock!Leave(s)
    BY <2>2, Zenon DEF FinishLoad, RefreshStep, RefreshLock, RefreshLockFails,
       RefreshReload, RefreshAcquire, RefreshAcquireFails, RefreshSave, Release
  <2>3. ASSUME NEW s \in Servers, Restart(s)
        PROVE  Lock!Leave(s)
    BY <2>3 DEF Restart, Lock!Leave, StoreInv, LockOfWorkers
  <2>4. ASSUME NEW e \in SignIns, StartSignIn(e) \/ SignInStep(e)
        PROVE  Lock!Enter(e) \/ Lock!Leave(e)
    BY <2>4, Zenon DEF StartSignIn, SignInStep, SignInLock, SignInAcquire, SignInSave, Release
  <2>5. CASE Expire \/ DeleteFile \/ UNCHANGED vars
    BY <2>5 DEF Expire, DeleteFile, vars
  <2> QED BY <2>1, <2>2, <2>3, <2>4, <2>5 DEF Next, Actors
<1> QED BY <1>1, <1>2, StoreInvariant, PTL DEF Spec, Lock!Spec
=============================================================================
