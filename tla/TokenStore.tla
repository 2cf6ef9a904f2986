----------------------------- MODULE TokenStore -----------------------------
(***************************************************************************)
(* The OAuth session of a machine: one token file shared by the MCP server *)
(* processes, which refresh it, and by the sign-in server, which replaces  *)
(* it (src/main/auth/index.ts).  Each server keeps a copy of the tokens in *)
(* memory that all its concurrent tool calls share.  The lock is the one   *)
(* TokenLock implements.                                                   *)
(*                                                                         *)
(* A token set is an access token, numbered in the order the provider      *)
(* issues them, and the refresh token stored with it (0: none).  The       *)
(* provider is external: it rotates a refresh token or keeps it, and its   *)
(* answer can be lost after it has rotated.                                *)
(***************************************************************************)
EXTENDS Naturals

CONSTANTS
    Servers,     \* MCP server processes
    SignIns,     \* concurrent code exchanges of the sign-in server
    Calls,       \* concurrent tool calls that need an access token
    ServerOf,    \* the process each tool call runs in
    None,
    MaxIssued    \* bound: access tokens the provider issues

ASSUME ServerOfAssumption == ServerOf \in [Calls -> Servers]
ASSUME IssuedAssumption   == MaxIssued \in Nat
ASSUME DisjointAssumption == Servers \cap SignIns = {}

TokenSet == [id : 1 .. MaxIssued, refresh : 0 .. MaxIssued]
ASSUME NoneAssumption == None \notin TokenSet

VARIABLES
    file,      \* the token file, or None
    mem,       \* this.tokens of each server
    load,      \* the servers with a read of the file under way (_loadPromise)
    call,      \* where each tool call stands in getValidAccessToken
    flow,      \* _refreshPromise of each server: where the refresh stands
    observed,  \* the expired tokens that started the refresh
    prior,     \* the tokens reloaded under the lock, of a refresh or a sign-in
    next,      \* the candidate to save
    signIn,    \* where each code exchange stands
    inside,    \* holder of the token lock
    issued,    \* access tokens issued so far
    valid,     \* refresh tokens the provider accepts
    expired,   \* access tokens inside the expiry buffer
    stranded   \* history: refresh tokens rotated away whose replacement was lost

client   == <<mem, load, call, flow, observed, signIn>>
provider == <<issued, valid, expired>>
vars == <<client, prior, next, file, inside, provider, stranded>>

Actors == Servers \cup SignIns
Lock == INSTANCE TokenMutex WITH Callers <- Actors, inside <- inside

MaybeTokens == TokenSet \cup {None}
CallSteps   == {"idle", "loading", "check", "joined"}
FlowSteps   == {"none", "lock", "reload", "acquire", "save"}

TypeOK ==
    /\ file \in MaybeTokens
    /\ mem \in [Servers -> MaybeTokens]
    /\ load \in SUBSET Servers
    /\ call \in [Calls -> CallSteps]
    /\ flow \in [Servers -> FlowSteps]
    /\ observed \in [Servers -> MaybeTokens]
    /\ prior \in [Actors -> MaybeTokens]
    /\ next \in [Actors -> MaybeTokens]
    /\ signIn \in [SignIns -> FlowSteps]
    /\ inside \in SUBSET Actors
    /\ issued \in 0 .. MaxIssued
    /\ valid \in SUBSET (1 .. MaxIssued)
    /\ expired \in SUBSET (1 .. MaxIssued)
    /\ stranded \in SUBSET (1 .. MaxIssued)

Init ==
    /\ file = None
    /\ mem = [s \in Servers |-> None]
    /\ load = {}
    /\ call = [k \in Calls |-> "idle"]
    /\ flow = [s \in Servers |-> "none"]
    /\ observed = [s \in Servers |-> None]
    /\ prior = [a \in Actors |-> None]
    /\ next = [a \in Actors |-> None]
    /\ signIn = [e \in SignIns |-> "none"]
    /\ Lock!Init
    /\ issued = 0
    /\ valid = {}
    /\ expired = {}
    /\ stranded = {}

-----------------------------------------------------------------------------
\* getValidAccessToken and getTokens

Goto(k, step) == call' = [call EXCEPT ![k] = step]

\* await this.getTokens() with nothing in memory: one shared read of the file.
StartLoad(k) == LET s == ServerOf[k] IN
    /\ call[k] = "idle"
    /\ mem[s] = None
    /\ Goto(k, "loading")
    /\ load' = load \cup {s}
    /\ UNCHANGED <<mem, flow, observed, signIn, prior, next, file, inside,
                   provider, stranded>>

\* readFile delivers, and the continuation stores the tokens; null for a
\* missing or corrupt file.
FinishLoad(s) ==
    /\ s \in load
    /\ mem' = [mem EXCEPT ![s] = file]
    /\ load' = load \ {s}
    /\ call' = [k \in Calls |-> IF ServerOf[k] = s /\ call[k] = "loading"
                                THEN "check" ELSE call[k]]
    /\ UNCHANGED <<flow, observed, signIn, prior, next, file, inside, provider, stranded>>

IsExpired(t) == t # None /\ t.id \in expired

HasRefresh(t) == t # None /\ t.refresh # 0

\* After the await: this.tokens is read again, whatever it is by now.
CheckTokens(k) == LET s == ServerOf[k] IN
    /\ \/ /\ ~IsExpired(mem[s])                     \* null, or the token
          /\ Goto(k, "idle")
          /\ UNCHANGED <<mem, flow, observed>>
       \/ /\ IsExpired(mem[s]) /\ ~HasRefresh(mem[s])
          /\ mem' = [mem EXCEPT ![s] = None]
          /\ Goto(k, "idle")
          /\ UNCHANGED <<flow, observed>>
       \/ /\ IsExpired(mem[s]) /\ HasRefresh(mem[s])
          /\ Goto(k, "joined")
          /\ \/ flow[s] # "none" /\ UNCHANGED <<flow, observed>>
             \/ /\ flow[s] = "none"
                /\ flow' = [flow EXCEPT ![s] = "lock"]
                /\ observed' = [observed EXCEPT ![s] = mem[s]]
          /\ UNCHANGED mem
    /\ UNCHANGED <<load, signIn, prior, next, file, inside, provider, stranded>>

\* A new call that finds tokens in memory gets to the check with no I/O between.
CheckCached(k) == call[k] = "idle" /\ mem[ServerOf[k]] # None /\ CheckTokens(k)
CheckLoaded(k) == call[k] = "check" /\ CheckTokens(k)

-----------------------------------------------------------------------------
\* refreshAccessToken: the operation run under the lock

\* The lock is released, and what the operation held is gone.
Release(a) ==
    /\ Lock!Leave(a)
    /\ prior' = [prior EXCEPT ![a] = None]
    /\ next' = [next EXCEPT ![a] = None]

\* The refresh promise settles: finally clears it, and every joined call
\* returns tokens or null in the microtasks that follow.
EndFlow(s, tokens) ==
    /\ flow' = [flow EXCEPT ![s] = "none"]
    /\ observed' = [observed EXCEPT ![s] = None]
    /\ mem' = [mem EXCEPT ![s] = tokens]
    /\ call' = [k \in Calls |-> IF ServerOf[k] = s /\ call[k] = "joined"
                                THEN "idle" ELSE call[k]]

\* It rejects: the catch of getValidAccessToken forgets the tokens.
FailFlow(s) == EndFlow(s, None)

RefreshLock(s) ==
    /\ flow[s] = "lock"
    /\ Lock!Enter(s)
    /\ flow' = [flow EXCEPT ![s] = "reload"]
    /\ UNCHANGED <<mem, load, call, observed, signIn, prior, next, file, provider, stranded>>

\* Mutant: the wait for the lock has no bound.
RefreshLockKeepsWaiting(s) == flow[s] = "lock" /\ UNCHANGED vars

\* The lock is unavailable, or its wait times out.
RefreshLockFails(s) ==
    /\ flow[s] = "lock"
    /\ FailFlow(s)
    /\ UNCHANGED <<load, signIn, prior, next, file, inside, provider, stranded>>

\* Mutant: the tokens observed before the wait are refreshed, without a reload.
RefreshStale(s) ==
    /\ flow[s] = "reload"
    /\ prior' = [prior EXCEPT ![s] = observed[s]]
    /\ flow' = [flow EXCEPT ![s] = "acquire"]
    /\ UNCHANGED <<mem, load, call, observed, signIn, next, file, inside, provider, stranded>>

\* The file is reloaded; a set another process has stored meanwhile is used,
\* unless the release of the lock throws.
RefreshReload(s) ==
    /\ flow[s] = "reload"
    /\ \/ /\ ~HasRefresh(file)
          /\ FailFlow(s)
          /\ Release(s)
       \/ /\ HasRefresh(file)
          /\ ~IsExpired(file) /\ file # observed[s]
          /\ EndFlow(s, file) \/ FailFlow(s)
          /\ Release(s)
       \/ /\ HasRefresh(file)
          /\ IsExpired(file) \/ file = observed[s]
          /\ prior' = [prior EXCEPT ![s] = file]
          /\ flow' = [flow EXCEPT ![s] = "acquire"]
          /\ mem' = [mem EXCEPT ![s] = file]
          /\ UNCHANGED <<observed, call, inside, next>>
    /\ UNCHANGED <<load, signIn, file, provider, stranded>>

\* What the provider has answered to a refresh grant: a new access token, with a
\* new refresh token that replaces the presented one, or with none.
Grant(r, granted) ==
    /\ issued < MaxIssued
    /\ r \in valid
    /\ issued' = issued + 1
    /\ UNCHANGED expired
    /\ \/ granted = [id |-> issued + 1, refresh |-> 0] /\ UNCHANGED valid
       \/ /\ granted = [id |-> issued + 1, refresh |-> issued + 1]
          /\ valid' = (valid \ {r}) \cup {issued + 1}

\* Mutant: the prior tokens are spread over the response, not under it.
RefreshAcquireKeepsPrior(s) ==
    /\ flow[s] = "acquire"
    /\ \E id, refresh \in 0 .. MaxIssued :
          /\ Grant(prior[s].refresh, [id |-> id, refresh |-> refresh])
          /\ next' = [next EXCEPT ![s] = [id |-> id, refresh |-> prior[s].refresh]]
    /\ flow' = [flow EXCEPT ![s] = "save"]
    /\ UNCHANGED <<mem, load, call, observed, signIn, prior, file, inside, stranded>>

\* The candidate: the prior tokens overlaid with what the provider has sent.
RefreshAcquire(s) ==
    /\ flow[s] = "acquire"
    /\ \E id, refresh \in 0 .. MaxIssued :
          /\ Grant(prior[s].refresh, [id |-> id, refresh |-> refresh])
          /\ next' = [next EXCEPT ![s] =
                [id |-> id, refresh |-> IF refresh = 0 THEN prior[s].refresh ELSE refresh]]
    /\ flow' = [flow EXCEPT ![s] = "save"]
    /\ UNCHANGED <<mem, load, call, observed, signIn, prior, file, inside, stranded>>

\* The provider refuses, or the answer never arrives.
RefreshAcquireFails(s) ==
    /\ flow[s] = "acquire"
    /\ \/ UNCHANGED <<provider, stranded>>
       \/ /\ \E granted \in TokenSet : Grant(prior[s].refresh, granted)
          /\ stranded' = stranded \cup ({prior[s].refresh} \ valid')
    /\ FailFlow(s)
    /\ Release(s)
    /\ UNCHANGED <<load, signIn, file>>

\* Mutant: memory is updated before the save that can fail.
RefreshSaveMemoryFirst(s) ==
    /\ flow[s] = "save"
    /\ stranded' = stranded \cup ({prior[s].refresh} \ valid)
    /\ EndFlow(s, next[s])
    /\ Release(s)
    /\ UNCHANGED <<load, signIn, file, provider>>

\* A temporary file is written and renamed over the token file, then memory
\* follows; or neither, and the promise rejects.  It rejects as well when the
\* tokens are stored and the release of the lock throws.
RefreshSave(s) ==
    /\ flow[s] = "save"
    /\ \/ /\ file' = next[s]
          /\ EndFlow(s, next[s]) \/ FailFlow(s)
          /\ UNCHANGED stranded
       \/ /\ FailFlow(s)
          /\ stranded' = stranded \cup ({prior[s].refresh} \ valid)
          /\ UNCHANGED file
    /\ Release(s)
    /\ UNCHANGED <<load, signIn, provider>>

-----------------------------------------------------------------------------
\* exchangeCodeForTokens

StartSignIn(e) ==
    /\ signIn[e] = "none"
    /\ signIn' = [signIn EXCEPT ![e] = "lock"]
    /\ UNCHANGED <<mem, load, call, flow, observed, prior, next, file, inside,
                   provider, stranded>>

\* Lock and reload; or no lock, and the exchange fails.
SignInLock(e) ==
    /\ signIn[e] = "lock"
    /\ \/ /\ Lock!Enter(e)
          /\ prior' = [prior EXCEPT ![e] = file]
          /\ signIn' = [signIn EXCEPT ![e] = "acquire"]
       \/ signIn' = [signIn EXCEPT ![e] = "none"] /\ UNCHANGED <<prior, inside>>
    /\ UNCHANGED <<mem, load, call, flow, observed, next, file, provider, stranded>>

\* A sign-in without a refresh token keeps the stored one.
SignInAcquire(e) ==
    /\ signIn[e] = "acquire"
    /\ \/ /\ issued < MaxIssued
          /\ issued' = issued + 1
          /\ \/ /\ valid' = valid \cup {issued + 1}
                /\ next' = [next EXCEPT ![e] = [id |-> issued + 1, refresh |-> issued + 1]]
             \/ /\ UNCHANGED valid
                /\ next' = [next EXCEPT ![e] =
                      [id |-> issued + 1,
                       refresh |-> IF prior[e] = None THEN 0 ELSE prior[e].refresh]]
          /\ signIn' = [signIn EXCEPT ![e] = "save"]
          /\ UNCHANGED <<inside, prior>>
       \/ /\ signIn' = [signIn EXCEPT ![e] = "none"]
          /\ Release(e)
          /\ UNCHANGED <<issued, valid>>
    /\ UNCHANGED <<mem, load, call, flow, observed, file, expired, stranded>>

SignInSave(e) ==
    /\ signIn[e] = "save"
    /\ file' = next[e] \/ UNCHANGED file
    /\ signIn' = [signIn EXCEPT ![e] = "none"]
    /\ Release(e)
    /\ UNCHANGED <<mem, load, call, flow, observed, provider, stranded>>

-----------------------------------------------------------------------------
\* The environment

\* Mutant: the expiry of the refresh token is taken for that of the access token.
ExpireRefresh ==
    /\ \E t \in ({file} \cup {mem[s] : s \in Servers}) \ {None} :
          expired' = expired \cup {t.refresh}
    /\ UNCHANGED <<client, prior, next, file, inside, issued, valid, stranded>>

\* Date.now() reaches expires_at less the buffer, for a token that is still
\* held somewhere: no other matters.
Expire ==
    /\ \E t \in ({file} \cup {mem[s] : s \in Servers}) \ {None} :
          /\ t.id \notin expired
          /\ expired' = expired \cup {t.id}
    /\ UNCHANGED <<client, prior, next, file, inside, issued, valid, stranded>>

\* The user deletes the token file, to sign in afresh.
DeleteFile ==
    /\ file # None
    /\ file' = None
    /\ UNCHANGED <<client, prior, next, inside, provider, stranded>>

\* A server dies and is started again; its lock is recovered as a dead owner's.
Restart(s) ==
    /\ mem' = [mem EXCEPT ![s] = None]
    /\ load' = load \ {s}
    /\ call' = [k \in Calls |-> IF ServerOf[k] = s THEN "idle" ELSE call[k]]
    /\ flow' = [flow EXCEPT ![s] = "none"]
    /\ observed' = [observed EXCEPT ![s] = None]
    /\ inside' = inside \ {s}
    /\ prior' = [prior EXCEPT ![s] = None]
    /\ next' = [next EXCEPT ![s] = None]
    /\ stranded' = IF flow[s] = "save" THEN stranded \cup ({prior[s].refresh} \ valid)
                                       ELSE stranded
    /\ UNCHANGED <<signIn, file, provider>>

RefreshStep(s) ==
    \/ RefreshLock(s) \/ RefreshLockFails(s) \/ RefreshReload(s)
    \/ RefreshAcquire(s) \/ RefreshAcquireFails(s) \/ RefreshSave(s)
SignInStep(e) == SignInLock(e) \/ SignInAcquire(e) \/ SignInSave(e)

Next ==
    \/ \E k \in Calls : StartLoad(k) \/ CheckCached(k) \/ CheckLoaded(k)
    \/ \E s \in Servers : FinishLoad(s) \/ RefreshStep(s) \/ Restart(s)
    \/ \E e \in SignIns : StartSignIn(e) \/ SignInStep(e)
    \/ Expire
    \/ DeleteFile

Spec == Init /\ [][Next]_vars

\* A live process runs its continuations; file reads, the bounded lock wait and
\* the provider request, which has a timeout, settle one way or the other.
Fairness ==
    /\ \A k \in Calls : WF_vars(CheckLoaded(k))
    /\ \A s \in Servers : WF_vars(FinishLoad(s)) /\ WF_vars(RefreshStep(s))

FairSpec == Spec /\ Fairness

-----------------------------------------------------------------------------
\* Safety

Replacing(s) == flow[s] = "save" /\ prior[s].refresh \notin valid

\* The stored session can be refreshed: its refresh token is still the
\* provider's, unless the process holding the lock is about to store the
\* replacement, or a replacement was lost to a failed save, a lost answer or a
\* crash.  Two processes never spend the same refresh token.
FileUsable ==
    HasRefresh(file) =>
        \/ file.refresh \in valid \cup stranded
        \/ \E s \in Servers : Replacing(s) /\ prior[s].refresh = file.refresh

\* A refresh replaces the very tokens it was computed from: it never overwrites
\* a sign-in, or another process's refresh, that it has not seen.
RefreshReplacesWhatItRead ==
    [][\A s \in Servers :
         flow[s] = "save" /\ file' # file /\ file' = next[s] => file \in {prior[s], None}]_vars

\* A server's copy is never newer than the file: it serves nothing that was
\* not persisted first and that a restart would forget.
MemoryNotAhead ==
    \A s \in Servers : mem[s] # None /\ file # None => mem[s].id <= file.id

\* Every request for an access token settles, whatever happens to the lock, the
\* provider and the file.
CallSettles == \A k \in Calls : call[k] # "idle" ~> call[k] = "idle"
=============================================================================
