# Verification of mcp-m365

TLA+ models of the stateful parts of mcp-m365, a Model Context Protocol server that
gives an assistant access to one Microsoft 365 mailbox through Microsoft Graph. The
models are translated from the TypeScript sources. TLC checks them on small
instances, and TLAPS proves the most important properties for every value of the
constants. Paths below are relative to the repository (`src/main/...`); `PROJECT.json` says for
every definition which lines it stands for.

## 1. The system

| Component | State it keeps | Operations | Talks to |
| --- | --- | --- | --- |
| Token lock (`auth/token-lock.ts`) | on disk: `<file>.lock/`, its `owner.json`, `<file>.lock.recovery/` | `withTokenLock`, `recoverDeadOwner` | file system, process table |
| Token storage (`auth/index.ts`, `msal.ts`) | token file; per process `tokens`, `_loadPromise`, `_refreshPromise` | load, check, refresh, exchange a code, save | token lock, OAuth provider |
| Sign-in server (`auth-server/index.ts`, `auth/callback.ts`) | map of pending states with PKCE verifiers | `/auth`, `/auth/callback`, sweep | browser, token storage |
| Graph client (`graph-client/index.ts`) | none between calls; per call a request and its response | encode a path, send, paginate, download | Graph |
| Rule language (`triage/parser.ts`, `types.ts`) | none: the note is parsed on every call | `parseRules`, `selectBlock` | rule note |
| Lint (`triage/lint.ts`) | none | `lintRules` | parser |
| Matcher (`triage/matcher.ts`) | none | `classify` | records |
| Lazy lookups (`triage/lookups.ts`, `run.ts`) | per message: what was looked up | thread and forward lookups, reclassification | Graph |
| Routing run (`triage/run.ts`, `graph-ops.ts`) | per call: batch, actions, entries | triage pass, aged pass | Graph, tracking cache, attachment saver |
| Tracking cache (`triage/tracking.ts`) | the file: entries, sweep cursor | read, write, upsert, prune, sweep | file system |
| Drift scan (`triage/drift.ts`) | per call: batch, snapshot | `handleDriftScan` | Graph, tracking cache |
| Attachment saver (`attachments/save.ts`, `naming.ts`) | the destination directory; per call the names taken and the files written | save all PDFs of a message | Graph, file system, `pdftotext` |
| Audit log (`utils/audit-log.ts`) | log file, rotated files, per-process queue | append, rotate | file system |
| Tools (`email`, `calendar`, `folder`, `rules`, `onedrive`) | per call: the walk of the folder tree, pages, chunks, a batch | some forty tools of one to many Graph requests each | Graph client |
| Server (`mcp-server`, `tools`, `utils/access-level.ts`, `utils/annotations.ts`) | access level, which tools are registered | registration, calls, the audit wrapper | tools, audit log |
| Config, helpers (`config`, `utils`, `generated`) | configuration read at boot | formatting, KQL, path encoding | all |

How they interact. An MCP client runs one server process per connection, so several
servers may run on one machine, each handling overlapping calls. They share the token file
(under the lock), the tracking cache and the destination directories (under no lock), the
audit log, and the mailbox, where the owner works at the same time. The sign-in server is a process of its own.
The tool caller is part of the protocol: it calls a triage pass again while `remaining` is
true and `acted` is above zero, and the drift scan while `remaining` is above zero.

What is hard:

* *interleavings of processes* in the lock (every file-system call is a point where another
  process runs), of tool calls in one process around every `await`, of passes and scans over one cache;
* *crashes and partial failure*: a process that dies with the lock, a refresh token that the provider has
  rotated and nobody has saved, a rule whose second action fails, a message with one
  attachment written;
* *unreliable answers*: a Graph call carried out whose answer is lost, a response that breaks off, an empty or unreadable document, a lookup that fails and looks like a missing message;
* *reads that go stale*: a folder found by a walk of many requests and then acted on, a rule's sequence computed from a listing, the metadata of an attachment read before its bytes;
* *things spelled in two places*: a tool's annotations, its `dry_run` default and its handler; a path that is encoded by the handler and again by the client;
* *termination*: bounded lock waits, the callers' loops, the reclassification loop;
* *agreement of two readings of one thing*: lint and matcher, lazy and eager classification.

What makes each component correct: the lock is a mutex that a dead process cannot keep for ever;
the stored session can always be refreshed and no refresh overwrites what it has not
read; the cache never claims a routing that did not happen and keeps what did; mail is disposed of
only once its attachments are saved; loops end; lint's verdicts agree with what the matcher does;
lazy lookups never change where a message goes; a note that runs only names what it declares. A tool changes only what
the access level admits, never in a preview, and only the thing it was given; what the client and the audit log are told is
what happened; a listing returns what was asked for. The hazards behind each are listed, at their lines, in `PROJECT.json`.

## 2. Plan

Modules in the order of the importance of what they check:

1. `TokenMutex`, `TokenLock` (+ `MCTokenLock`, `TokenLockProofs`): done.
2. `TokenStore` (+ `MCTokenStore`, `TokenStoreProofs`), which uses `TokenMutex` for the lock that `TokenLock` implements: done.
3. `TrackingCache`, `RoutingRun`, `DriftScan`, composed in `RoutingEngine` (+ `MCRoutingEngine`, `RoutingEngineProofs`): done.
4. `AttachmentSave` (+ `MCAttachmentSave`, `AttachmentSaveProofs`): done. `CommonLemmas` is what its proofs and those of 3 share.
5. `LazyClassify` (+ `MCLazyClassify`, `LazyClassifyProofs`): done.
6. `RuleLint`, `ThreadFiling`, `RuleGate` (+ `MCRuleGate`, `RuleGateProofs`): done, with every check that can stop a pass.
7. `ToolTable`, `GraphClient`, `SearchTerms`, `AuditLog`, then `ToolCalls`, `FolderTools`, `MailReads`, `Uploads`, composed in
   `ToolServers` (+ `MCToolServers`, `ToolServersProofs`): done.

Nothing of the plan is left: every safety and action property of a passing run is stated by a theorem.

Abstract specification: `TokenMutex`, implemented by `TokenLock` and used by `TokenStore`.

## 3. Modules

**TokenLock** models `withTokenLock` and `recoverDeadOwner`. The state is what is on disk (`lock`, `owner`, `guard`), the
processes alive, and where each caller stands; each `mkdir`, `writeFile` (create, then fill), `lstat`, read, probe, `unlink` and
`rmdir` is an action. `Exit` ends a process wherever it is and leaves its files, `Start` reuses a pid,
`CallFails` makes one call fail and follows the code's error path, `Expire` passes the five-second deadline.
A directory is labelled with its maker so that properties can speak of it; no guard reads
the label. Polling delays are left out: a waiting caller may try at any time.

**TokenMutex** is what `TokenLock` promises: at most one caller inside.

**TokenStore** models `getValidAccessToken` and what it calls, for several tool calls in several servers, and the
code exchange of the sign-in server. `load` and `flow` are the shared promises `_loadPromise` and `_refreshPromise`;
steps between two `await`s are one action. A token set is the number of its access token and its
refresh token. The release of the lock may throw after the file was saved: the refresh then fails, and memory and file stay as they are. The provider (`Grant`) rotates the refresh token or keeps it; its answer may be lost.
`Expire`, `DeleteFile` and `Restart` are the environment. `stranded` is a history variable:
refresh tokens spent whose replacement was lost, which no client can avoid. `clearTokens` has no caller in the program and is not modelled.

**TrackingCache, RoutingRun, DriftScan, RoutingEngine** model the two passes in live mode, the drift scan and their
shared state. A `day`, chosen at the start, fixes the folders each pass scans, the rules, which faults occur, how often the owner moves mail, and whether calls overlap.
Every Graph call is an action that succeeds, is refused, or is carried
out with its answer lost; a move may also be answered without the new id, after which the pass works with one that is no longer valid, and a scan
may find a message in a folder it has no path for, which it takes for no move. `Return` and `ScanReturns` include the caller's decision to call again. The rules are data:
the actions for each message and folder. `current` holds the passes whose message id is still valid, since Graph reissues
the id of a message that moves. `where`, `mover` and `been` are the mailbox and its history.
Abstracted: the order of entries in the file, folder paths (a folder is its leaf name), retention (`Age` makes an entry old),
the sweep's timestamps (`seen` holds the entries scanned since it began), report mode (changes nothing).

**AttachmentSave** models the saver the rules call, for concurrent savers over one directory: what refuses the destination (`Refused`), list, read the directory, then per attachment
fetch, name, exclusive write; the rollback; and what the rule does next. A file is a composed name with its suffix, and is `whole` once its write has ended:
a write that fails after the open, or a death, may leave a part of it, which nobody removes. The removals of a rollback are steps of their own;
one that fails makes the save return while the others go on (`removing`).

**LazyClassify** models how one message is classified: match, look up the thread or the forwards the match could depend on,
match again. A world is a message with all answers its lookups would give.

**RuleLint** holds rules, notes, messages, the matcher and the lint checks as operators. Values are taken up to case; an
address is a local part and a domain, with `Fits` and `Under` for wildcards and subdomains, a text stands for a phrase,
with `Within` for occurrence. A rule may be written in several orders of words (`written`): lint calls a rule a duplicate of another only when
it reads the same, as the code compares text. Of the actions, those that name something are there: `move`, `save-attachments`, `tag`, `untag`.
A note is what `parseRules` returns: its blocks, the destinations and categories it declares, or that it does not parse.
**ThreadFiling** is where a conversation is filed (`lookups.ts`): the folders the inbound block files into, the archives the aged block feeds from them,
and the newest other message that is in one of these. **RuleGate** is a call: lint the note, refuse or select the block, classify messages, each with the thread
that is found for it, or with none, since a failed lookup counts as none.

**ToolServers** composes the Graph tools. A *scene*, chosen at the start, fixes the configuration, the calls clients make, the folders, rules, messages and
files there are, what the owner and other devices may do meanwhile, and which failures Graph shows.

* **ToolTable** gives every tool its annotations and `dry_run` as `src/tools` registers it, and the shape of its handler's requests: what it reads
  first, whether it encodes the name itself, what it does to the thing, which field of the answer it needs.
* **GraphClient** is how a path reaches Graph (segments are encoded once more, and Graph decodes once) and how a request settles, over seven kinds of answer: the document
  wanted, another one, 2xx that does not parse, an error status, 401, a broken connection, and a response that breaks off, which settles nothing.
* **ToolCalls** is a call from the access gate to its report and audit event (`Call`, `TurnDown`, `NoToken`, `Settle`), and the handlers that act on one named thing:
  `ItemLook`, `ItemAct`. A handler runs from one answer to its next request in one step. `carried` records what Graph carried out for a call.
* **FolderTools** is the walk of the folder tree, one request per folder with children; path resolution; create, rename, delete, move and the
  creation and reordering of Inbox rules, which act on what the walk or the listing found. A listing still to do is the way of folders that led to it, so a folder that moves meanwhile may be listed twice and then
  counts twice. Three things are taken together: the pages of one listing are read in one step, a well-known folder, which needs no walk, is the empty path, and names are up to case, which
code and Graph ignore. An answer without a list counts as an empty folder. The owner renames, moves and deletes folders between any two requests.
* **MailReads** is the paginated listing and search (built by **SearchTerms**, which follows `buildSearchParams` and the KQL builders) and the two reads of an attachment's download.
  **Uploads** is the session and the chunks of a large upload. A connection that breaks with an error of no words counts as a chunk sent, and the next one is then refused.
* **AuditLog** is one log, rotated by size, that all servers append to, each through its own queue; `stat`, each rename and each append are steps.

## 4. What the runs show

| Run | Instance and why it is enough | Shows |
| --- | --- | --- |
| `token_lock` | three callers in three processes, restarts unbounded, one failed call: a holder, a reclaimer and a third party, which every known lock race needs | `TypeOK`, `MutualExclusion`, `LiveLockKept`, `MutexSpec`, `LockInv`, `BoundedWait`, `DeadOwnerRecovered` |
| `token_lock_probe` | the same with `ExitDuringProbe` | the recovery race (below) |
| `token_store` | two servers, one with two calls, one sign-in, three access tokens: enough for two rotations and a sign-in between | `TypeOK`, `FileUsable`, `RefreshReplacesWhatItRead`, `MemoryNotAhead`, `CallSettles` |
| `routing_engine` | two messages and three kinds of day: a triage caller and an overlapping scan with batches of one, an owner's move and a failure of any of seven kinds; triage, aged and drift callers one at a time through two stages, with one owner's move; triage and drift with two | `TypeOK`, `EntriesTrue`, `SavedBeforeDisposed`, `RoutedIsRecorded`, `RerouteIsManual`, `HistoryKept`, `LoopEnds`, `SweepEnds` |
| `attachment_save` | two savers, messages with two PDFs of one name, with one too large, with none, and one whose destination is refused; one failure | `TypeOK`, `DisposedIsSaved`, `SavedStays` |
| `lazy_classify` | all blocks of two rules with groups of up to two terms, and of three simpler rules; all worlds with up to two forwards | `LazyIsEager`, `LooksUpRelevant`, `Settles` |
| `rule_gate` | families of rule lists over overlapping address patterns, phrases, negations and thread tests; replies that follow a thread into folders, archives of one feeder and of two, and the fallback's folder; rules that save and categorise under every declaration; a rule written twice in one order and in two; notes of one and two blocks | `ReportedNeverFires`, `NothingUnclassified`, `ThreadTargetDefined`, `ActionsResolve` |
| `tool_servers` | every tool alone, with its argument missing, odd or plain, with and without `dry_run`, under every access level and every answer; folder tools over a tree with two folders of one name while the owner makes two changes; pairs of calls of two servers, and three that create and reorder rules; listings of up to five messages in pages of two; downloads and uploads around their limits; three audited calls of one or two servers with every rotation setting | `ChangesAreMeant`, `ReportsTruth`, `FailsForCause`, `ActsOnWhatWasNamed`, `RuleGoesLast`, `ListsWhatWasAsked`, `AttachmentWhole`, `LogKeepsNewest`, `EventsOnce`, `CallSettles` |
| `drift_prune`, `routing_stuck`, `attachment_rollback`, `preview_lookup` | smallest instances of each | disagreements of code and docs (below) |

Bounds are named constants: `MaxFaults`, `MaxIssued`, `MaxActions`, `MaxEntries`, `MaxSuffix`, the identifiers left for folders to be created (`IdsLeft`), the owner's moves of a day (`ownerMoves`) and the
changes of others in a scene (`others`). `PageSize`, `MaxResults`, `DefaultList`, `DownloadLimit`, `ResponseLimit` and `ChunkSize` are the code's own constants, made so small that their
boundaries are passed: two pages and part of a third, a file of exactly, just under and just over a limit or a chunk.
Every passing property has a mutant of the code in the module that models it, which TLC must find to break it.
Deadlock is not checked for `lazy_classify`, `rule_gate`, `tool_servers` and `preview_lookup`, where a settled classification, a refused call, or
a scene whose calls have all been answered is over.

Passing properties that hold under a condition worth knowing:

* `RoutedIsRecorded`, `RerouteIsManual` and `HistoryKept` speak of days on which calls do not overlap and Graph answers (`Undisturbed`), the first two moreover of rules that
  end in their one move (`EndsInMove`), as the documentation's examples do. With actions after the move, a failed one leaves a moved message unrecorded. A message routed without a
  move is recorded as `(no move)` or `(deleted)`, and one saved and moved to a quoted top-level folder under the text `leafOf` makes of its outcome (`run.ts:196-205`, `TopLevel`):
  none is the name of a folder, so the scan reports each as moved by the owner, against `docs/guides/user/email-routing.md:171`. The proof found the last two.
* `NothingUnclassified` speaks of a block labelled `inbound`. `selectBlock` also runs a note's only block whatever its label, and no
  fallback is required of it, so a bare rule list may leave messages unclassified.
* `ThreadTargetDefined` takes folder names up to case. The code keys the feeders of an archive by its spelling (`lookups.ts:93`), so an archive that two rules
  spell differently passes for one with a single feeder.
* `FailsForCause` leaves out names that are encoded twice (`TwiceEncoded`: OneDrive paths and ids in a batch; `RuleTwiceEncoded`: the id of the rule that a reorder has found
  by its name, whatever the name looks like) and the previews of `preview_lookup`. A path without a folder in it resolves to nothing, however the mailbox looks, and counts as a cause (`OneFolder`).
  The proof found the rule's id and the empty path.
* `ReportsTruth` speaks of the text a client gets. A refused creation of a folder or rule is answered without `isError`, so the audit event says ok; `EventsOnce` follows the flag.
* `ActsOnWhatWasNamed` allows one change of the tree by others during a call: with two, a walk can meet a path that never existed.
  `createFolder` looks for a duplicate at the top level only, whatever the parent.
* `RuleGoesLast` allows what interleaving makes unavoidable, and no more: two creates can take the same sequence, so a new rule may stand level with or before as many rules as others
  have created or reordered since its call began, and is the last when nobody did. It leaves out calls that were answered with a failure: one that cannot list the rules goes on with 100.
* `DisposedIsSaved` leaves out messages whose attachments Graph answered for without a list (`unlisted`): that counts as no attachments (`save.ts:104`), and the mail is disposed of with nothing saved.
* `LogKeepsNewest` leaves out two servers that rotate at once and a rename that is refused in the middle of a rotation (`disturbed`): both lose lines.
* `CallSettles` leaves out a response that breaks off: the client has no timeout, and the call waits for ever (`stuck`).

Where code and documentation disagree:

* **Lock recovery** (`token_lock_probe`). The recovery directory does not stop acquisition: between a reclaimer's read of `owner.json` and its
  probe, the owner can release and exit and another process can acquire the lock, which the reclaimer then removes. The window is one
  process exit between two adjacent system calls. `token_lock` excludes exactly this (`ExitDuringProbe = FALSE`), and the theorems state it as an assumption.
* **Lost history** (`drift_prune`). A failed lookup drops the entry of a message that is still there.
* **Endless loop** (`routing_stuck`). A rule whose folder was renamed fails the same messages on every call, and `acted` counts them.
* **No rollback** (`attachment_rollback`). A fetch that fails leaves the files already written, and the retry duplicates them.
* **Previews that fail** (`preview_lookup`). The handler writes `?$select=...` into the path, the client encodes it with the last segment, and Graph looks for
  a message of that name: the preview of a delete never shows what would be deleted. Three calendar previews are built the same way.

### Fairness

Nothing is assumed of people and clients: no call has to start, no mail to arrive. `TokenLock`: a live
process runs its next step and a deadline passes; an operation inside the lock need not end. `TokenStore`:
promise continuations run, file reads and lock waits settle, and the provider's request has a timeout (`msal.ts`), so each refresh step settles one way or the other;
the sign-in has none. `RoutingEngine`: a call under way goes on; faults are bounded by `MaxFaults`, never forced. `LazyClassify`: the loop goes on.
`ToolServers`: a call under way goes on and a queue is written; the owner, the ends of servers and the failures of the log owe nothing.
All of it is weak fairness, which an event loop that is not blocked gives.

## 5. What is proved

`TokenLockProofs`: `TypeOK` and, if no recorded owner exits during a probe, `LockInv`, `MutualExclusion`, `LiveLockKept` and the refinement of `TokenMutex`, for any sets
of callers and processes and any number of faults. `MutualExclusion` is not inductive: `LockInv` adds that a directory belongs to its holder,
that `owner.json` is its maker's, that a reclaimer holds the recovery directory, and that what it has read and
probed is either alive or the file of an owner who will not return. The last is what an exit during a probe breaks.

`LazyClassifyProofs`: for every rule block and message, the loop ends on the rule eager classification would
choose, and asks only where it can matter. The invariant is that the match is the first rule that matches with what is known; the lemma `NothingLeftToLearn` shows
that with nothing left to look up, no rule down to the match reads differently from what it would with everything known.

`RuleGateProofs`: for every note and message, lint is sound for the matcher. The lemmas go up the language: subsumption of
patterns, implication of terms, subsumption of groups, shadowing of rules; then the gate's invariant (a pass that runs has no blocking finding, and
the match is the first rule that matches) carries them to every call. From the same invariant: an inbound pass leaves nothing unclassified, a rule that files with the thread has
a thread to file with, in a folder of the inbound block (`ThreadIsFiled`), and what a claimed message's rule names is declared.
The assumptions are those of `RuleLint`: `*` fits every local part, being a subdomain and occurring in a text are transitive.

`ToolServersProofs` has several parts. `SearchIsWanted`: for every search and message, the query built for Graph, with or without text, matches exactly the messages the caller asked for.
A term of which quoting leaves nothing matches nothing in either reading, which is why the code refuses it.
`ToolsAnnotated` goes through the tables of `src/tools`: what the hints say of a tool holds of its handler.
`ChangesMeant` carries that to every call, for any calls, configurations, folders, page and chunk sizes, failures and number of servers. The inductive invariant `AccessInv` says that
a call past the gate was admitted by it, that a stage from which a change may be sent is reached only by a call that is not a preview and belongs to the
handlers that have it (otherwise nothing would tie the stage to the annotations), and that everything carried out so far is meant. One lemma per action
reduces its step to moving to a stage of the call's own and adding at most one meant change (`StepKeeps`).
The other invariants are about one call at a time too, and each has a lemma for what a step of a call may do to it:
`TruthInv` (for `ReportsTruth`) adds that nothing has been carried out for a call before the step that answers it, save for a batch, whose count never exceeds what was moved and equals
it while nothing failed; `RuleInv` (for `RuleGoesLast`) that from its listing on the rules which do not come before the sequence a create will use are at most as many as the changes of others
that `shifts` has counted, since one change adds or moves one rule (`OneMore`); `FileInv` (for `AttachmentWhole`) that what is handed over agrees with what was read first; `EventInv` (for `EventsOnce`) that the event of an answered call is in the
log, in a queue or lost, once, and of no other call anywhere, through every step of the log's writer.
`LogInv` (for `LogKeepsNewest`) is about the files: as long as nothing disturbed a rotation there are places at which the sequence of all lines was cut into the files, in order (`CutAt`), and
while no rotation was left half-way each slot is longer than the limit, or it is the one hole that a rotation moves down from the oldest slot to the live file, or nothing has come that far yet.
Each step of a rotation moves one cut. That the files in a row are the last piece of the sequence then follows from what `FlattenSeq` returns, and their length from adding up the distances on both sides of the hole.
`ListInv` (for `ListsWhatWasAsked`) says that a call on a page has received the messages before its place in what Graph has for it, as long as nothing came, went or failed, and only wanted ones whatever happened;
`SearchIsWanted` is what lets it say "wanted", and `FlattenType` what lets it say "only".
`NamedInv` (for `ActsOnWhatWasNamed`) says that the folders always form a tree (`IsTree`), that the folders with the call's path now are in its history `named`, and that what a walk has listed was
read in one tree the call was under way in, or in what one change has made of that tree (`Survey`), each with a parent that is listed too or is the top (`Enclosed`).
The lemma it rests on is `ResolvedNamed`: what a path resolves to among such records has the path in one of the two trees, because a change moves a folder with all below it (`Arranges`) or takes
away a set that is closed under children (`Prunes`), so what is below a moved folder was read in the same tree as the folder counts in. With a second change this fails: the records may then be of three trees.
`CauseInv` (for `FailsForCause`) uses these except `FileInv`, `EventInv` and `LogInv`. It follows each call as long as nobody else changes what it works on (`shifts`) and nothing fails: it has listed no folder twice, and every folder that is there is listed or
below a listing still to do (`Undisturbed`), so a walk that is over has listed the tree. Hence the candidates of `resolvePathSegments` are, level by level, exactly the
folders with that part of the path (`CandidateLevels`), so a path of one folder resolves to it and a path of none to nothing (`WholeResolves`, `WholeResolvesNone`); that counts sets, hence finite trees. For the other handlers
it says (`Stands`) that a call past the gate was not turned down, that what is left of a batch are ids of the call, and that an upload's offset is what Graph has received. A call that has failed has a reason (`Reason`).
The assumptions are `FolderAssumption`, that a scene's folders form a tree, of finitely many folders, that names are not empty, that a creation names a folder and a batch has ids; `MailAssumption`, that the page size and the limits are positive, as in `src/config`, and counts and mailboxes are numbers and sequences of messages, and `ScenesAssumption`, that scenes name tools of the table, servers and levels there are, rules with names and numbers, failures of `GraphClient`, and log sizes that are
non-negative numbers, as the configuration demands.

`TokenStoreProofs`: `TypeOK`, `FileUsable`, `MemoryNotAhead`, `RefreshReplacesWhatItRead`, and that the store uses the lock as `TokenMutex` prescribes, which `TokenLockProofs` shows `TokenLock`
to implement: for any servers, calls, sign-ins and number of tokens. `FileUsable` alone is not inductive. `StoreInv` ties it to the lock: a flow holds the lock exactly while it
works on the file (`LockOfWorkers`), so from its reload on the file is what it read or deleted (`PriorIsStored`), what it is about to save is the newest token issued (`NextIsNewest`),
and nothing in use is newer than what was issued (`HeldWasIssued`), so no copy gets ahead of the file.

`AttachmentSaveProofs`: `TypeOK`, `DisposedIsSaved` and `SavedStays`, for any savers, messages, names and faults. `SaveInv` adds that a saver's step fits the attachment it is at
(`Placed`), that files it has written or is still removing are its own and not among those kept for good (`Owned`), which is what makes a rollback harmless to others, and that what lies behind its index is saved (`Progress`).

`RoutingEngineProofs`: every safety property of the run, for any messages, folders, rules, days, passes and scans, in three invariants, each using the one before.
`RoutingInv` holds whatever overlaps and fails: a candidate's actions are those of one of its rules, those before the next one are carried out (`Progress`), and every copy of the entries in
flight tells of places its message has been (`Truth`); `EntriesTrue` and `SavedBeforeDisposed` are consequences. `HistoryInv` is about undisturbed days: one call at a
time (`OneAtATime`), so that what a pass or scan read is still the file (`ReadIsFile`) and a write drops only what is gone or old (`DropsOnlyLost`); hence `HistoryKept`.
`RerouteInv`, for days whose rules end in a move, follows the last folder the engine chose from the action to the entry routed, the file and the scan's report; hence `RoutedIsRecorded` and `RerouteIsManual`.
The assumptions are those of the modules: messages are finitely many and numbered by age, rules are made of the actions there are, a pass and a scan are not the owner.

The inductive invariants were checked by TLC on the instances of the runs before they were proved, except `NamedInv`, which speaks of some earlier tree: of that TLC checked the consequence.

## 6. What is only model-checked

Liveness (`BoundedWait`, `DeadOwnerRecovered`, `CallSettles`, `LoopEnds`, `SweepEnds`, `Settles`), which rests on fairness and
`ENABLED`, out of the prover's reach. What a recursive definition computes
for every input is out of the prover's reach, so first-match classification is stated as a relation (`Classify`, `IsFirst`), not as recursion.

## 7. What is not modelled

* The sign-in server's map of pending states. Its handlers are atomic; that a state can be accepted some five minutes after the ten the documentation gives,
  because only the sweep looks at its age, is plain from the code.
* `tag` and `untag` as the two steps they are: a category set by others between the read and the write is lost.
* The warnings of lint, which stop nothing: broad collisions, party consolidation, address form, known folders, the spelling of a category.
* How candidates for a forward are found and told apart (`lookups.ts`), and the checks on an inline attachment's bytes.
* The registration of the triage and authentication tools, whose handlers are the other modules' subject or only report.
* Text: tokenising rules, HTML to text, formatting of listings, reading an amount out of a PDF, redaction of audit lines, the relaxed JSON reader.
* Configuration, path containment in the file system, templates, generated code: no state that changes.
