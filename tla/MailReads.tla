----------------------------- MODULE MailReads -----------------------------
(***************************************************************************)
(* Reads of more than one request: the listing and the search of messages, *)
(* page by page (callGraphAPIPaginated, src/main/email/list.ts and         *)
(* search.ts), and the download of an attachment, whose metadata is read   *)
(* first (src/main/email/attachments.ts).  What is read may change between *)
(* two requests.                                                           *)
(***************************************************************************)
EXTENDS FolderTools

CONSTANTS
    PageSize,    \* DEFAULT_PAGE_SIZE
    MaxResults,  \* MAX_RESULT_COUNT
    DefaultList, \* DEFAULT_LIST_SIZE
    DownloadLimit, \* MAX_DOWNLOAD_BYTES
    ResponseLimit  \* GET_RESPONSE_BYTES

\* A message: its folder and the words it has.
Message == [folder : FolderIds \cup {Root}, has : SUBSET STRING]

ASSUME MailAssumption ==
    /\ PageSize \in Nat \ {0} /\ MaxResults \in Nat \ {0} /\ DefaultList \in Nat \ {0}
    /\ \A s \in Scenes :
         /\ \A b \in {s.box} \cup s.boxes : b \in Seq(Message)
         /\ \A c \in DOMAIN s.asked : s.asked[c].count \in Nat

VARIABLES
    box,        \* the messages, the newest first: folder and words
    got,        \* the messages each call has received
    next,       \* how many its nextLink skips
    boxMoved,   \* history: messages came or went since the call began
    file,       \* the attachment at Graph: kind, name, size, bytes
    metadata,   \* what the call has read of it
    given       \* history: the attachment the call has handed over

mailVars == <<box, got, next, boxMoved, file, metadata, given>>

NoFile == [kind |-> "", name |-> "", size |-> 0, bytes |-> 0]

\* What a listing says of an attachment: all but its bytes.
metadataOf(f) == [kind |-> f.kind, name |-> f.name, size |-> f.size]

MailInit ==
    /\ got = [c \in Calls |-> <<>>]
    /\ next = [c \in Calls |-> 0]
    /\ boxMoved = [c \in Calls |-> FALSE]
    /\ metadata = [c \in Calls |-> metadataOf(NoFile)]
    /\ given = [c \in Calls |-> NoFile]

MailIdle == UNCHANGED mailVars

Smaller(a, b) == IF a < b THEN a ELSE b

-----------------------------------------------------------------------------
\* handleListEmails, handleSearchEmails

Lists(c) == Handler(c).flow = "list"

\* Math.max(1, Math.min(args.count || DEFAULT_LIST_SIZE, MAX_RESULT_COUNT))
requestedCount(c) ==
    Smaller(IF asked(c).count = 0 THEN DefaultList ELSE asked(c).count, MaxResults)

\* A listing is a search without terms, ordered like one.
Params(c) == buildSearchParams(asked(c).search)

\* The messages of b that are in A, in the order of b.
Only(b, A) == FlattenSeq([i \in DOMAIN b |-> IF b[i] \in A THEN <<b[i]>> ELSE <<>>])

\* What Graph has for the request, in the folder the walk has found.
Hits(c) == Only(box, {m \in Range(box) : m.folder = walk[c].found /\ Matched(Params(c), m.has)})

FetchPage(c) ==
    /\ at[c] = "page"
    /\ \E answer \in Replies(There(walk[c].found)) :
         LET top   == Smaller(PageSize, requestedCount(c))
             upTo  == Smaller(next[c] + top, Len(Hits(c)))
             all   == IF answer = "ok" THEN got[c] \o SubSeq(Hits(c), next[c] + 1, upTo) ELSE got[c]
             more  == answer = "ok" /\ upTo < Len(Hits(c))
         IN  /\ Blame(c, answer, TRUE)
             /\ IF ~Resolves(answer) THEN Rejected(c, answer) /\ UNCHANGED <<got, next>>
                ELSE IF Enough(all, requestedCount(c)) \/ ~more
                THEN /\ got' = [got EXCEPT ![c] = UpTo(all, requestedCount(c))]
                     /\ Settle(c, "ok")
                     /\ UNCHANGED next
                ELSE /\ got' = [got EXCEPT ![c] = all]
                     /\ next' = [next EXCEPT ![c] = upTo]
                     /\ Continue(c, "page")
    /\ UNCHANGED <<scene, carried, items, folderVars, box, boxMoved, file, metadata, given>>

\* The owner, or a sender: a message comes or goes.
BoxChanges(b) ==
    /\ box' = b
    /\ boxMoved' = [c \in Calls |-> boxMoved[c] \/ at[c] # "new"]
    /\ UNCHANGED <<callVars, logVars, folderVars, got, next, file, metadata, given>>

-----------------------------------------------------------------------------
\* handleGetAttachment

Downloadable(f) == f.kind = "fileAttachment" /\ f.size <= DownloadLimit

ReadMetadata(c) ==
    /\ at[c] = "metadata"
    /\ \E answer \in Replies(TRUE) :
         /\ fault' = [fault EXCEPT ![c] = @ \/ answer # "ok" \/ ~Downloadable(file)]
         /\ IF answer = "ok" /\ Downloadable(file)
            THEN /\ metadata' = [metadata EXCEPT ![c] = metadataOf(file)]
                 /\ Continue(c, "download")
            ELSE UNCHANGED metadata /\ Rejected(c, answer)
    /\ UNCHANGED <<scene, carried, items, folderVars, box, got, next, boxMoved, file, given>>

\* Mutant: only the metadata is compared, not the bytes that came with it.
AgreesByName(before, now) == metadataOf(now) = before

\* The metadata must be what it was, and agree with the bytes that came.
Agrees(before, now) ==
    /\ metadataOf(now) = before
    /\ WithinLimit(now.bytes, DownloadLimit)
    /\ now.bytes = now.size

DownloadAttachment(c) ==
    /\ at[c] = "download"
    /\ \E answer \in Replies(TRUE) :
         LET whole == WithinLimit(file.bytes, ResponseLimit) /\ Agrees(metadata[c], file)
         IN  /\ fault' = [fault EXCEPT ![c] = @ \/ answer # "ok" \/ ~whole]
             /\ IF answer = "ok" /\ whole
                THEN given' = [given EXCEPT ![c] = file] /\ Settle(c, "ok")
                ELSE UNCHANGED given /\ Rejected(c, answer)
    /\ UNCHANGED <<scene, carried, items, folderVars, box, got, next, boxMoved, file, metadata>>

\* The message is edited elsewhere: its attachment is replaced.
FileChanges(f) ==
    /\ file # f /\ file' = f
    /\ UNCHANGED <<callVars, logVars, folderVars, box, got, next, boxMoved, metadata, given>>

MailStep(c) == FetchPage(c) \/ ReadMetadata(c) \/ DownloadAttachment(c)

-----------------------------------------------------------------------------

\* A list or a search reports success with exactly the newest messages of the
\* folder that satisfy every term and filter the caller gave, as many as asked
\* for, over as many pages as it takes, unless messages came or went meanwhile;
\* and then still with none that does not satisfy them (search.ts, runSearch).
ListsWhatWasAsked ==
    \A c \in Calls : report[c] = "ok" /\ Lists(c) =>
        /\ \A i \in DOMAIN got[c] : Wanted(asked(c).search, got[c][i].has)
        /\ Len(got[c]) <= requestedCount(c)
        /\ ~boxMoved[c] /\ ~fault[c] /\ shifts[c] = 0 =>
             LET hits == Only(box, {m \in Range(box) : m.folder = walk[c].found /\ Wanted(asked(c).search, m.has)})
             IN  got[c] = SubSeq(hits, 1, Smaller(Len(hits), requestedCount(c)))

\* An attachment that is handed over is a file of one version: as many bytes
\* as its size says, within the limit, under the name the caller was shown.
AttachmentWhole ==
    \A c \in Calls : given[c] # NoFile =>
        /\ given[c].kind = "fileAttachment"
        /\ given[c].bytes = given[c].size /\ given[c].bytes <= DownloadLimit
        /\ given[c].name = metadata[c].name
=============================================================================
