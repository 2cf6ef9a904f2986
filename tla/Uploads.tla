------------------------------ MODULE Uploads ------------------------------
(***************************************************************************)
(* The upload of a large file (src/main/onedrive/upload-large.ts): a       *)
(* session, then chunks in order, and a file of that name once the last    *)
(* byte is there.  The name is encoded by sanitizeOneDrivePath and by the  *)
(* client.                                                                 *)
(***************************************************************************)
EXTENDS MailReads

CONSTANT ChunkSize  \* CHUNK_SIZE

VARIABLES
    offset,     \* the next byte the call will send
    received    \* history: the bytes Graph has of the call's session

uploadVars == <<offset, received>>

UploadInit ==
    /\ offset = [c \in Calls |-> 0]
    /\ received = [c \in Calls |-> 0]

fileSize(c) == asked(c).size

CreateSession(c) ==
    /\ at[c] = "session"
    /\ \E answer \in Replies(TRUE) :
         /\ Blame(c, answer, TRUE)
         /\ IF answer = "ok" THEN Continue(c, "chunk") ELSE Rejected(c, answer)
    /\ UNCHANGED <<scene, carried, items, folderVars, mailVars, uploadVars>>

\* Mutant: the range's inclusive end is taken for the next start.
LastSent(start, size) == Smaller(start + ChunkSize, size) - 1

chunkEnd(start, size) == Smaller(start + ChunkSize, size)

\* Graph takes the next bytes of the file and no others.  An answer that does
\* not parse counts as an empty one, and so as a success but for the last; so
\* does a connection that breaks with an error of no words.
UploadChunk(c) ==
    /\ at[c] = "chunk"
    /\ LET start == offset[c]
           end   == chunkEnd(start, fileSize(c))
           last  == end = fileSize(c)
       IN  \E answer \in Replies(start = received[c]), done \in BOOLEAN :
             /\ done \in MayHaveDone(answer)
             /\ Blame(c, answer, start = received[c])
             /\ received' = IF done THEN [received EXCEPT ![c] = Smaller(start + ChunkSize, fileSize(c))] ELSE received
             /\ IF done /\ received'[c] = fileSize(c)
                THEN /\ items' = items \cup {Target(c)}
                     /\ Did(c, [does |-> "upload", on |-> Target(c)])
                ELSE UNCHANGED <<items, carried>>
             /\ CASE NeverSettles(answer) -> Continue(c, "stuck") /\ UNCHANGED offset
                  [] OTHER ->
                       \/ /\ answer \in {"refused", "unauthorized", "lost"}
                          /\ Settle(c, "error")
                          /\ UNCHANGED offset
                       \/ /\ answer \in {"ok", "bare", "garbled", "lost"}
                          /\ offset' = [offset EXCEPT ![c] = end]
                          /\ IF ~last THEN Continue(c, "chunk")
                             ELSE Settle(c, IF answer = "ok" THEN "ok" ELSE "error")
    /\ UNCHANGED <<scene, folderVars, mailVars>>
=============================================================================
