----------------------------- MODULE ToolTable -----------------------------
(***************************************************************************)
(* The tools of the server: the annotations each is registered with        *)
(* (the index.ts files of src/tools), from which its access level is       *)
(* derived (src/utils/access-level.ts), and what its handler asks of Graph *)
(* (src/main).                                                             *)
(*                                                                         *)
(* A handler is described by                                               *)
(*   flow     the shape of its requests, which the other modules define:   *)
(*            "item" for the handlers that act on one named thing          *)
(*   look     when it reads that thing first: never, before a preview      *)
(*            only, always, or only when it is named by a path             *)
(*   encoded  whether it encodes the name itself (encodeURIComponent or    *)
(*            sanitizeOneDrivePath) before the client encodes the path     *)
(*   select   whether the read carries its $select in the path rather than *)
(*            in the query parameters                                      *)
(*   does     what the change does to the thing: keep, remove or create    *)
(*            it, or put it, with the file there renamed or replaced       *)
(*   needs    the field of the answer without which it reports a failure   *)
(***************************************************************************)
EXTENDS Naturals

-----------------------------------------------------------------------------
\* Access levels

ReadOnly    == [readOnlyHint |-> TRUE,  destructiveHint |-> FALSE]
Write       == [readOnlyHint |-> FALSE, destructiveHint |-> FALSE]
Destructive == [readOnlyHint |-> FALSE, destructiveHint |-> TRUE]

LevelFromAnnotations(hints) ==
    CASE hints.readOnlyHint    -> "read"
      [] hints.destructiveHint -> "destructive"
      [] OTHER                 -> "write"

Rank == [read |-> 1, write |-> 2, destructive |-> 3]

\* Mutant: the gate compares the wrong way round.
AllowedAbove(level, accessLevel) == Rank[level] >= Rank[accessLevel]

\* makeAccessGatedRegister: tools above the configured level are not there.
Allowed(level, accessLevel) == Rank[level] <= Rank[accessLevel]

-----------------------------------------------------------------------------
\* Handlers that act on one named thing

Item == [flow |-> "item", look |-> "never", encoded |-> FALSE, select |-> FALSE,
         does |-> "keep", needs |-> "nothing"]

\* E-mail.  Move to Deleted Items gives the message another id.
handleDeleteEmail == [Item EXCEPT !.look = "preview", !.select = TRUE, !.encoded = TRUE, !.does = "remove"]
handleMarkAsRead  == [Item EXCEPT !.encoded = TRUE]
handleForwardEmail == [Item EXCEPT !.look = "preview"]
handleReplyEmail  == [Item EXCEPT !.look = "preview"]
handleDraftAction == [Item EXCEPT !.look = "preview", !.does = "create", !.needs = "id"]
handleDraftEmail  == [Item EXCEPT !.does = "create"]
handleSendEmail   == [Item EXCEPT !.does = "create"]

\* Calendar
handleAcceptEvent  == Item
handleDeclineEvent == [Item EXCEPT !.look = "preview", !.select = TRUE]
handleCancelEvent  == [Item EXCEPT !.look = "preview", !.select = TRUE]
handleDeleteEvent  == [Item EXCEPT !.look = "preview", !.select = TRUE, !.does = "remove"]
handleCreateEvent  == [Item EXCEPT !.does = "create"]

\* OneDrive
handleCreateDriveFolder == [Item EXCEPT !.encoded = TRUE, !.does = "create", !.needs = "id"]
handleDeleteItem == [Item EXCEPT !.look = "always", !.encoded = TRUE, !.does = "remove"]
handleShare      == [Item EXCEPT !.look = "byPath", !.encoded = TRUE, !.needs = "link"]
handleUpload     == [Item EXCEPT !.encoded = TRUE, !.does = "put", !.needs = "id"]

\* One read, whose answer is the result.
Read == [Item EXCEPT !.does = "nothing"]
handleReadEmail   == [Read EXCEPT !.encoded = TRUE]
handleDownload    == [Read EXCEPT !.encoded = TRUE, !.needs = "link"]
handleListFiles   == [Read EXCEPT !.encoded = TRUE]
handleSearchFiles == [Read EXCEPT !.encoded = TRUE]
handleListEvents  == Read
handleGetAvailability == Read
handleListAttachments == Read

\* The handlers of the other modules
Flow(f) == [Item EXCEPT !.flow = f]

-----------------------------------------------------------------------------
\* Registrations: the handler, the annotations, and whether it takes dry_run.

Tool(handler, hints, dryRun) == [handler |-> handler, hints |-> hints, dryRun |-> dryRun]

AttachmentAndDraftTools == [
    m365_email_attachment_get    |-> Tool(Flow("attachment"), ReadOnly, FALSE),
    m365_email_attachments_list  |-> Tool(handleListAttachments, ReadOnly, FALSE),
    m365_email_draft_create      |-> Tool(handleDraftEmail, Write, FALSE),
    m365_email_draft_forward     |-> Tool(handleDraftAction, Write, TRUE),
    m365_email_draft_reply       |-> Tool(handleDraftAction, Write, TRUE),
    m365_email_draft_reply_all   |-> Tool(handleDraftAction, Write, TRUE)]

MessageTools == [
    m365_email_message_delete    |-> Tool(handleDeleteEmail, Destructive, TRUE),
    m365_email_message_forward   |-> Tool(handleForwardEmail, Write, TRUE),
    m365_email_message_get       |-> Tool(handleReadEmail, ReadOnly, FALSE),
    m365_email_message_mark_read |-> Tool(handleMarkAsRead, Write, FALSE),
    m365_email_message_reply     |-> Tool(handleReplyEmail, Write, TRUE),
    m365_email_message_reply_all |-> Tool(handleReplyEmail, Write, TRUE),
    m365_email_message_send      |-> Tool(handleSendEmail, Write, FALSE)]

MailboxTools == [
    m365_email_messages_list     |-> Tool(Flow("list"), ReadOnly, FALSE),
    m365_email_messages_search   |-> Tool(Flow("list"), ReadOnly, FALSE)]

CalendarTools == [
    m365_calendar_availability_get |-> Tool(handleGetAvailability, ReadOnly, FALSE),
    m365_calendar_event_accept   |-> Tool(handleAcceptEvent, Write, FALSE),
    m365_calendar_event_cancel   |-> Tool(handleCancelEvent, Destructive, TRUE),
    m365_calendar_event_create   |-> Tool(handleCreateEvent, Write, FALSE),
    m365_calendar_event_decline  |-> Tool(handleDeclineEvent, Write, TRUE),
    m365_calendar_event_delete   |-> Tool(handleDeleteEvent, Destructive, TRUE),
    m365_calendar_events_list    |-> Tool(handleListEvents, ReadOnly, FALSE)]

FolderToolTable == [
    m365_email_folder_create     |-> Tool(Flow("createFolder"), Write, FALSE),
    m365_email_folder_delete     |-> Tool(Flow("deleteFolder"), Destructive, TRUE),
    m365_email_folder_rename     |-> Tool(Flow("renameFolder"), Write, FALSE),
    m365_email_folders_list      |-> Tool(Flow("listFolders"), ReadOnly, FALSE),
    m365_email_messages_move     |-> Tool(Flow("moveEmails"), Write, FALSE)]

RuleToolTable == [
    m365_email_rule_create       |-> Tool(Flow("createRule"), Write, FALSE),
    m365_email_rules_list        |-> Tool(Flow("listRules"), ReadOnly, FALSE),
    m365_email_rules_reorder     |-> Tool(Flow("reorderRule"), Write, FALSE)]

DriveTools == [
    m365_onedrive_folder_create  |-> Tool(handleCreateDriveFolder, Write, FALSE),
    m365_onedrive_item_delete    |-> Tool(handleDeleteItem, Destructive, TRUE),
    m365_onedrive_item_download  |-> Tool(handleDownload, ReadOnly, FALSE),
    m365_onedrive_item_share     |-> Tool(handleShare, Write, FALSE),
    m365_onedrive_item_upload    |-> Tool(handleUpload, Write, FALSE),
    m365_onedrive_item_upload_large |-> Tool(Flow("upload"), Write, FALSE),
    m365_onedrive_items_list     |-> Tool(handleListFiles, ReadOnly, FALSE),
    m365_onedrive_items_search   |-> Tool(handleSearchFiles, ReadOnly, FALSE)]

\* Changes that remove something.
Removing == {"remove", "deleteFolder"}

Tables == {AttachmentAndDraftTools, MessageTools, MailboxTools, CalendarTools,
           FolderToolTable, RuleToolTable, DriveTools}

ToolNames == UNION {DOMAIN t : t \in Tables}
ToolOf(name) == LET t == CHOOSE u \in Tables : name \in DOMAIN u IN t[name]
LevelOf(name) == LevelFromAnnotations(ToolOf(name).hints)
=============================================================================
