------------------------- MODULE ToolServersProofs -------------------------
(***************************************************************************)
(* What the tools do is what was asked and what was allowed.  A search     *)
(* asks Graph for what the caller asked for; the annotations of a tool     *)
(* bound what its handler does; and the access level of a server, the      *)
(* annotations and the default of dry_run bound what its calls change, for *)
(* any tools called, any configuration, and any interleaving of calls,     *)
(* owner and failures.                                                     *)
(***************************************************************************)
EXTENDS ToolServers, CommonLemmas, FiniteSetTheorems, TLAPS

-----------------------------------------------------------------------------
\* Searching: a search that reaches Graph asks for what the caller asked for,
\* for any words and any message.

LEMMA ClauseIsTerm ==
    ASSUME NEW s, NEW t \in TextTerms
    PROVE  Clause(s, t) = s.text[t].words
BY DEF Clause, kqlFreeTextClause, kqlPropertyClause

LEMMA FilterClauses ==
    ASSUME NEW s, NEW has
    PROVE  (\A clause \in {{f} : f \in s.filters} : clause \cap has # {}) <=> s.filters \subseteq has
<1>1. ASSUME \A clause \in {{f} : f \in s.filters} : clause \cap has # {}, NEW f \in s.filters
      PROVE  f \in has
  <2>1. {f} \cap has # {}
    BY <1>1
  <2> QED
    BY <2>1
<1>2. ASSUME s.filters \subseteq has, NEW f \in s.filters PROVE {f} \cap has # {}
  BY <1>2
<1> QED
  BY <1>1, <1>2

LEMMA TextClauses ==
    ASSUME NEW s, NEW has
    PROVE  (\A clause \in {Clause(s, t) : t \in Given(s)} : clause \cap has # {})
             <=> \A t \in Given(s) : s.text[t].words \cap has # {}
<1>1. \A t \in Given(s) : Clause(s, t) = s.text[t].words
  BY ClauseIsTerm DEF Given
<1> QED
  BY <1>1

\* The messages that Graph returns for a search are those with every text term
\* the caller gave and every filter, whether the text is there, so that the
\* filters become clauses of the query, or not, so that they are a $filter
\* (search.ts, buildSearchParams).  A term of which quoting leaves nothing would
\* match nothing, which is why it is refused.
THEOREM SearchIsWanted ==
    ASSUME NEW s, NEW has
    PROVE  Matched(buildSearchParams(s), has) <=> Wanted(s, has)
<1> DEFINE text == {Clause(s, t) : t \in Given(s)}
           filters == {{f} : f \in s.filters}
<1>1. CASE text # {}
  <2>1. buildSearchParams(s).clauses = text \cup filters
    BY <1>1 DEF buildSearchParams, addFiltersAsKQL
  <2> QED
    BY <2>1, FilterClauses, TextClauses DEF Matched, Wanted
<1>2. CASE text = {}
  <2>1. buildSearchParams(s).clauses = filters
    BY <1>2 DEF buildSearchParams, addBooleanFilters
  <2>2. Given(s) = {}
    BY <1>2
  <2> QED
    BY <2>1, <2>2, FilterClauses DEF Matched, Wanted
<1> QED
  BY <1>1, <1>2

-----------------------------------------------------------------------------
\* The table of tools: what the annotations of each say of its handler.

ChangeFlows == {"createFolder", "renameFolder", "deleteFolder", "moveEmails", "createRule", "reorderRule", "upload"}
ReadFlows == {"list", "attachment", "listFolders", "listRules"}
Deeds == {"nothing", "keep", "create", "put", "remove"}

SelectsToPreview(h) == h.select => h.look = "preview"

\* A tool that changes anything is not read-only, one that removes something
\* is destructive, one that takes dry_run reads before it acts, and only what is
\* read for a preview is asked for with a query in the path.
Annotated(tool) ==
    LET level == LevelFromAnnotations(tool.hints)
        h     == tool.handler
    IN  /\ level \in DOMAIN Rank
        /\ h.flow \in {"item"} \cup ReadFlows \cup ChangeFlows
        /\ h.does \in Deeds
        /\ h.flow = "item" /\ h.does # "nothing" => level # "read"
        /\ h.flow = "item" /\ h.does \in Removing => level = "destructive"
        /\ h.flow = "item" /\ tool.dryRun => h.look \in {"preview", "always"}
        /\ h.flow \in ChangeFlows => level # "read"
        /\ h.flow = "deleteFolder" => level = "destructive"
        /\ tool.dryRun => h.flow \in {"item", "deleteFolder"}
        /\ SelectsToPreview(h)

LEMMA Levels ==
    /\ LevelFromAnnotations(ReadOnly) = "read"
    /\ LevelFromAnnotations(Write) = "write"
    /\ LevelFromAnnotations(Destructive) = "destructive"
<1>1. ReadOnly.readOnlyHint /\ ~ReadOnly.destructiveHint
  BY DEF ReadOnly
<1>2. ~Write.readOnlyHint /\ ~Write.destructiveHint
  BY DEF Write
<1>3. ~Destructive.readOnlyHint /\ Destructive.destructiveHint
  BY DEF Destructive
<1> QED
  BY <1>1, <1>2, <1>3 DEF LevelFromAnnotations

LEMMA ReadingTool ==
    ASSUME NEW h, h.flow \in {"item"} \cup ReadFlows, h.does \in Deeds,
           h.flow = "item" => h.does = "nothing", SelectsToPreview(h)
    PROVE  Annotated(Tool(h, ReadOnly, FALSE))
BY Levels DEF Annotated, Tool, Rank, Removing, ReadFlows, ChangeFlows

LEMMA ItemTool ==
    ASSUME NEW h, NEW hints \in {Write, Destructive}, NEW dryRun \in BOOLEAN,
           h.flow = "item", dryRun => h.look \in {"preview", "always"},
           h.does \in Deeds, h.does \in Removing => hints = Destructive, SelectsToPreview(h)
    PROVE  Annotated(Tool(h, hints, dryRun))
BY Levels DEF Annotated, Tool, Rank, Removing, ReadFlows, ChangeFlows

LEMMA FlowTool ==
    ASSUME NEW h, h.flow \in ChangeFlows, h.flow # "deleteFolder", h.does \in Deeds, SelectsToPreview(h)
    PROVE  Annotated(Tool(h, Write, FALSE))
BY Levels DEF Annotated, Tool, Rank, Removing, ReadFlows, ChangeFlows

-----------------------------------------------------------------------------
\* The handlers, by what they do

Reads(h) == h.flow = "item" /\ h.does = "nothing" /\ h.does \in Deeds /\ SelectsToPreview(h)
Acts(h) == h.flow = "item" /\ h.does \in Deeds \ Removing /\ SelectsToPreview(h)
Previewed(h) == h.flow = "item" /\ h.does \in Deeds /\ h.look \in {"preview", "always"} /\ SelectsToPreview(h)

LEMMA Readers ==
    /\ Reads(handleReadEmail)
    /\ Reads(handleDownload)
    /\ Reads(handleListFiles)
    /\ Reads(handleSearchFiles)
    /\ Reads(handleListEvents)
    /\ Reads(handleGetAvailability)
    /\ Reads(handleListAttachments)
BY DEF Reads, SelectsToPreview, Deeds, Removing, Item, Read,
    handleReadEmail, handleDownload, handleListFiles, handleSearchFiles, handleListEvents,
    handleGetAvailability, handleListAttachments

LEMMA Actors ==
    /\ Acts(handleMarkAsRead)
    /\ Acts(handleForwardEmail)
    /\ Acts(handleReplyEmail)
    /\ Acts(handleDraftAction)
    /\ Acts(handleDraftEmail)
    /\ Acts(handleSendEmail)
    /\ Acts(handleAcceptEvent)
    /\ Acts(handleDeclineEvent)
    /\ Acts(handleCancelEvent)
    /\ Acts(handleCreateEvent)
    /\ Acts(handleCreateDriveFolder)
    /\ Acts(handleShare)
    /\ Acts(handleUpload)
BY DEF Acts, SelectsToPreview, Deeds, Removing, Item, Read,
    handleMarkAsRead, handleForwardEmail, handleReplyEmail, handleDraftAction,
    handleDraftEmail, handleSendEmail, handleAcceptEvent, handleDeclineEvent,
    handleCancelEvent, handleCreateEvent, handleCreateDriveFolder, handleShare, handleUpload

LEMMA Previewers ==
    /\ Previewed(handleDeleteEmail)
    /\ Previewed(handleForwardEmail)
    /\ Previewed(handleReplyEmail)
    /\ Previewed(handleDraftAction)
    /\ Previewed(handleDeclineEvent)
    /\ Previewed(handleCancelEvent)
    /\ Previewed(handleDeleteEvent)
    /\ Previewed(handleDeleteItem)
BY DEF Previewed, SelectsToPreview, Deeds, Removing, Item, Read,
    handleDeleteEmail, handleForwardEmail, handleReplyEmail, handleDraftAction,
    handleDeclineEvent, handleCancelEvent, handleDeleteEvent, handleDeleteItem

LEMMA Flows ==
    /\ Flow("attachment").flow = "attachment"
    /\ Flow("createFolder").flow = "createFolder"
    /\ Flow("createRule").flow = "createRule"
    /\ Flow("deleteFolder").flow = "deleteFolder"
    /\ Flow("list").flow = "list"
    /\ Flow("listFolders").flow = "listFolders"
    /\ Flow("listRules").flow = "listRules"
    /\ Flow("moveEmails").flow = "moveEmails"
    /\ Flow("renameFolder").flow = "renameFolder"
    /\ Flow("reorderRule").flow = "reorderRule"
    /\ Flow("upload").flow = "upload"
    /\ \A f : Flow(f).does \in Deeds /\ SelectsToPreview(Flow(f))
BY DEF Flow, Item, Deeds, SelectsToPreview

LEMMA FlowsRead ==
    /\ Flow("attachment").flow \in ReadFlows /\ Flow("attachment").flow # "item"
    /\ Flow("list").flow \in ReadFlows /\ Flow("list").flow # "item"
    /\ Flow("listFolders").flow \in ReadFlows /\ Flow("listFolders").flow # "item"
    /\ Flow("listRules").flow \in ReadFlows /\ Flow("listRules").flow # "item"
    /\ \A f : Flow(f).does \in Deeds /\ SelectsToPreview(Flow(f))
BY Flows DEF ReadFlows

LEMMA FlowsChange ==
    /\ Flow("createFolder").flow \in ChangeFlows /\ Flow("createFolder").flow # "deleteFolder"
    /\ Flow("createRule").flow \in ChangeFlows /\ Flow("createRule").flow # "deleteFolder"
    /\ Flow("moveEmails").flow \in ChangeFlows /\ Flow("moveEmails").flow # "deleteFolder"
    /\ Flow("renameFolder").flow \in ChangeFlows /\ Flow("renameFolder").flow # "deleteFolder"
    /\ Flow("reorderRule").flow \in ChangeFlows /\ Flow("reorderRule").flow # "deleteFolder"
    /\ Flow("upload").flow \in ChangeFlows /\ Flow("upload").flow # "deleteFolder"
    /\ \A f : Flow(f).does \in Deeds /\ SelectsToPreview(Flow(f))
BY Flows DEF ChangeFlows

-----------------------------------------------------------------------------
\* The tables

LEMMA AttachmentAndDraftToolsAnnotated == \A n \in DOMAIN AttachmentAndDraftTools : Annotated(AttachmentAndDraftTools[n])
<1>1. DOMAIN AttachmentAndDraftTools =
        {"m365_email_attachment_get", "m365_email_attachments_list", "m365_email_draft_create",
         "m365_email_draft_forward", "m365_email_draft_reply", "m365_email_draft_reply_all"}
  BY DEF AttachmentAndDraftTools
<1>2. /\ AttachmentAndDraftTools.m365_email_attachment_get = Tool(Flow("attachment"), ReadOnly, FALSE)
      /\ AttachmentAndDraftTools.m365_email_attachments_list = Tool(handleListAttachments, ReadOnly, FALSE)
      /\ AttachmentAndDraftTools.m365_email_draft_create = Tool(handleDraftEmail, Write, FALSE)
      /\ AttachmentAndDraftTools.m365_email_draft_forward = Tool(handleDraftAction, Write, TRUE)
      /\ AttachmentAndDraftTools.m365_email_draft_reply = Tool(handleDraftAction, Write, TRUE)
      /\ AttachmentAndDraftTools.m365_email_draft_reply_all = Tool(handleDraftAction, Write, TRUE)
  BY DEF AttachmentAndDraftTools
<1>3. Annotated(Tool(Flow("attachment"), ReadOnly, FALSE))
  BY FlowsRead, ReadingTool
<1>4. Annotated(Tool(handleListAttachments, ReadOnly, FALSE))
  BY Readers, ReadingTool DEF Reads
<1>5. Annotated(Tool(handleDraftEmail, Write, FALSE))
  BY Actors, ItemTool DEF Acts
<1>6. Annotated(Tool(handleDraftAction, Write, TRUE))
  BY Actors, Previewers, ItemTool DEF Acts, Previewed
<1> QED
  BY <1>1, <1>2, <1>3, <1>4, <1>5, <1>6

LEMMA MessageToolsAnnotated == \A n \in DOMAIN MessageTools : Annotated(MessageTools[n])
<1>1. DOMAIN MessageTools =
        {"m365_email_message_delete", "m365_email_message_forward", "m365_email_message_get",
         "m365_email_message_mark_read", "m365_email_message_reply", "m365_email_message_reply_all",
         "m365_email_message_send"}
  BY DEF MessageTools
<1>2. /\ MessageTools.m365_email_message_delete = Tool(handleDeleteEmail, Destructive, TRUE)
      /\ MessageTools.m365_email_message_forward = Tool(handleForwardEmail, Write, TRUE)
      /\ MessageTools.m365_email_message_get = Tool(handleReadEmail, ReadOnly, FALSE)
      /\ MessageTools.m365_email_message_mark_read = Tool(handleMarkAsRead, Write, FALSE)
      /\ MessageTools.m365_email_message_reply = Tool(handleReplyEmail, Write, TRUE)
      /\ MessageTools.m365_email_message_reply_all = Tool(handleReplyEmail, Write, TRUE)
      /\ MessageTools.m365_email_message_send = Tool(handleSendEmail, Write, FALSE)
  BY DEF MessageTools
<1>3. /\ Annotated(Tool(handleDeleteEmail, Destructive, TRUE))
      /\ Annotated(Tool(handleForwardEmail, Write, TRUE))
      /\ Annotated(Tool(handleReplyEmail, Write, TRUE))
  BY Actors, Previewers, ItemTool DEF Acts, Previewed
<1>4. Annotated(Tool(handleReadEmail, ReadOnly, FALSE))
  BY Readers, ReadingTool DEF Reads
<1>5. /\ Annotated(Tool(handleMarkAsRead, Write, FALSE))
      /\ Annotated(Tool(handleSendEmail, Write, FALSE))
  BY Actors, ItemTool DEF Acts
<1> QED
  BY <1>1, <1>2, <1>3, <1>4, <1>5

LEMMA MailboxToolsAnnotated == \A n \in DOMAIN MailboxTools : Annotated(MailboxTools[n])
<1>1. DOMAIN MailboxTools =
        {"m365_email_messages_list", "m365_email_messages_search"}
  BY DEF MailboxTools
<1>2. /\ MailboxTools.m365_email_messages_list = Tool(Flow("list"), ReadOnly, FALSE)
      /\ MailboxTools.m365_email_messages_search = Tool(Flow("list"), ReadOnly, FALSE)
  BY DEF MailboxTools
<1>3. Annotated(Tool(Flow("list"), ReadOnly, FALSE))
  BY FlowsRead, ReadingTool
<1> QED
  BY <1>1, <1>2, <1>3

LEMMA CalendarToolsAnnotated == \A n \in DOMAIN CalendarTools : Annotated(CalendarTools[n])
<1>1. DOMAIN CalendarTools =
        {"m365_calendar_availability_get", "m365_calendar_event_accept",
         "m365_calendar_event_cancel", "m365_calendar_event_create", "m365_calendar_event_decline",
         "m365_calendar_event_delete", "m365_calendar_events_list"}
  BY DEF CalendarTools
<1>2. /\ CalendarTools.m365_calendar_availability_get = Tool(handleGetAvailability, ReadOnly, FALSE)
      /\ CalendarTools.m365_calendar_event_accept = Tool(handleAcceptEvent, Write, FALSE)
      /\ CalendarTools.m365_calendar_event_cancel = Tool(handleCancelEvent, Destructive, TRUE)
      /\ CalendarTools.m365_calendar_event_create = Tool(handleCreateEvent, Write, FALSE)
      /\ CalendarTools.m365_calendar_event_decline = Tool(handleDeclineEvent, Write, TRUE)
      /\ CalendarTools.m365_calendar_event_delete = Tool(handleDeleteEvent, Destructive, TRUE)
      /\ CalendarTools.m365_calendar_events_list = Tool(handleListEvents, ReadOnly, FALSE)
  BY DEF CalendarTools
<1>3. /\ Annotated(Tool(handleGetAvailability, ReadOnly, FALSE))
      /\ Annotated(Tool(handleListEvents, ReadOnly, FALSE))
  BY Readers, ReadingTool DEF Reads
<1>4. /\ Annotated(Tool(handleAcceptEvent, Write, FALSE))
      /\ Annotated(Tool(handleCreateEvent, Write, FALSE))
  BY Actors, ItemTool DEF Acts
<1>5. /\ Annotated(Tool(handleCancelEvent, Destructive, TRUE))
      /\ Annotated(Tool(handleDeclineEvent, Write, TRUE))
      /\ Annotated(Tool(handleDeleteEvent, Destructive, TRUE))
  BY Actors, Previewers, ItemTool DEF Acts, Previewed
<1> QED
  BY <1>1, <1>2, <1>3, <1>4, <1>5

LEMMA FolderToolTableAnnotated == \A n \in DOMAIN FolderToolTable : Annotated(FolderToolTable[n])
<1>1. DOMAIN FolderToolTable =
        {"m365_email_folder_create", "m365_email_folder_delete", "m365_email_folder_rename",
         "m365_email_folders_list", "m365_email_messages_move"}
  BY DEF FolderToolTable
<1>2. /\ FolderToolTable.m365_email_folder_create = Tool(Flow("createFolder"), Write, FALSE)
      /\ FolderToolTable.m365_email_folder_delete = Tool(Flow("deleteFolder"), Destructive, TRUE)
      /\ FolderToolTable.m365_email_folder_rename = Tool(Flow("renameFolder"), Write, FALSE)
      /\ FolderToolTable.m365_email_folders_list = Tool(Flow("listFolders"), ReadOnly, FALSE)
      /\ FolderToolTable.m365_email_messages_move = Tool(Flow("moveEmails"), Write, FALSE)
  BY DEF FolderToolTable
<1>3. /\ Annotated(Tool(Flow("createFolder"), Write, FALSE))
      /\ Annotated(Tool(Flow("renameFolder"), Write, FALSE))
      /\ Annotated(Tool(Flow("moveEmails"), Write, FALSE))
  BY FlowsChange, FlowTool
<1>4. Annotated(Tool(Flow("deleteFolder"), Destructive, TRUE))
  BY Flows, Levels DEF ReadFlows, ChangeFlows, Annotated, Tool, Rank, Removing
<1>5. Annotated(Tool(Flow("listFolders"), ReadOnly, FALSE))
  BY FlowsRead, ReadingTool
<1> QED
  BY <1>1, <1>2, <1>3, <1>4, <1>5

LEMMA RuleToolTableAnnotated == \A n \in DOMAIN RuleToolTable : Annotated(RuleToolTable[n])
<1>1. DOMAIN RuleToolTable =
        {"m365_email_rule_create", "m365_email_rules_list", "m365_email_rules_reorder"}
  BY DEF RuleToolTable
<1>2. /\ RuleToolTable.m365_email_rule_create = Tool(Flow("createRule"), Write, FALSE)
      /\ RuleToolTable.m365_email_rules_list = Tool(Flow("listRules"), ReadOnly, FALSE)
      /\ RuleToolTable.m365_email_rules_reorder = Tool(Flow("reorderRule"), Write, FALSE)
  BY DEF RuleToolTable
<1>3. /\ Annotated(Tool(Flow("createRule"), Write, FALSE))
      /\ Annotated(Tool(Flow("reorderRule"), Write, FALSE))
  BY FlowsChange, FlowTool
<1>4. Annotated(Tool(Flow("listRules"), ReadOnly, FALSE))
  BY FlowsRead, ReadingTool
<1> QED
  BY <1>1, <1>2, <1>3, <1>4

LEMMA DriveToolsAnnotated == \A n \in DOMAIN DriveTools : Annotated(DriveTools[n])
<1>1. DOMAIN DriveTools =
        {"m365_onedrive_folder_create", "m365_onedrive_item_delete", "m365_onedrive_item_download",
         "m365_onedrive_item_share", "m365_onedrive_item_upload", "m365_onedrive_item_upload_large",
         "m365_onedrive_items_list", "m365_onedrive_items_search"}
  BY DEF DriveTools
<1>2. /\ DriveTools.m365_onedrive_folder_create = Tool(handleCreateDriveFolder, Write, FALSE)
      /\ DriveTools.m365_onedrive_item_delete = Tool(handleDeleteItem, Destructive, TRUE)
      /\ DriveTools.m365_onedrive_item_download = Tool(handleDownload, ReadOnly, FALSE)
      /\ DriveTools.m365_onedrive_item_share = Tool(handleShare, Write, FALSE)
      /\ DriveTools.m365_onedrive_item_upload = Tool(handleUpload, Write, FALSE)
      /\ DriveTools.m365_onedrive_item_upload_large = Tool(Flow("upload"), Write, FALSE)
      /\ DriveTools.m365_onedrive_items_list = Tool(handleListFiles, ReadOnly, FALSE)
      /\ DriveTools.m365_onedrive_items_search = Tool(handleSearchFiles, ReadOnly, FALSE)
  BY DEF DriveTools
<1>3. /\ Annotated(Tool(handleCreateDriveFolder, Write, FALSE))
      /\ Annotated(Tool(handleShare, Write, FALSE))
      /\ Annotated(Tool(handleUpload, Write, FALSE))
  BY Actors, ItemTool DEF Acts
<1>4. Annotated(Tool(handleDeleteItem, Destructive, TRUE))
  BY Actors, Previewers, ItemTool DEF Acts, Previewed
<1>5. /\ Annotated(Tool(handleDownload, ReadOnly, FALSE))
      /\ Annotated(Tool(handleListFiles, ReadOnly, FALSE))
      /\ Annotated(Tool(handleSearchFiles, ReadOnly, FALSE))
  BY Readers, ReadingTool DEF Reads
<1>6. Annotated(Tool(Flow("upload"), Write, FALSE))
  BY FlowsChange, FlowTool
<1> QED
  BY <1>1, <1>2, <1>3, <1>4, <1>5, <1>6

\* Every tool of the server is annotated for what its handler does: what the
\* hints of src/tools promise holds of the handler they are registered with.
THEOREM ToolsAnnotated == \A name \in ToolNames : Annotated(ToolOf(name))
<1> SUFFICES ASSUME NEW name \in ToolNames PROVE Annotated(ToolOf(name))
  OBVIOUS
<1>1. PICK u \in Tables : name \in DOMAIN u /\ ToolOf(name) = u[name]
  BY DEF ToolNames, ToolOf
<1> QED
  BY <1>1, AttachmentAndDraftToolsAnnotated, MessageToolsAnnotated, MailboxToolsAnnotated,
    CalendarToolsAnnotated, FolderToolTableAnnotated, RuleToolTableAnnotated,
    DriveToolsAnnotated DEF Tables

-----------------------------------------------------------------------------
\* The invariant

\* The gate has let the call through.
Admitted(c) == c \in DOMAIN scene.asked /\ Allowed(Level(c), scene.access[Host(c)])

\* The stages from which a request that changes something may be sent.
Acting == {"act", "post", "reach", "move", "session", "chunk"}

Walking == {"list", "listFolders", "createFolder", "renameFolder", "deleteFolder", "moveEmails", "createRule"}

\* A stage belongs to the handlers that have it, and a preview reaches none
\* from which something is changed.
PlacedAt(c, s) ==
    /\ s \in Acting => ~Previews(c)
    /\ s \in {"look", "act"} => Handler(c).flow = "item"
    /\ s = "walk" => Handler(c).flow \in Walking
    /\ s = "rules" => Handler(c).flow \in {"listRules", "createRule", "reorderRule"}
    /\ s \in {"reach", "move"} => Handler(c).flow = "moveEmails"
    /\ s \in {"session", "chunk"} => Handler(c).flow = "upload"
    /\ s = "page" => Handler(c).flow = "list"
    /\ s \in {"metadata", "download"} => Handler(c).flow = "attachment"
    /\ s = "post" => Handler(c).flow \in {"createFolder", "renameFolder", "deleteFolder", "createRule", "reorderRule"}

Meant(c, change) ==
    /\ Admitted(c)
    /\ Level(c) # "read"
    /\ ~Previews(c)
    /\ change.does \in Removing => Level(c) = "destructive"

CarriedMeant(c) == \E S : carried[c] \in Seq(S) /\ \A change \in S : Meant(c, change)

AccessInv ==
    /\ scene \in Scenes
    /\ at = [c \in Calls |-> at[c]]
    /\ carried = [c \in Calls |-> carried[c]]
    /\ \A c \in Calls : at[c] # "new" => Admitted(c) /\ PlacedAt(c, at[c])
    /\ \A c \in Calls : CarriedMeant(c)

-----------------------------------------------------------------------------
\* What the table of tools says of a call

LEMMA ToolFacts ==
    ASSUME scene \in Scenes, NEW c \in DOMAIN scene.asked
    PROVE  /\ Level(c) \in DOMAIN Rank
           /\ scene.access[Host(c)] \in DOMAIN Rank
           /\ Handler(c).flow \in {"item"} \cup ReadFlows \cup ChangeFlows
           /\ Handler(c).does \in Deeds
           /\ Handler(c).flow = "item" /\ Handler(c).does # "nothing" => Level(c) # "read"
           /\ Handler(c).flow = "item" /\ Handler(c).does \in Removing => Level(c) = "destructive"
           /\ Handler(c).flow \in ChangeFlows => Level(c) # "read"
           /\ Handler(c).flow = "deleteFolder" => Level(c) = "destructive"
           /\ Handler(c).flow = "item" /\ Previews(c) => Handler(c).look \in {"preview", "always"}
           /\ Previews(c) => Handler(c).flow \in {"item", "deleteFolder"}
           /\ Handler(c).select => Handler(c).look = "preview"
<1>1. asked(c).tool \in ToolNames /\ scene.access[Host(c)] \in DOMAIN Rank
  BY ScenesAssumption DEF asked, Host
<1>2. Annotated(ToolFor(c))
  BY <1>1, ToolsAnnotated DEF ToolFor
<1>3. Level(c) = LevelFromAnnotations(ToolFor(c).hints)
  BY DEF Level, LevelOf, ToolFor
<1> QED
  BY <1>1, <1>2, <1>3 DEF Annotated, SelectsToPreview, Handler, Previews

LEMMA AnswersKnown ==
    ASSUME scene \in Scenes, NEW found, NEW answer \in Replies(found)
    PROVE  answer \in Answers
BY ScenesAssumption DEF Replies, Answers

-----------------------------------------------------------------------------
\* Steps of one call

\* The call goes to a stage that is its own.
Moves(c) == \E s : at' = [at EXCEPT ![c] = s] /\ PlacedAt(c, s)

\* At most a change that is meant is carried out for it.
Adds(c) == carried' = carried \/ \E change : Meant(c, change) /\ Did(c, change)

LEMMA LongerMeant ==
    ASSUME NEW c \in Calls, CarriedMeant(c), NEW change, Meant(c, change),
           carried = [d \in Calls |-> carried[d]], Did(c, change), scene' = scene
    PROVE  CarriedMeant(c)'
<1>1. PICK S : carried[c] \in Seq(S) /\ \A x \in S : Meant(c, x)
  BY DEF CarriedMeant
<1>2. carried'[c] = Append(carried[c], change)
  BY DEF Did
<1>3. carried[c] \in Seq(S \cup {change})
  BY <1>1
<1>4. carried'[c] \in Seq(S \cup {change})
  BY <1>2, <1>3
<1>5. \A x \in S \cup {change} : Meant(c, x)'
  BY <1>1 DEF Meant, Admitted, Level, Previews, ToolFor, Host, asked
<1> QED
  BY <1>4, <1>5 DEF CarriedMeant

LEMMA StepKeeps ==
    ASSUME AccessInv, NEW c \in Calls, scene' = scene, Admitted(c), Moves(c), Adds(c)
    PROVE  AccessInv'
<1>1. PICK s : at' = [at EXCEPT ![c] = s] /\ PlacedAt(c, s)
  BY DEF Moves
<1>2. at' = [d \in Calls |-> at'[d]]
  BY <1>1 DEF AccessInv
<1>3. carried' = [d \in Calls |-> carried'[d]]
  BY DEF AccessInv, Adds, Did
<1>4. ASSUME NEW d \in Calls, at'[d] # "new" PROVE Admitted(d)' /\ PlacedAt(d, at[d])'
  <2>1. Admitted(d) /\ PlacedAt(d, at'[d])
    BY <1>1, <1>4 DEF AccessInv
  <2> QED
    BY <2>1 DEF Admitted, PlacedAt, Handler, Previews, Level, ToolFor, Host, asked
<1>5. ASSUME NEW d \in Calls PROVE CarriedMeant(d)'
  <2>1. CASE carried'[d] = carried[d]
    BY <2>1 DEF AccessInv, CarriedMeant, Meant, Admitted, Level, Previews, ToolFor, Host, asked
  <2>2. CASE carried'[d] # carried[d]
    <3>1. PICK change : Meant(c, change) /\ Did(c, change)
      BY <2>2 DEF Adds
    <3>2. d = c
      BY <2>2, <3>1 DEF Did, AccessInv
    <3> QED
      BY <3>1, <3>2, LongerMeant DEF AccessInv
  <2> QED
    BY <2>1, <2>2
<1> QED
  BY <1>2, <1>3, <1>4, <1>5 DEF AccessInv

LEMMA SettleMoves ==
    ASSUME NEW c, NEW r, Settle(c, r)
    PROVE  Moves(c)
<1>1. PlacedAt(c, "done")
  BY DEF PlacedAt, Acting
<1>2. at' = [at EXCEPT ![c] = "done"]
  BY DEF Settle, Step
<1> QED
  BY <1>1, <1>2 DEF Moves

LEMMA ContinueMoves ==
    ASSUME NEW c, NEW s, Continue(c, s), PlacedAt(c, s)
    PROVE  Moves(c)
BY DEF Continue, Step, Moves

LEMMA RejectedMoves ==
    ASSUME NEW c, NEW answer, Rejected(c, answer)
    PROVE  Moves(c)
<1>1. PlacedAt(c, "stuck")
  BY DEF PlacedAt, Acting
<1> QED
  BY <1>1, SettleMoves, ContinueMoves DEF Rejected

LEMMA NothingKeeps ==
    ASSUME AccessInv, UNCHANGED <<scene, at, carried>>
    PROVE  AccessInv'
BY DEF AccessInv, CarriedMeant, Meant, Admitted, PlacedAt, Handler, Previews, Level, ToolFor, Host, asked

-----------------------------------------------------------------------------
\* Each step of a call keeps the invariant

\* What the steps of a call after the gate have in common.
LEMMA InCallFacts ==
    ASSUME AccessInv, NEW c \in Calls, at[c] # "new"
    PROVE  /\ Admitted(c) /\ PlacedAt(c, at[c])
           /\ c \in DOMAIN scene.asked /\ scene \in Scenes
BY DEF AccessInv, Admitted

LEMMA CallKeeps ==
    ASSUME AccessInv, NEW c \in Calls, Call(c)
    PROVE  AccessInv'
<1>1. Admitted(c)
  BY DEF Call, Admitted
<1>2. PlacedAt(c, "auth")
  BY DEF PlacedAt, Acting
<1>3. Moves(c)
  BY <1>2, ContinueMoves DEF Call
<1>4. scene' = scene /\ Adds(c)
  BY DEF Call, Adds
<1> QED
  BY <1>1, <1>3, <1>4, StepKeeps

LEMMA EndsKeep ==
    ASSUME AccessInv, NEW c \in Calls, TurnDown(c) \/ NoToken(c)
    PROVE  AccessInv'
<1>1. at[c] = "auth" /\ Settle(c, "error") /\ scene' = scene /\ carried' = carried
  BY DEF TurnDown, NoToken
<1>2. Moves(c)
  BY <1>1, SettleMoves
<1> QED
  BY <1>1, <1>2, InCallFacts, StepKeeps DEF Adds

\* A handler starts at a stage of its own: one that looks at the thing first
\* for a preview, or not at all when there is none to give.
LEMMA EntryPlaced ==
    ASSUME AccessInv, NEW c \in Calls, at[c] # "new"
    PROVE  PlacedAt(c, Entry(c))
<1>1. c \in DOMAIN scene.asked /\ scene \in Scenes
  BY InCallFacts
<1>2. Handler(c).flow \in {"item"} \cup ReadFlows \cup ChangeFlows
  BY <1>1, ToolFacts
<1>3. CASE Handler(c).flow = "item"
  <2>1. Entry(c) = IF LooksFirst(c) THEN "look" ELSE "act"
    BY <1>3 DEF Entry
  <2>2. Previews(c) => LooksFirst(c)
    BY <1>1, <1>3, ToolFacts DEF LooksFirst
  <2> QED
    BY <1>3, <2>1, <2>2 DEF PlacedAt, Acting
<1>4. CASE Handler(c).flow # "item"
  <2>1. Previews(c) => Handler(c).flow = "deleteFolder"
    BY <1>1, <1>4, ToolFacts
  <2> QED
    BY <1>2, <1>4, <2>1 DEF Entry, PlacedAt, Acting, Walking, ReadFlows, ChangeFlows
<1> QED
  BY <1>3, <1>4

LEMMA AuthenticatedKeeps ==
    ASSUME AccessInv, NEW c \in Calls, Authenticated(c)
    PROVE  AccessInv'
<1>1. at[c] = "auth" /\ Continue(c, Entry(c)) /\ scene' = scene /\ carried' = carried
  BY DEF Authenticated
<1>2. Moves(c)
  BY <1>1, EntryPlaced, ContinueMoves
<1> QED
  BY <1>1, <1>2, InCallFacts, StepKeeps DEF Adds

LEMMA ItemLookKeeps ==
    ASSUME AccessInv, NEW c \in Calls, ItemLook(c)
    PROVE  AccessInv'
<1>1. at[c] = "look" /\ scene' = scene /\ carried' = carried
  BY DEF ItemLook
<1>2. Handler(c).flow = "item"
  BY <1>1, InCallFacts DEF PlacedAt
<1>3. \/ \E answer : Rejected(c, answer)
      \/ \E r : Settle(c, r)
      \/ ~Previews(c) /\ Continue(c, "act")
  BY DEF ItemLook
<1>4. ~Previews(c) => PlacedAt(c, "act")
  BY <1>2 DEF PlacedAt, Acting
<1>5. Moves(c)
  BY <1>3, <1>4, RejectedMoves, SettleMoves, ContinueMoves
<1> QED
  BY <1>1, <1>5, InCallFacts, StepKeeps DEF Adds

LEMMA ItemActKeeps ==
    ASSUME AccessInv, NEW c \in Calls, ItemAct(c)
    PROVE  AccessInv'
<1>1. at[c] = "act" /\ scene' = scene
  BY DEF ItemAct
<1>2. Handler(c).flow = "item" /\ ~Previews(c)
  BY <1>1, InCallFacts DEF PlacedAt, Acting
<1>3. (\E answer : Rejected(c, answer)) \/ (\E r : Settle(c, r))
  BY DEF ItemAct
<1>4. Moves(c)
  BY <1>3, RejectedMoves, SettleMoves
<1>5. \/ carried' = carried
      \/ /\ Handler(c).does # "nothing"
         /\ Did(c, [does |-> Handler(c).does, on |-> Target(c)])
  BY DEF ItemAct
<1>6. Handler(c).does # "nothing" => Meant(c, [does |-> Handler(c).does, on |-> Target(c)])
  BY <1>1, <1>2, InCallFacts, ToolFacts DEF Meant
<1>7. Adds(c)
  BY <1>5, <1>6 DEF Adds
<1> QED
  BY <1>1, <1>4, <1>7, InCallFacts, StepKeeps

\* When every folder has been listed, only a handler that is not previewing
\* goes on to a change.
LEMMA ResolvedMoves ==
    ASSUME AccessInv, NEW c \in Calls, at[c] = "walk", NEW listed, Resolved(c, listed)
    PROVE  Moves(c)
<1>1. Handler(c).flow \in Walking
  BY InCallFacts DEF PlacedAt
<1>2. Previews(c) => Handler(c).flow \in {"item", "deleteFolder"}
  BY InCallFacts, ToolFacts
<1>3. PlacedAt(c, "walk")
  BY <1>1 DEF PlacedAt, Acting
<1>4. \A id, stage : Found(c, id, stage) => Continue(c, stage)
  BY DEF Found
<1>5. CASE Handler(c).flow = "listFolders"
  <2>1. Settle(c, "ok")
    BY <1>5 DEF Resolved
  <2> QED
    BY <2>1, SettleMoves
<1>6. CASE Handler(c).flow \in {"createFolder", "createRule"}
  <2>1. PlacedAt(c, "post")
    BY <1>2, <1>6 DEF PlacedAt, Acting
  <2>2. Settle(c, "refusal") \/ Continue(c, "post") \/ Continue(c, "walk")
    BY <1>4, <1>6 DEF Resolved
  <2> QED
    BY <1>3, <2>1, <2>2, SettleMoves, ContinueMoves
<1>7. CASE Handler(c).flow \in {"renameFolder", "deleteFolder", "moveEmails", "list"}
  <2>1. \/ Settle(c, "error") \/ Settle(c, "preview")
        \/ /\ ~Previews(c)
           /\ Continue(c, CASE Handler(c).flow = "moveEmails" -> "reach"
                            [] Handler(c).flow = "list" -> "page" [] OTHER -> "post")
    BY <1>4, <1>7 DEF Resolved
  <2>2. ~Previews(c) => PlacedAt(c, CASE Handler(c).flow = "moveEmails" -> "reach"
                            [] Handler(c).flow = "list" -> "page" [] OTHER -> "post")
    BY <1>7 DEF PlacedAt, Acting
  <2> QED
    BY <2>1, <2>2, SettleMoves, ContinueMoves
<1> QED
  BY <1>1, <1>5, <1>6, <1>7 DEF Walking

LEMMA ListChildrenKeeps ==
    ASSUME AccessInv, NEW c \in Calls, NEW p, ListChildren(c, p)
    PROVE  AccessInv'
<1>1. at[c] = "walk" /\ scene' = scene /\ carried' = carried
  BY DEF ListChildren
<1>2. Handler(c).flow \in Walking
  BY <1>1, InCallFacts DEF PlacedAt
<1>3. \/ \E listed : Resolved(c, listed)
      \/ \E r : Settle(c, r)
      \/ \E s \in {"walk", "stuck"} : Continue(c, s)
  BY DEF ListChildren
<1>4. PlacedAt(c, "walk") /\ PlacedAt(c, "stuck")
  BY <1>2 DEF PlacedAt, Acting
<1>5. Moves(c)
  BY <1>1, <1>3, <1>4, ResolvedMoves, SettleMoves, ContinueMoves
<1> QED
  BY <1>1, <1>5, InCallFacts, StepKeeps DEF Adds

\* A change by a handler of another shape than "item".
LEMMA FlowMeant ==
    ASSUME AccessInv, NEW c \in Calls, at[c] \in Acting, Handler(c).flow \in ChangeFlows,
           NEW change, change.does \in Removing => Handler(c).flow = "deleteFolder"
    PROVE  Meant(c, change)
<1>1. at[c] # "new"
  BY DEF Acting
<1> QED
  BY <1>1, InCallFacts, ToolFacts DEF Meant, PlacedAt

LEMMA PostFolderKeeps ==
    ASSUME AccessInv, NEW c \in Calls, PostFolder(c)
    PROVE  AccessInv'
<1>1. /\ at[c] = "post" /\ scene' = scene
      /\ Handler(c).flow \in {"createFolder", "renameFolder", "deleteFolder"}
  BY DEF PostFolder
<1>2. (\E answer : Rejected(c, answer)) \/ (\E r : Settle(c, r))
  BY DEF PostFolder
<1>3. Moves(c)
  BY <1>2, RejectedMoves, SettleMoves
<1>4. carried' = carried \/ Did(c, [does |-> Handler(c).flow, on |-> walk[c].found])
  BY DEF PostFolder
<1>5. Meant(c, [does |-> Handler(c).flow, on |-> walk[c].found])
  BY <1>1, FlowMeant DEF Acting, ChangeFlows, Removing
<1>6. Adds(c)
  BY <1>4, <1>5 DEF Adds
<1> QED
  BY <1>1, <1>3, <1>6, InCallFacts, StepKeeps

LEMMA ReachKeeps ==
    ASSUME AccessInv, NEW c \in Calls, Reach(c)
    PROVE  AccessInv'
<1>1. at[c] = "reach" /\ scene' = scene /\ carried' = carried
  BY DEF Reach
<1>2. PlacedAt(c, "move")
  BY <1>1, InCallFacts DEF PlacedAt, Acting
<1>3. Continue(c, "move") \/ (\E answer : Rejected(c, answer))
  BY DEF Reach
<1>4. Moves(c)
  BY <1>2, <1>3, RejectedMoves, ContinueMoves
<1> QED
  BY <1>1, <1>4, InCallFacts, StepKeeps DEF Adds

LEMMA MoveNextKeeps ==
    ASSUME AccessInv, NEW c \in Calls, MoveNext(c)
    PROVE  AccessInv'
<1>1. at[c] = "move" /\ scene' = scene
  BY DEF MoveNext
<1>2. PlacedAt(c, "move") /\ PlacedAt(c, "stuck") /\ Handler(c).flow = "moveEmails"
  BY <1>1, InCallFacts DEF PlacedAt, Acting
<1>3. Continue(c, "move") \/ Continue(c, "stuck") \/ (\E r : Settle(c, r))
  BY DEF MoveNext
<1>4. Moves(c)
  BY <1>2, <1>3, SettleMoves, ContinueMoves
<1>5. carried' = carried \/ Did(c, [does |-> "move", on |-> walk[c].found])
  BY DEF MoveNext
<1>6. Meant(c, [does |-> "move", on |-> walk[c].found])
  BY <1>1, <1>2, FlowMeant DEF Acting, ChangeFlows, Removing
<1>7. Adds(c)
  BY <1>5, <1>6 DEF Adds
<1> QED
  BY <1>1, <1>4, <1>7, InCallFacts, StepKeeps

LEMMA ListRulesKeeps ==
    ASSUME AccessInv, NEW c \in Calls, ListRules(c)
    PROVE  AccessInv'
<1>1. at[c] = "rules" /\ scene' = scene /\ carried' = carried
  BY DEF ListRules
<1>2. Handler(c).flow \in {"listRules", "createRule", "reorderRule"}
  BY <1>1, InCallFacts DEF PlacedAt
<1>3. ~Previews(c)
  BY <1>1, <1>2, InCallFacts, ToolFacts
<1>4. \/ \E r : Settle(c, r)
      \/ Continue(c, "stuck")
      \/ Handler(c).flow # "listRules" /\ Continue(c, "post")
      \/ Handler(c).flow = "createRule" /\ Continue(c, "walk")
  BY <1>2 DEF ListRules
<1>5. /\ PlacedAt(c, "stuck")
      /\ Handler(c).flow # "listRules" => PlacedAt(c, "post")
      /\ Handler(c).flow = "createRule" => PlacedAt(c, "walk")
  BY <1>2, <1>3 DEF PlacedAt, Acting, Walking
<1>6. Moves(c)
  BY <1>4, <1>5, SettleMoves, ContinueMoves
<1> QED
  BY <1>1, <1>6, InCallFacts, StepKeeps DEF Adds

LEMMA PostRuleKeeps ==
    ASSUME AccessInv, NEW c \in Calls, PostRule(c)
    PROVE  AccessInv'
<1> DEFINE change == [does |-> "createRule", on |-> walk[c].found, behind |-> FromNumber(rules, sequence[c])]
<1>1. at[c] = "post" /\ scene' = scene /\ Handler(c).flow = "createRule"
  BY DEF PostRule
<1>2. (\E answer : Rejected(c, answer)) \/ (\E r : Settle(c, r))
  BY DEF PostRule
<1>3. Moves(c)
  BY <1>2, RejectedMoves, SettleMoves
<1>4. carried' = carried \/ Did(c, change)
  BY DEF PostRule
<1>5. Meant(c, change)
  BY <1>1, FlowMeant DEF Acting, ChangeFlows, Removing
<1>6. Adds(c)
  BY <1>4, <1>5 DEF Adds
<1> QED
  BY <1>1, <1>3, <1>6, InCallFacts, StepKeeps

LEMMA ReorderKeeps ==
    ASSUME AccessInv, NEW c \in Calls, Reorder(c)
    PROVE  AccessInv'
<1>1. at[c] = "post" /\ scene' = scene /\ Handler(c).flow = "reorderRule"
  BY DEF Reorder
<1>2. (\E answer : Rejected(c, answer)) \/ (\E r : Settle(c, r))
  BY DEF Reorder
<1>3. Moves(c)
  BY <1>2, RejectedMoves, SettleMoves
<1>4. carried' = carried \/ \E rule : Did(c, [does |-> "reorderRule", on |-> rule])
  BY DEF Reorder
<1>5. ASSUME NEW rule PROVE Meant(c, [does |-> "reorderRule", on |-> rule])
  BY <1>1, FlowMeant DEF Acting, ChangeFlows, Removing
<1>6. Adds(c)
  BY <1>4, <1>5 DEF Adds
<1> QED
  BY <1>1, <1>3, <1>6, InCallFacts, StepKeeps

LEMMA MailKeeps ==
    ASSUME AccessInv, NEW c \in Calls, MailStep(c)
    PROVE  AccessInv'
<1>1. at[c] # "new" /\ scene' = scene /\ carried' = carried
  BY DEF MailStep, FetchPage, ReadMetadata, DownloadAttachment
<1>2. \/ \E answer : Rejected(c, answer)
      \/ \E r : Settle(c, r)
      \/ at[c] = "page" /\ Continue(c, "page")
      \/ at[c] = "metadata" /\ Continue(c, "download")
  BY DEF MailStep, FetchPage, ReadMetadata, DownloadAttachment
<1>3. /\ at[c] = "page" => PlacedAt(c, "page")
      /\ at[c] = "metadata" => PlacedAt(c, "download")
  BY <1>1, InCallFacts DEF PlacedAt, Acting
<1>4. Moves(c)
  BY <1>2, <1>3, RejectedMoves, SettleMoves, ContinueMoves
<1> QED
  BY <1>1, <1>4, InCallFacts, StepKeeps DEF Adds

LEMMA CreateSessionKeeps ==
    ASSUME AccessInv, NEW c \in Calls, CreateSession(c)
    PROVE  AccessInv'
<1>1. at[c] = "session" /\ scene' = scene /\ carried' = carried
  BY DEF CreateSession
<1>2. PlacedAt(c, "chunk")
  BY <1>1, InCallFacts DEF PlacedAt, Acting
<1>3. Continue(c, "chunk") \/ (\E answer : Rejected(c, answer))
  BY DEF CreateSession
<1>4. Moves(c)
  BY <1>2, <1>3, RejectedMoves, ContinueMoves
<1> QED
  BY <1>1, <1>4, InCallFacts, StepKeeps DEF Adds

LEMMA UploadChunkKeeps ==
    ASSUME AccessInv, NEW c \in Calls, UploadChunk(c)
    PROVE  AccessInv'
<1>1. at[c] = "chunk" /\ scene' = scene
  BY DEF UploadChunk
<1>2. PlacedAt(c, "chunk") /\ PlacedAt(c, "stuck") /\ Handler(c).flow = "upload"
  BY <1>1, InCallFacts DEF PlacedAt, Acting
<1> DEFINE end == chunkEnd(offset[c], fileSize(c))
<1>3. PICK answer : /\ answer \in Replies(offset[c] = received[c])
                    /\ CASE NeverSettles(answer) -> Continue(c, "stuck") /\ UNCHANGED offset
                         [] OTHER ->
                              \/ /\ answer \in {"refused", "unauthorized", "lost"}
                                 /\ Settle(c, "error")
                                 /\ UNCHANGED offset
                              \/ /\ answer \in {"ok", "bare", "garbled", "lost"}
                                 /\ offset' = [offset EXCEPT ![c] = end]
                                 /\ IF ~(end = fileSize(c)) THEN Continue(c, "chunk")
                                    ELSE Settle(c, IF answer = "ok" THEN "ok" ELSE "error")
  BY Zenon DEF UploadChunk
<1>4. answer \in Answers
  BY <1>3, AnswersKnown, InCallFacts, <1>1
<1>5. Continue(c, "stuck") \/ Continue(c, "chunk") \/ (\E r : Settle(c, r))
  BY <1>3, <1>4 DEF Answers, NeverSettles
<1>6. Moves(c)
  BY <1>2, <1>5, SettleMoves, ContinueMoves
<1>7. carried' = carried \/ Did(c, [does |-> "upload", on |-> Target(c)])
  BY DEF UploadChunk
<1>8. Meant(c, [does |-> "upload", on |-> Target(c)])
  BY <1>1, <1>2, FlowMeant DEF Acting, ChangeFlows, Removing
<1>9. Adds(c)
  BY <1>7, <1>8 DEF Adds
<1> QED
  BY <1>1, <1>6, <1>9, InCallFacts, StepKeeps

-----------------------------------------------------------------------------
\* What others do

LEMMA DiesKeeps ==
    ASSUME AccessInv, NEW s \in Servers, Dies(s)
    PROVE  AccessInv'
<1>1. /\ scene' = scene /\ carried' = carried
      /\ at' = [c \in Calls |-> IF InCall(c) /\ Host(c) = s THEN "gone" ELSE at[c]]
  BY DEF Dies
<1>2. ASSUME NEW c \in Calls, at'[c] # "new" PROVE Admitted(c)' /\ PlacedAt(c, at[c])'
  <2>1. at[c] # "new"
    BY <1>1, <1>2 DEF InCall
  <2>2. Admitted(c) /\ PlacedAt(c, at[c])
    BY <2>1 DEF AccessInv
  <2>3. PlacedAt(c, "gone")
    BY DEF PlacedAt, Acting
  <2>4. Admitted(c) /\ PlacedAt(c, at'[c])
    BY <1>1, <2>2, <2>3
  <2> QED
    BY <1>1, <2>4 DEF Admitted, PlacedAt, Handler, Previews, Level, ToolFor, Host, asked
<1>3. ASSUME NEW c \in Calls PROVE CarriedMeant(c)'
  BY <1>1 DEF AccessInv, CarriedMeant, Meant, Admitted, Level, Previews, ToolFor, Host, asked
<1>4. at' = [c \in Calls |-> at'[c]] /\ carried' = [c \in Calls |-> carried'[c]]
  BY <1>1 DEF AccessInv
<1> QED
  BY <1>1, <1>2, <1>3, <1>4 DEF AccessInv

LEMMA OthersKeep ==
    ASSUME AccessInv, Other \/ \E s \in Servers : LogStep(s) \/ LogFault(s)
    PROVE  AccessInv'
<1>1. UNCHANGED <<scene, at, carried>>
  BY DEF Other, OwnerArranges, OwnerDeletes, BoxChanges, FileChanges, LogStep, LogFault, callVars
<1> QED
  BY <1>1, NothingKeeps

-----------------------------------------------------------------------------
\* The specification keeps it, and it is what is claimed.

LEMMA InitAccess == Init => AccessInv
<1> SUFFICES ASSUME Init PROVE AccessInv
  OBVIOUS
<1>1. /\ scene \in Scenes
      /\ at = [c \in Calls |-> "new"] /\ carried = [c \in Calls |-> <<>>]
  BY DEF Init
<1>2. ASSUME NEW c \in Calls PROVE CarriedMeant(c)
  <2>1. carried[c] \in Seq({})
    BY <1>1
  <2> QED
    BY <2>1 DEF CarriedMeant
<1> QED
  BY <1>1, <1>2 DEF AccessInv

LEMMA NextAccess ==
    ASSUME AccessInv, Next
    PROVE  AccessInv'
<1>1. CASE \E c \in Calls : NewCall(c) /\ UNCHANGED envVars
  BY <1>1, CallKeeps DEF NewCall
<1>2. ASSUME NEW c \in Calls, CallStep(c) PROVE AccessInv'
  <2>1. CASE ItemStep(c)
    BY <2>1, EndsKeep, ItemLookKeeps, ItemActKeeps DEF ItemStep
  <2>2. CASE FolderStep(c)
    BY <2>2, AuthenticatedKeeps, ListChildrenKeeps, PostFolderKeeps, ReachKeeps, MoveNextKeeps,
       ListRulesKeeps, PostRuleKeeps, ReorderKeeps DEF FolderStep
  <2>3. CASE MailStep(c) \/ CreateSession(c) \/ UploadChunk(c)
    BY <2>3, MailKeeps, CreateSessionKeeps, UploadChunkKeeps
  <2> QED
    BY <1>2, <2>1, <2>2, <2>3 DEF CallStep
<1>3. CASE \E s \in Servers : Dies(s)
  BY <1>3, DiesKeeps
<1>4. CASE Other \/ \E s \in Servers : LogStep(s) \/ LogFault(s)
  BY <1>4, OthersKeep
<1> QED
  BY <1>1, <1>2, <1>3, <1>4 DEF Next

LEMMA AccessInvariant == Spec => []AccessInv
<1>1. AccessInv /\ [Next]_vars => AccessInv'
  BY NextAccess, NothingKeeps DEF vars, callVars
<1> QED
  BY InitAccess, <1>1, PTL DEF Spec

LEMMA AccessIsMeant == AccessInv => ChangesAreMeant
<1> SUFFICES ASSUME AccessInv, NEW c \in Calls, carried[c] # <<>>
             PROVE  /\ Rank[Level(c)] \in 2 .. Rank[scene.access[Host(c)]]
                    /\ ToolFor(c).dryRun => asked(c).dry_run = "false"
                    /\ \A i \in DOMAIN carried[c] :
                         carried[c][i].does \in Removing => Level(c) = "destructive"
  BY DEF ChangesAreMeant
<1>1. PICK S : carried[c] \in Seq(S) /\ \A change \in S : Meant(c, change)
  BY DEF AccessInv, CarriedMeant
<1>2. \A i \in DOMAIN carried[c] : carried[c][i] \in S
  BY <1>1
<1>3. 1 \in DOMAIN carried[c]
  BY <1>1
<1>4. Admitted(c) /\ Level(c) # "read" /\ ~Previews(c)
  BY <1>1, <1>2, <1>3 DEF Meant
<1>5. Level(c) \in DOMAIN Rank /\ scene.access[Host(c)] \in DOMAIN Rank
  BY <1>4, ToolFacts DEF AccessInv, Admitted
<1>6. Rank[Level(c)] \in 2 .. Rank[scene.access[Host(c)]]
  BY <1>4, <1>5 DEF Admitted, Allowed, Rank
<1> QED
  BY <1>1, <1>2, <1>4, <1>6 DEF Meant, Previews

\* Whatever is called on whatever configuration, in any interleaving with the
\* owner, failures and the ends of servers: what changes is the work of a tool
\* the access level admits, never of a preview, and what is removed, of a tool
\* annotated as destructive.
THEOREM ChangesMeant == Spec => []ChangesAreMeant
BY AccessInvariant, AccessIsMeant, PTL

-----------------------------------------------------------------------------
\* Every step of a call goes on to another stage, or settles it

Ended == {"done", "stuck", "gone"}

\* What a stage may follow, as far as the proofs need it.
Follows(stage, before) ==
    /\ stage # "done"
    /\ stage = "download" => before = "metadata"
    /\ stage \in {"walk", "post"} => before \in {"auth", "walk", "rules"}

Goes(c) ==
    \/ \E s : Follows(s, at[c]) /\ Continue(c, s)
    \/ \E r : Settle(c, r)

LEMMA RejectedGoes ==
    ASSUME NEW c, NEW answer, Rejected(c, answer)
    PROVE  Goes(c)
BY DEF Rejected, Goes, Follows

LEMMA EntryGoesOn == ASSUME NEW c PROVE Entry(c) \notin {"done", "download"}
BY DEF Entry

LEMMA ResolvedGoes ==
    ASSUME NEW c, NEW listed, Resolved(c, listed), at[c] = "walk", Handler(c).flow \in Walking
    PROVE  Goes(c)
<1>1. \A id, stage : Found(c, id, stage) => Continue(c, stage)
  BY DEF Found
<1>2. CASE Handler(c).flow = "listFolders"
  BY <1>2 DEF Resolved, Goes, Follows
<1>3. CASE Handler(c).flow \in {"createFolder", "createRule"}
  <2>1. Settle(c, "refusal") \/ Continue(c, "post") \/ Continue(c, "walk")
    BY <1>1, <1>3 DEF Resolved
  <2> QED
    BY <2>1 DEF Goes, Follows
<1>4. CASE Handler(c).flow \in {"renameFolder", "deleteFolder", "moveEmails", "list"}
  <2>1. \/ Settle(c, "error") \/ Settle(c, "preview")
        \/ Continue(c, CASE Handler(c).flow = "moveEmails" -> "reach"
                          [] Handler(c).flow = "list" -> "page" [] OTHER -> "post")
    BY <1>1, <1>4 DEF Resolved
  <2> QED
    BY <2>1 DEF Goes, Follows
<1> QED
  BY <1>2, <1>3, <1>4 DEF Walking

LEMMA ItemGoes ==
    ASSUME NEW c, ItemStep(c)
    PROVE  Goes(c) /\ at[c] \notin Ended \cup {"new"} /\ scene' = scene
<1>1. CASE TurnDown(c) \/ NoToken(c)
  BY <1>1 DEF TurnDown, NoToken, Goes, Follows, Ended
<1>2. CASE ItemLook(c)
  <2>1. \/ \E answer : Rejected(c, answer)
        \/ \E r : Settle(c, r)
        \/ Continue(c, "act")
    BY <1>2 DEF ItemLook
  <2> QED
    BY <1>2, <2>1, RejectedGoes DEF ItemLook, Goes, Follows, Ended
<1>3. CASE ItemAct(c)
  <2>1. (\E answer : Rejected(c, answer)) \/ (\E r : Settle(c, r))
    BY <1>3 DEF ItemAct
  <2> QED
    BY <1>3, <2>1, RejectedGoes DEF ItemAct, Goes, Follows, Ended
<1> QED
  BY <1>1, <1>2, <1>3 DEF ItemStep

LEMMA FolderGoes ==
    ASSUME AccessInv, NEW c \in Calls, FolderStep(c)
    PROVE  Goes(c) /\ at[c] \notin Ended \cup {"new"} /\ scene' = scene
<1>1. CASE Authenticated(c)
  BY <1>1, EntryGoesOn DEF Authenticated, Goes, Follows, Ended
<1>2. ASSUME NEW p, ListChildren(c, p)
      PROVE  Goes(c) /\ at[c] \notin Ended \cup {"new"} /\ scene' = scene
  <2>1. at[c] = "walk" /\ scene' = scene
    BY <1>2 DEF ListChildren
  <2>2. Handler(c).flow \in Walking
    BY <2>1, InCallFacts DEF PlacedAt
  <2>3. \/ \E listed : Resolved(c, listed)
        \/ \E r : Settle(c, r)
        \/ Continue(c, "walk") \/ Continue(c, "stuck")
    BY <1>2 DEF ListChildren
  <2>4. Goes(c)
    BY <2>1, <2>2, <2>3, ResolvedGoes DEF Goes, Follows
  <2> QED
    BY <2>1, <2>4 DEF Ended
<1>3. CASE PostFolder(c) \/ PostRule(c) \/ Reorder(c)
  <2>1. at[c] = "post" /\ scene' = scene
    BY <1>3 DEF PostFolder, PostRule, Reorder
  <2>2. (\E answer : Rejected(c, answer)) \/ (\E r : Settle(c, r))
    BY <1>3 DEF PostFolder, PostRule, Reorder
  <2> QED
    BY <2>1, <2>2, RejectedGoes DEF Goes, Follows, Ended
<1>4. CASE Reach(c)
  <2>1. at[c] = "reach" /\ scene' = scene
    BY <1>4 DEF Reach
  <2>2. Continue(c, "move") \/ (\E answer : Rejected(c, answer))
    BY <1>4 DEF Reach
  <2> QED
    BY <2>1, <2>2, RejectedGoes DEF Goes, Follows, Ended
<1>5. CASE MoveNext(c)
  <2>1. at[c] = "move" /\ scene' = scene
    BY <1>5 DEF MoveNext
  <2>2. Continue(c, "move") \/ Continue(c, "stuck") \/ (\E r : Settle(c, r))
    BY <1>5 DEF MoveNext
  <2> QED
    BY <2>1, <2>2 DEF Goes, Follows, Ended
<1>6. CASE ListRules(c)
  <2>1. at[c] = "rules" /\ scene' = scene
    BY <1>6 DEF ListRules
  <2>2. Handler(c).flow \in {"listRules", "createRule", "reorderRule"}
    BY <2>1, InCallFacts DEF PlacedAt
  <2>3. (\E r : Settle(c, r)) \/ (\E s \in {"stuck", "post", "walk"} : Continue(c, s))
    BY <1>6, <2>2 DEF ListRules
  <2> QED
    BY <2>1, <2>3 DEF Goes, Follows, Ended
<1> QED
  BY <1>1, <1>2, <1>3, <1>4, <1>5, <1>6 DEF FolderStep

LEMMA MailGoes ==
    ASSUME NEW c, MailStep(c)
    PROVE  Goes(c) /\ at[c] \notin Ended \cup {"new"} /\ scene' = scene
<1>1. at[c] \in {"page", "metadata", "download"} /\ scene' = scene
  BY DEF MailStep, FetchPage, ReadMetadata, DownloadAttachment
<1>2. \/ \E answer : Rejected(c, answer)
      \/ \E r : Settle(c, r)
      \/ Continue(c, "page")
      \/ at[c] = "metadata" /\ Continue(c, "download")
  BY DEF MailStep, FetchPage, ReadMetadata, DownloadAttachment
<1> QED
  BY <1>1, <1>2, RejectedGoes DEF Goes, Follows, Ended

LEMMA UploadGoes ==
    ASSUME AccessInv, NEW c \in Calls, CreateSession(c) \/ UploadChunk(c)
    PROVE  Goes(c) /\ at[c] \notin Ended \cup {"new"} /\ scene' = scene
<1>1. CASE CreateSession(c)
  <2>1. Continue(c, "chunk") \/ (\E answer : Rejected(c, answer))
    BY <1>1 DEF CreateSession
  <2> QED
    BY <1>1, <2>1, RejectedGoes DEF CreateSession, Goes, Follows, Ended
<1>2. CASE UploadChunk(c)
  <2>1. at[c] = "chunk" /\ scene' = scene
    BY <1>2 DEF UploadChunk
  <2>2. \A found \in BOOLEAN : Replies(found) \subseteq Answers
    BY <2>1, InCallFacts, AnswersKnown
  <2>3. PICK answer \in Answers :
          CASE NeverSettles(answer) -> Continue(c, "stuck") /\ UNCHANGED offset
            [] OTHER ->
                 \/ /\ answer \in {"refused", "unauthorized", "lost"}
                    /\ Settle(c, "error")
                    /\ UNCHANGED offset
                 \/ /\ answer \in {"ok", "bare", "garbled", "lost"}
                    /\ offset' = [offset EXCEPT ![c] = chunkEnd(offset[c], fileSize(c))]
                    /\ IF ~(chunkEnd(offset[c], fileSize(c)) = fileSize(c)) THEN Continue(c, "chunk")
                       ELSE Settle(c, IF answer = "ok" THEN "ok" ELSE "error")
    BY <1>2, <2>2, Zenon DEF UploadChunk
  <2>4. Continue(c, "stuck") \/ Continue(c, "chunk") \/ (\E r : Settle(c, r))
    BY <2>3 DEF Answers, NeverSettles
  <2> QED
    BY <2>1, <2>4 DEF Goes, Follows, Ended
<1> QED
  BY <1>1, <1>2

LEMMA CallGoes ==
    ASSUME AccessInv, NEW c \in Calls, CallStep(c)
    PROVE  Goes(c) /\ at[c] \notin Ended \cup {"new"} /\ scene' = scene
BY ItemGoes, FolderGoes, MailGoes, UploadGoes DEF CallStep

-----------------------------------------------------------------------------
\* One event for every answer

\* Where the event of a call may be.
Logged(c, i)    == i \in DOMAIN appended /\ appended[i].call = c
Queued(c, s, i) == s \in Servers /\ i \in DOMAIN queue[s] /\ queue[s][i].call = c
Lost(c, e)      == e \in missed /\ e.call = c

Nowhere(c) ==
    /\ \A i : ~Logged(c, i)
    /\ \A s, i : ~Queued(c, s, i)
    /\ \A e : ~Lost(c, e)

\* The event is at one place, and says whether the report is an error.
Somewhere(c) ==
    \/ \E i : Logged(c, i)
    \/ \E s, i : Queued(c, s, i)
    \/ \E e : Lost(c, e)

OncePlaced(c) ==
    /\ \A i, j : Logged(c, i) /\ Logged(c, j) => i = j
    /\ \A s, t, i, j : Queued(c, s, i) /\ Queued(c, t, j) => s = t /\ i = j
    /\ \A e, f : Lost(c, e) /\ Lost(c, f) => e = f
    /\ \A i, s, j : ~(Logged(c, i) /\ Queued(c, s, j))
    /\ \A i, e : ~(Logged(c, i) /\ Lost(c, e))
    /\ \A e, s, j : ~(Lost(c, e) /\ Queued(c, s, j))

TellsOf(c, r) ==
    /\ \A i : Logged(c, i) => appended[i].ok = (r # "error")
    /\ \A s, i : Queued(c, s, i) => queue[s][i].ok = (r # "error")
    /\ \A e : Lost(c, e) => e.ok = (r # "error")

Answered(c) == at[c] = "done" /\ Audited(Level(c))

\* The event of an answered call is somewhere, once, and tells of the answer.
Recorded(c) ==
    IF Answered(c) THEN Somewhere(c) /\ OncePlaced(c) /\ TellsOf(c, report[c]) ELSE Nowhere(c)

LogTypes ==
    /\ \E S : queue \in [Servers -> Seq(S)] /\ appended \in Seq(S)
    /\ report = [c \in Calls |-> report[c]]

EventInv ==
    /\ LogTypes
    /\ \A c \in Calls : Recorded(c)

LEMMA InitEvents == Init => EventInv
<1> SUFFICES ASSUME Init PROVE EventInv
  OBVIOUS
<1>1. /\ at = [c \in Calls |-> "new"] /\ report = [c \in Calls |-> "none"]
      /\ queue = [s \in Servers |-> <<>>] /\ appended = <<>> /\ missed = {}
  BY DEF Init, LogInit
<1>2. LogTypes
  <2>1. queue \in [Servers -> Seq({})] /\ appended \in Seq({})
    BY <1>1
  <2> QED
    BY <1>1, <2>1 DEF LogTypes
<1>3. ASSUME NEW c \in Calls PROVE ~Answered(c) /\ Nowhere(c)
  BY <1>1 DEF Answered, Nowhere, Logged, Queued, Lost
<1> QED
  BY <1>2, <1>3 DEF EventInv, Recorded

\* Nothing about the event of a call changes.
LEMMA SameEvents ==
    ASSUME EventInv, UNCHANGED <<scene, at, report, audit, queue, appended, missed>>
    PROVE  EventInv'
BY DEF EventInv, Recorded, LogTypes, Answered, Somewhere, OncePlaced, TellsOf, Nowhere, Logged, Queued, Lost,
       Audited, Level, Host, asked

LEMMA SameAnswer ==
    ASSUME NEW c, scene' = scene, audit' = audit, at'[c] = at[c]
    PROVE  Answered(c)' <=> Answered(c)
BY DEF Answered, Audited, Level, Host, asked

\* A step that leaves the log alone.
LEMMA ContinueEvents ==
    ASSUME AccessInv, EventInv, NEW c \in Calls, NEW s, s # "done", Continue(c, s),
           scene' = scene, at[c] # "done"
    PROVE  EventInv'
<1>1. /\ at' = [at EXCEPT ![c] = s] /\ report' = report
      /\ UNCHANGED logVars
  BY DEF Continue, Step
<1>2. UNCHANGED <<audit, queue, appended, missed>>
  BY <1>1 DEF logVars
<1>3. ASSUME NEW d \in Calls PROVE Answered(d)' <=> Answered(d)
  <2>1. CASE d = c
    BY <1>1, <2>1 DEF Answered, AccessInv
  <2>2. CASE d # c
    BY <1>1, <1>2, <2>2, SameAnswer DEF AccessInv
  <2> QED
    BY <2>1, <2>2
<1>4. LogTypes'
  BY <1>1, <1>2 DEF EventInv, LogTypes
<1>5. ASSUME NEW d \in Calls
      PROVE  Recorded(d)'
  BY <1>1, <1>2, <1>3 DEF EventInv, Recorded, Somewhere, OncePlaced, TellsOf, Nowhere, Logged, Queued, Lost
<1> QED
  BY <1>4, <1>5 DEF EventInv

\* The answer: an audited call gets its event, at the end of its server's queue.
LEMMA SettleEvents ==
    ASSUME AccessInv, EventInv, NEW c \in Calls, NEW r, Settle(c, r),
           scene' = scene, at[c] \notin {"new", "done"}
    PROVE  EventInv'
<1> DEFINE event == [call |-> c, ok |-> r # "error"]
           h == Host(c)
<1>1. /\ at' = [at EXCEPT ![c] = "done"] /\ report' = [report EXCEPT ![c] = r]
      /\ UNCHANGED <<audit, appended, missed>>
      /\ IF Audited(Level(c)) THEN queue' = [queue EXCEPT ![h] = Append(@, event)] ELSE queue' = queue
  BY DEF Settle, Step, Enqueue
<1>2. h \in Servers
  BY InCallFacts, ScenesAssumption DEF Host, asked
<1>3. PICK S : queue \in [Servers -> Seq(S)] /\ appended \in Seq(S)
  BY DEF EventInv, LogTypes
<1>4. LogTypes'
  <2>1. queue' \in [Servers -> Seq(S \cup {event})] /\ appended' \in Seq(S \cup {event})
    <3>1. Seq(S) \subseteq Seq(S \cup {event}) /\ event \in S \cup {event}
      OBVIOUS
    <3>2. \A q \in Seq(S) : Append(q, event) \in Seq(S \cup {event})
      BY <3>1, AppendProperties
    <3>3. \A t \in Servers : queue[t] \in Seq(S \cup {event})
      BY <1>3, <3>1
    <3> HIDE DEF event, h
    <3>4. queue' = queue \/ queue' = [queue EXCEPT ![h] = Append(queue[h], event)]
      BY <1>1
    <3>5. Append(queue[h], event) \in Seq(S \cup {event})
      BY <1>2, <1>3, <3>2
    <3> QED
      BY <1>1, <1>2, <1>3, <3>1, <3>3, <3>4, <3>5
  <2>2. report' = [d \in Calls |-> report'[d]]
    BY <1>1 DEF EventInv, LogTypes
  <2> QED
    BY <2>1, <2>2 DEF LogTypes
<1>5. at'[c] = "done" /\ report'[c] = r
  BY <1>1 DEF AccessInv, EventInv, LogTypes
<1>6. ASSUME NEW d \in Calls, d # c
      PROVE  /\ Answered(d)' <=> Answered(d)
             /\ report'[d] = report[d]
  <2>1. at'[d] = at[d] /\ report'[d] = report[d]
    BY <1>1, <1>6 DEF AccessInv, EventInv, LogTypes
  <2> QED
    BY <1>1, <2>1, SameAnswer
<1>7. Answered(c)' <=> Audited(Level(c))
  BY <1>1, <1>5 DEF Answered, Audited, Level, Host, asked
<1>8. Nowhere(c)
  BY DEF EventInv, Recorded, Answered
<1>9. CASE ~Audited(Level(c))
  <2>1. UNCHANGED <<appended, queue, missed>>
    BY <1>1, <1>9
  <2>2. ASSUME NEW d \in Calls
        PROVE  Recorded(d)'
    <3>1. CASE d = c
      BY <1>7, <1>8, <1>9, <2>1, <3>1 DEF Recorded, Nowhere, Logged, Queued, Lost
    <3>2. CASE d # c
      BY <1>6, <2>1, <3>2 DEF EventInv, Recorded, Somewhere, OncePlaced, TellsOf, Nowhere, Logged, Queued, Lost
    <3> QED
      BY <3>1, <3>2
  <2> QED
    BY <1>4, <2>2 DEF EventInv
<1>10. CASE Audited(Level(c))
  <2>1. queue' = [queue EXCEPT ![h] = Append(queue[h], event)]
    BY <1>1, <1>10
  <2> DEFINE last == Len(queue[h]) + 1
  <2>2. /\ last \in Nat \ {0} /\ DOMAIN queue[h] = 1 .. last - 1
        /\ DOMAIN queue'[h] = 1 .. last
        /\ queue'[h][last] = event
        /\ \A i \in 1 .. last - 1 : queue'[h][i] = queue[h][i]
    BY <1>2, <1>3, <2>1
  <2>3. \A t \in Servers : t # h => queue'[t] = queue[t]
    BY <1>3, <2>1
  <2>4. event.call = c /\ event.ok = (r # "error")
    OBVIOUS
  <2> HIDE DEF event, h, last
  <2>5. ASSUME NEW d, NEW s, NEW i
        PROVE  Queued(d, s, i)' <=> Queued(d, s, i) \/ (d = c /\ s = h /\ i = last)
    <3>1. \A j : j \in DOMAIN queue'[h] <=> j \in DOMAIN queue[h] \/ j = last
      BY <2>2
    <3>2. last \notin DOMAIN queue[h]
      BY <2>2
    <3>3. CASE s = h
      BY <1>2, <2>2, <2>4, <3>1, <3>2, <3>3 DEF Queued
    <3>4. CASE s # h
      BY <2>3, <3>4 DEF Queued
    <3> QED
      BY <3>3, <3>4
  <2>6. ASSUME NEW d, NEW s, NEW i, Queued(d, s, i)
        PROVE  queue'[s][i] = queue[s][i]
    BY <1>2, <2>2, <2>3, <2>6 DEF Queued
  <2>7. \A d, i : Logged(d, i)' <=> Logged(d, i)
    BY <1>1 DEF Logged
  <2>8. \A d, e : Lost(d, e)' <=> Lost(d, e)
    BY <1>1 DEF Lost
  <2>9. ASSUME NEW d \in Calls
        PROVE  Recorded(d)'
    <3>1. CASE d = c
      <4>1. (Somewhere(d) /\ OncePlaced(d) /\ TellsOf(d, report[d]))'
        BY <1>5, <1>8, <2>2, <2>4, <2>5, <2>7, <2>8, <3>1
        DEF Somewhere, OncePlaced, TellsOf, Nowhere
      <4> QED
        BY <1>7, <1>10, <3>1, <4>1 DEF Recorded
    <3>2. CASE d # c
      <4>1. Somewhere(d) => Somewhere(d)'
        BY <2>5, <2>7, <2>8 DEF Somewhere
      <4>2. OncePlaced(d) => OncePlaced(d)'
        BY <2>5, <2>7, <2>8, <3>2 DEF OncePlaced
      <4>3. TellsOf(d, report[d]) => TellsOf(d, report[d])'
        BY <1>1, <1>6, <2>5, <2>6, <2>7, <2>8, <3>2 DEF TellsOf
      <4>4. Nowhere(d) => Nowhere(d)'
        BY <2>5, <2>7, <2>8, <3>2 DEF Nowhere
      <4> QED
        BY <1>6, <3>2, <4>1, <4>2, <4>3, <4>4 DEF EventInv, Recorded
    <3> QED
      BY <3>1, <3>2
  <2> QED
    BY <1>4, <2>9 DEF EventInv
<1> QED
  BY <1>9, <1>10

\* The head of a queue, and where the others go.
LEMMA Dequeued ==
    ASSUME EventInv, NEW s \in Servers, queue[s] # <<>>,
           queue' = [queue EXCEPT ![s] = Tail(@)]
    PROVE  /\ \E S : queue' \in [Servers -> Seq(S)] /\ appended \in Seq(S) /\ Head(queue[s]) \in S
           /\ 1 \in DOMAIN queue[s] /\ queue[s][1] = Head(queue[s])
           /\ \A c, t, i : Queued(c, t, i)' <=>
                 IF t = s THEN i \in Nat \ {0} /\ Queued(c, s, i + 1) ELSE Queued(c, t, i)
           /\ \A c, i : Queued(c, s, i) => i \in Nat \ {0}
           /\ \A c, t, i : Queued(c, t, i)' =>
                 queue'[t][i] = IF t = s THEN queue[s][i + 1] ELSE queue[t][i]
<1>1. PICK S : queue \in [Servers -> Seq(S)] /\ appended \in Seq(S)
  BY DEF EventInv, LogTypes
<1>2. /\ Tail(queue[s]) \in Seq(S) /\ Head(queue[s]) \in S
      /\ 1 \in DOMAIN queue[s] /\ queue[s][1] = Head(queue[s])
      /\ Len(queue[s]) \in Nat \ {0}
      /\ DOMAIN queue[s] = 1 .. Len(queue[s])
      /\ DOMAIN Tail(queue[s]) = 1 .. Len(queue[s]) - 1
      /\ \A i \in 1 .. Len(queue[s]) - 1 : Tail(queue[s])[i] = queue[s][i + 1]
  <2>1. queue[s] \in Seq(S)
    BY <1>1
  <2>2. Len(queue[s]) \in Nat \ {0}
    BY <2>1, EmptySeq
  <2> QED
    BY <2>1, <2>2, HeadTailProperties
<1>3. queue'[s] = Tail(queue[s]) /\ \A t \in Servers : t # s => queue'[t] = queue[t]
  BY <1>1
<1>4. queue' \in [Servers -> Seq(S)]
  BY <1>1, <1>2
<1>5. ASSUME NEW i
      PROVE  i \in DOMAIN queue'[s] <=> i \in Nat \ {0} /\ i + 1 \in DOMAIN queue[s]
  <2>1. i \in 1 .. Len(queue[s]) - 1 <=> i \in Nat \ {0} /\ i + 1 \in 1 .. Len(queue[s])
    BY <1>2
  <2> QED
    BY <1>2, <1>3, <2>1
<1>6. ASSUME NEW i, i \in DOMAIN queue'[s] PROVE queue'[s][i] = queue[s][i + 1]
  BY <1>2, <1>3, <1>6
<1>7. ASSUME NEW c, NEW t, NEW i
      PROVE  Queued(c, t, i)' <=>
               IF t = s THEN i \in Nat \ {0} /\ Queued(c, s, i + 1) ELSE Queued(c, t, i)
  <2>1. CASE t = s
    BY <1>5, <1>6, <2>1 DEF Queued
  <2>2. CASE t # s
    BY <1>3, <2>2 DEF Queued
  <2> QED
    BY <2>1, <2>2
<1>8. ASSUME NEW c, NEW t, NEW i, Queued(c, t, i)'
      PROVE  queue'[t][i] = IF t = s THEN queue[s][i + 1] ELSE queue[t][i]
  BY <1>3, <1>6, <1>8 DEF Queued
<1>9. \A c, i : Queued(c, s, i) => i \in Nat \ {0}
  BY <1>2 DEF Queued
<1> QED
  BY <1>1, <1>2, <1>4, <1>7, <1>8, <1>9

LEMMA AppendLineEvents ==
    ASSUME EventInv, NEW s \in Servers, AppendLine(s), UNCHANGED <<scene, at, report>>
    PROVE  EventInv'
<1> DEFINE head == Head(queue[s])
           n == Len(appended) + 1
<1>1. /\ queue[s] # <<>> /\ queue' = [queue EXCEPT ![s] = Tail(@)]
      /\ appended' = Append(appended, head) /\ missed' = missed /\ audit' = audit
  BY DEF AppendLine
<1>2. PICK S : queue' \in [Servers -> Seq(S)] /\ appended \in Seq(S) /\ head \in S
  BY <1>1, Dequeued
<1>3. /\ n \in Nat \ {0} /\ DOMAIN appended = 1 .. n - 1
      /\ appended' \in Seq(S) /\ DOMAIN appended' = 1 .. n
      /\ appended'[n] = head /\ \A i \in 1 .. n - 1 : appended'[i] = appended[i]
  BY <1>1, <1>2, AppendProperties
<1>4. 1 \in DOMAIN queue[s] /\ queue[s][1] = head
  BY <1>1, Dequeued
<1> HIDE DEF head, n
<1>5. LogTypes'
  BY <1>2, <1>3 DEF EventInv, LogTypes
<1>6. ASSUME NEW d, NEW i
      PROVE  Logged(d, i)' <=> Logged(d, i) \/ (i = n /\ Queued(d, s, 1))
  <2>1. i \in DOMAIN appended' <=> i \in DOMAIN appended \/ i = n
    BY <1>3
  <2>2. n \notin DOMAIN appended
    BY <1>3
  <2> QED
    <3>1. CASE i = n
      BY <1>3, <1>4, <2>1, <2>2, <3>1 DEF Logged, Queued
    <3>2. CASE i # n
      BY <1>3, <2>1, <3>2 DEF Logged
    <3> QED
      BY <3>1, <3>2
<1>7. \A d, e : Lost(d, e)' <=> Lost(d, e)
  BY <1>1 DEF Lost
<1>8. \A d, t, i : Queued(d, t, i)' <=>
         IF t = s THEN i \in Nat \ {0} /\ Queued(d, s, i + 1) ELSE Queued(d, t, i)
  BY <1>1, Dequeued
<1>9. \A d, i : Queued(d, s, i) => i \in Nat \ {0}
  BY <1>1, Dequeued
<1>10. \A d, t, i : Queued(d, t, i)' => queue'[t][i] = IF t = s THEN queue[s][i + 1] ELSE queue[t][i]
  BY <1>1, Dequeued
<1>11. \A d, i : Logged(d, i) => appended'[i] = appended[i]
  BY <1>3 DEF Logged
<1>12. \A i \in Nat \ {0} : i = 1 \/ (i - 1 \in Nat \ {0} /\ (i - 1) + 1 = i)
  OBVIOUS
<1>13. \A i, j \in Nat \ {0} : i + 1 # 1 /\ (i + 1 = j + 1 => i = j)
  OBVIOUS
<1>14. ASSUME NEW d \in Calls PROVE Recorded(d)'
  <2>1. Answered(d)' <=> Answered(d)
    BY <1>1, SameAnswer
  <2>2. ASSUME Nowhere(d) PROVE Nowhere(d)'
    BY <1>6, <1>7, <1>8, <2>2 DEF Nowhere
  <2>3. ASSUME Somewhere(d), OncePlaced(d), TellsOf(d, report[d])
        PROVE  (Somewhere(d) /\ OncePlaced(d) /\ TellsOf(d, report[d]))'
    <3>1. CASE Queued(d, s, 1)
      <4>1. /\ \A i : Logged(d, i)' <=> i = n
            /\ \A t, i : ~Queued(d, t, i)'
            /\ \A e : ~Lost(d, e)'
        BY <1>6, <1>7, <1>8, <1>13, <2>3, <3>1 DEF OncePlaced
      <4>2. appended'[n].ok = (report[d] # "error")
        BY <1>3, <1>4, <2>3, <3>1 DEF TellsOf
      <4> QED
        BY <4>1, <4>2 DEF Somewhere, OncePlaced, TellsOf
    <3>2. CASE ~Queued(d, s, 1)
      <4>1. \A i : Logged(d, i)' <=> Logged(d, i)
        BY <1>6, <3>2
      <4>2. Somewhere(d)'
        <5>1. ASSUME NEW i, Queued(d, s, i) PROVE Queued(d, s, i - 1)'
          BY <1>8, <1>9, <1>12, <3>2, <5>1
        <5> QED
          BY <1>7, <1>8, <2>3, <4>1, <5>1 DEF Somewhere
      <4>3. OncePlaced(d)'
        <5>1. ASSUME NEW t, NEW u, NEW i, NEW j, Queued(d, t, i)', Queued(d, u, j)'
              PROVE  t = u /\ i = j
          BY <1>8, <1>13, <2>3, <5>1 DEF OncePlaced
        <5>2. ASSUME NEW t, NEW j, Queued(d, t, j)'
              PROVE  \E k : Queued(d, t, k)
          BY <1>8, <5>2
        <5> QED
          BY <1>7, <2>3, <4>1, <5>1, <5>2 DEF OncePlaced
      <4>4. TellsOf(d, report[d])'
        <5>1. ASSUME NEW t, NEW i, Queued(d, t, i)'
              PROVE  queue'[t][i].ok = (report[d] # "error")
          BY <1>8, <1>10, <2>3, <5>1 DEF TellsOf
        <5> QED
          BY <1>7, <1>11, <2>3, <4>1, <5>1 DEF TellsOf
      <4> QED
        BY <4>2, <4>3, <4>4
    <3> QED
      BY <3>1, <3>2
  <2> QED
    BY <2>1, <2>2, <2>3 DEF EventInv, Recorded
<1> QED
  BY <1>5, <1>14 DEF EventInv

LEMMA AppendFailsEvents ==
    ASSUME EventInv, NEW s \in Servers, AppendFails(s), UNCHANGED <<scene, at, report>>
    PROVE  EventInv'
<1> DEFINE head == Head(queue[s])
<1>1. /\ queue[s] # <<>> /\ queue' = [queue EXCEPT ![s] = Tail(@)]
      /\ missed' = missed \cup {head} /\ appended' = appended /\ audit' = audit
  BY DEF AppendFails
<1>2. 1 \in DOMAIN queue[s] /\ queue[s][1] = head
  BY <1>1, Dequeued
<1>3. LogTypes'
  <2>1. PICK S : queue' \in [Servers -> Seq(S)] /\ appended \in Seq(S)
    BY <1>1, Dequeued
  <2> QED
    BY <1>1, <2>1 DEF EventInv, LogTypes
<1> HIDE DEF head
<1>4. \A d, i : Logged(d, i)' <=> Logged(d, i)
  BY <1>1 DEF Logged
<1>5. \A d, e : Lost(d, e)' <=> Lost(d, e) \/ (e = head /\ Queued(d, s, 1))
  BY <1>1, <1>2 DEF Lost, Queued
<1>6. \A d, t, i : Queued(d, t, i)' <=>
         IF t = s THEN i \in Nat \ {0} /\ Queued(d, s, i + 1) ELSE Queued(d, t, i)
  BY <1>1, Dequeued
<1>7. \A d, i : Queued(d, s, i) => i \in Nat \ {0}
  BY <1>1, Dequeued
<1>8. \A d, t, i : Queued(d, t, i)' => queue'[t][i] = IF t = s THEN queue[s][i + 1] ELSE queue[t][i]
  BY <1>1, Dequeued
<1>9. \A i \in Nat \ {0} : i = 1 \/ (i - 1 \in Nat \ {0} /\ (i - 1) + 1 = i)
  OBVIOUS
<1>10. \A i, j \in Nat \ {0} : i + 1 # 1 /\ (i + 1 = j + 1 => i = j)
  OBVIOUS
<1>11. ASSUME NEW d \in Calls PROVE Recorded(d)'
  <2>1. Answered(d)' <=> Answered(d)
    BY <1>1, SameAnswer
  <2>2. ASSUME Nowhere(d) PROVE Nowhere(d)'
    BY <1>4, <1>5, <1>6, <2>2 DEF Nowhere
  <2>3. ASSUME Somewhere(d), OncePlaced(d), TellsOf(d, report[d])
        PROVE  (Somewhere(d) /\ OncePlaced(d) /\ TellsOf(d, report[d]))'
    <3>1. CASE Queued(d, s, 1)
      <4>1. /\ \A i : ~Logged(d, i)'
            /\ \A t, i : ~Queued(d, t, i)'
            /\ \A e : Lost(d, e)' <=> e = head
        BY <1>4, <1>5, <1>6, <1>10, <2>3, <3>1 DEF OncePlaced
      <4>2. head.ok = (report[d] # "error")
        BY <1>2, <2>3, <3>1 DEF TellsOf
      <4> QED
        BY <4>1, <4>2 DEF Somewhere, OncePlaced, TellsOf
    <3>2. CASE ~Queued(d, s, 1)
      <4>1. \A e : Lost(d, e)' <=> Lost(d, e)
        BY <1>5, <3>2
      <4>2. Somewhere(d)'
        <5>1. ASSUME NEW i, Queued(d, s, i) PROVE Queued(d, s, i - 1)'
          BY <1>6, <1>7, <1>9, <3>2, <5>1
        <5> QED
          BY <1>4, <1>6, <2>3, <4>1, <5>1 DEF Somewhere
      <4>3. OncePlaced(d)'
        <5>1. ASSUME NEW t, NEW u, NEW i, NEW j, Queued(d, t, i)', Queued(d, u, j)'
              PROVE  t = u /\ i = j
          BY <1>6, <1>10, <2>3, <5>1 DEF OncePlaced
        <5>2. ASSUME NEW t, NEW j, Queued(d, t, j)'
              PROVE  \E k : Queued(d, t, k)
          BY <1>6, <5>2
        <5> QED
          BY <1>4, <2>3, <4>1, <5>1, <5>2 DEF OncePlaced
      <4>4. TellsOf(d, report[d])'
        <5>1. ASSUME NEW t, NEW i, Queued(d, t, i)'
              PROVE  queue'[t][i].ok = (report[d] # "error")
          BY <1>6, <1>8, <2>3, <5>1 DEF TellsOf
        <5>2. \A i : Logged(d, i)' => appended'[i].ok = (report[d] # "error")
          BY <1>1, <1>4, <2>3 DEF TellsOf
        <5> QED
          BY <2>3, <4>1, <5>1, <5>2 DEF TellsOf
      <4> QED
        BY <4>2, <4>3, <4>4
    <3> QED
      BY <3>1, <3>2
  <2> QED
    BY <2>1, <2>2, <2>3 DEF EventInv, Recorded
<1> QED
  BY <1>3, <1>11 DEF EventInv

\* What the server that ends had queued is lost; its calls are not answered.
LEMMA DiesEvents ==
    ASSUME AccessInv, EventInv, NEW s \in Servers, Dies(s)
    PROVE  EventInv'
<1>1. /\ scene' = scene /\ report' = report
      /\ at' = [c \in Calls |-> IF InCall(c) /\ Host(c) = s THEN "gone" ELSE at[c]]
      /\ queue' = [queue EXCEPT ![s] = <<>>]
      /\ missed' = missed \cup ToSet(queue[s]) /\ appended' = appended /\ audit' = audit
  BY DEF Dies, LogDies
<1>2. LogTypes'
  <2>1. PICK S : queue \in [Servers -> Seq(S)] /\ appended \in Seq(S)
    BY DEF EventInv, LogTypes
  <2>2. queue' \in [Servers -> Seq(S)]
    BY <1>1, <2>1, EmptySeq
  <2> QED
    BY <1>1, <2>1, <2>2 DEF EventInv, LogTypes
<1>3. \A d, i : Logged(d, i)' <=> Logged(d, i)
  BY <1>1 DEF Logged
<1>4. \A d, t, i : Queued(d, t, i)' <=> Queued(d, t, i) /\ t # s
  <2>1. queue'[s] = <<>> /\ \A t \in Servers : t # s => queue'[t] = queue[t]
    BY <1>1 DEF EventInv, LogTypes
  <2>2. DOMAIN queue'[s] = {}
    BY <2>1
  <2> QED
    BY <2>1, <2>2 DEF Queued
<1>5. \A d, e : Lost(d, e)' <=> Lost(d, e) \/ \E i : Queued(d, s, i) /\ e = queue[s][i]
  BY <1>1 DEF Lost, Queued, ToSet
<1>6. \A d, t, i : Queued(d, t, i)' => queue'[t][i] = queue[t][i]
  BY <1>1 DEF Queued, EventInv, LogTypes
<1>7. ASSUME NEW d \in Calls PROVE Recorded(d)'
  <2>1. Answered(d)' <=> Answered(d)
    BY <1>1 DEF Answered, InCall, Audited, Level, Host, asked
  <2>2. ASSUME Nowhere(d) PROVE Nowhere(d)'
    BY <1>3, <1>4, <1>5, <2>2 DEF Nowhere
  <2>3. ASSUME Somewhere(d), OncePlaced(d), TellsOf(d, report[d])
        PROVE  (Somewhere(d) /\ OncePlaced(d) /\ TellsOf(d, report[d]))'
    <3>1. CASE \E i : Queued(d, s, i)
      <4>1. PICK i : Queued(d, s, i)
        BY <3>1
      <4>2. /\ \A j : ~Logged(d, j)'
            /\ \A t, j : ~Queued(d, t, j)'
            /\ \A e : Lost(d, e)' <=> e = queue[s][i]
        BY <1>3, <1>4, <1>5, <2>3, <4>1 DEF OncePlaced
      <4>3. queue[s][i].ok = (report[d] # "error")
        BY <2>3, <4>1 DEF TellsOf
      <4> QED
        BY <1>1, <4>2, <4>3 DEF Somewhere, OncePlaced, TellsOf
    <3>2. CASE \A i : ~Queued(d, s, i)
      <4>1. /\ \A e : Lost(d, e)' <=> Lost(d, e)
            /\ \A t, i : Queued(d, t, i)' <=> Queued(d, t, i)
        BY <1>4, <1>5, <3>2
      <4> QED
        BY <1>1, <1>3, <1>6, <2>3, <4>1 DEF Somewhere, OncePlaced, TellsOf
    <3> QED
      BY <3>1, <3>2
  <2> QED
    BY <2>1, <2>2, <2>3 DEF EventInv, Recorded
<1> QED
  BY <1>2, <1>7 DEF EventInv

LEMMA NextEvents ==
    ASSUME AccessInv, EventInv, [Next]_vars
    PROVE  EventInv'
<1>1. CASE UNCHANGED vars
  BY <1>1, SameEvents DEF vars, callVars, logVars
<1>2. ASSUME NEW c \in Calls, Goes(c), scene' = scene, at[c] \notin {"new", "done"}
      PROVE  EventInv'
  BY <1>2, ContinueEvents, SettleEvents DEF Goes, Follows
<1>3. ASSUME NEW c \in Calls, NewCall(c) PROVE EventInv'
  <2>1. Continue(c, "auth") /\ scene' = scene /\ at[c] = "new"
    BY <1>3 DEF NewCall, Call
  <2> QED
    BY <2>1, ContinueEvents
<1>4. ASSUME NEW c \in Calls, CallStep(c) PROVE EventInv'
  BY <1>2, <1>4, CallGoes DEF Ended
<1>5. ASSUME NEW s \in Servers, LogStep(s) \/ LogFault(s) PROVE EventInv'
  <2>1. UNCHANGED <<scene, at, report>>
    BY <1>5 DEF LogStep, LogFault, callVars
  <2>2. CASE AppendLine(s) \/ AppendFails(s)
    BY <2>1, <2>2, AppendLineEvents, AppendFailsEvents
  <2>3. CASE \/ Stat(s) \/ DropOldest(s) \/ ShiftSlot(s) \/ RenameLive(s) \/ RemoveLive(s)
             \/ RotationFails(s) \/ ShiftFails(s)
    <3>1. UNCHANGED <<audit, queue, appended, missed>>
      BY <2>3 DEF Stat, DropOldest, ShiftSlot, RenameLive, RemoveLive, RotationFails, ShiftFails
    <3> QED
      BY <2>1, <3>1, SameEvents
  <2> QED
    BY <1>5, <2>2, <2>3 DEF LogStep, LogFault, WriterStep
<1>6. ASSUME Other PROVE EventInv'
  <2>1. UNCHANGED <<callVars, logVars>>
    BY <1>6 DEF Other, OwnerArranges, OwnerDeletes, BoxChanges, FileChanges
  <2> QED
    BY <2>1, SameEvents DEF callVars, logVars
<1> QED
  BY <1>1, <1>3, <1>4, <1>5, <1>6, DiesEvents DEF Next

LEMMA EventOfCall ==
    ASSUME NEW c, NEW p
    PROVE  p \in Events(c) <=>
             \/ \E i : Logged(c, i) /\ p = [place |-> <<i>>, event |-> appended[i]]
             \/ \E s, i : Queued(c, s, i) /\ p = [place |-> <<s, i>>, event |-> queue[s][i]]
             \/ \E e : Lost(c, e) /\ p = [place |-> <<>>, event |-> e]
<1> DEFINE EventAt(place, event) == [place |-> place, event |-> event]
           L == {EventAt(<<i>>, appended[i]) : i \in DOMAIN appended}
           Q(s) == {EventAt(<<s, i>>, queue[s][i]) : i \in DOMAIN queue[s]}
           Qs == UNION {Q(s) : s \in Servers}
           M == {EventAt(<<>>, e) : e \in missed}
<1>1. \A place, event : EventAt(place, event).event = event
  OBVIOUS
<1>2. Events(c) = {q \in L \cup Qs \cup M : q.event.call = c}
  BY Zenon DEF Events
<1>3. p \in L <=> \E i \in DOMAIN appended : p = EventAt(<<i>>, appended[i])
  OBVIOUS
<1>4. p \in Qs <=> \E s \in Servers : \E i \in DOMAIN queue[s] : p = EventAt(<<s, i>>, queue[s][i])
  OBVIOUS
<1>5. p \in M <=> \E e \in missed : p = EventAt(<<>>, e)
  OBVIOUS
<1> HIDE DEF EventAt, L, Qs, M
<1>6. p \in L /\ p.event.call = c <=> \E i : Logged(c, i) /\ p = EventAt(<<i>>, appended[i])
  BY <1>1, <1>3 DEF Logged
<1>7. p \in Qs /\ p.event.call = c <=> \E s, i : Queued(c, s, i) /\ p = EventAt(<<s, i>>, queue[s][i])
  BY <1>1, <1>4 DEF Queued
<1>8. p \in M /\ p.event.call = c <=> \E e : Lost(c, e) /\ p = EventAt(<<>>, e)
  BY <1>1, <1>5 DEF Lost
<1>9. p \in Events(c) <=>
        \/ \E i : Logged(c, i) /\ p = EventAt(<<i>>, appended[i])
        \/ \E s, i : Queued(c, s, i) /\ p = EventAt(<<s, i>>, queue[s][i])
        \/ \E e : Lost(c, e) /\ p = EventAt(<<>>, e)
  <2>1. p \in Events(c) <=> (p \in L \/ p \in Qs \/ p \in M) /\ p.event.call = c
    BY <1>2
  <2> QED
    BY <1>6, <1>7, <1>8, <2>1
<1> QED
  BY <1>9 DEF EventAt

LEMMA EventsAreOnce == EventInv => EventsOnce
<1> SUFFICES ASSUME EventInv, NEW c \in Calls
             PROVE  IF Answered(c)
                    THEN /\ Cardinality(Events(c)) = 1
                         /\ \A p \in Events(c) : p.event.ok = (report[c] # "error")
                    ELSE Events(c) = {}
  BY DEF EventsOnce, Answered
<1>1. CASE ~Answered(c)
  BY <1>1, EventOfCall DEF EventInv, Recorded, Nowhere
<1>2. CASE Answered(c)
  <2>1. Somewhere(c) /\ OncePlaced(c) /\ TellsOf(c, report[c])
    BY <1>2 DEF EventInv, Recorded
  <2>2. PICK p : Events(c) = {p} /\ p.event.ok = (report[c] # "error")
    <3>1. ASSUME NEW i, Logged(c, i)
          PROVE  \E p : Events(c) = {p} /\ p.event.ok = (report[c] # "error")
      <4> DEFINE p == [place |-> <<i>>, event |-> appended[i]]
      <4>1. p.event.ok = (report[c] # "error")
        BY <2>1, <3>1 DEF TellsOf
      <4> HIDE DEF p
      <4>2. \A q : q \in Events(c) <=> q = p
        BY <2>1, <3>1, EventOfCall DEF OncePlaced, p
      <4> QED
        BY <4>1, <4>2
    <3>2. ASSUME NEW s, NEW i, Queued(c, s, i)
          PROVE  \E p : Events(c) = {p} /\ p.event.ok = (report[c] # "error")
      <4> DEFINE p == [place |-> <<s, i>>, event |-> queue[s][i]]
      <4>1. p.event.ok = (report[c] # "error")
        BY <2>1, <3>2 DEF TellsOf
      <4> HIDE DEF p
      <4>2. \A q : q \in Events(c) <=> q = p
        BY <2>1, <3>2, EventOfCall DEF OncePlaced, p
      <4> QED
        BY <4>1, <4>2
    <3>3. ASSUME NEW e, Lost(c, e)
          PROVE  \E p : Events(c) = {p} /\ p.event.ok = (report[c] # "error")
      <4> DEFINE p == [place |-> <<>>, event |-> e]
      <4>1. p.event.ok = (report[c] # "error")
        BY <2>1, <3>3 DEF TellsOf
      <4> HIDE DEF p
      <4>2. \A q : q \in Events(c) <=> q = p
        BY <2>1, <3>3, EventOfCall DEF OncePlaced, p
      <4> QED
        BY <4>1, <4>2
    <3> QED
      BY <2>1, <3>1, <3>2, <3>3 DEF Somewhere
  <2>3. Cardinality({p}) = 1
    BY FS_Singleton
  <2> QED
    BY <1>2, <2>2, <2>3
<1> QED
  BY <1>1, <1>2

\* Every audited call that was answered has exactly one event, in the log, in a
\* queue or lost, and it tells what the answer was; no other call has any: for
\* any servers, calls, rotations and failures (withAuditLog, appendAuditEvent).
THEOREM AnswersHaveEvents == Spec => []EventsOnce
<1>1. AccessInv /\ EventInv /\ [Next]_vars => EventInv'
  BY NextEvents
<1> QED
  BY InitEvents, AccessInvariant, <1>1, EventsAreOnce, PTL DEF Spec

-----------------------------------------------------------------------------
\* The log on disk: the files are cut, one after the other, out of the sequence
\* of all lines ever appended.  First what that says of FlattenSeq and IsSuffix.

\* The last piece is a suffix.
LEMMA PieceSuffix ==
    ASSUME NEW S, NEW q \in Seq(S), NEW lo \in Nat, lo <= Len(q)
    PROVE  IsSuffix(Piece(q, lo, Len(q)), q)
<1> DEFINE p == Piece(q, lo, Len(q))
           n == Len(q) - lo
<1>0. Len(q) \in Nat /\ Len(q) <= Len(q) /\ n \in Nat /\ n <= Len(q)
  OBVIOUS
<1>1. p \in Seq(S) /\ Len(p) = n
  BY <1>0, PieceSeq, Zenon
<1>2. \A i \in 1 .. n : p[n - i + 1] = q[Len(q) - i + 1]
  BY DEF Piece
<1> HIDE DEF p
<1>3. Reverse(p) = [i \in 1 .. n |-> p[n - i + 1]] /\ Reverse(q) = [i \in 1 .. Len(q) |-> q[Len(q) - i + 1]]
  BY <1>0, <1>1 DEF Reverse
<1>4. Reverse(p) \in Seq(S) /\ Reverse(q) \in Seq(S) /\ Len(Reverse(p)) = n /\ Len(Reverse(q)) = Len(q)
  <2>1. \A i \in 1 .. n : p[n - i + 1] \in S
    BY <1>0, <1>1, ElementType
  <2>2. \A i \in 1 .. Len(q) : q[Len(q) - i + 1] \in S
    BY ElementType
  <2> QED
    BY <1>0, <1>1, <1>3, <2>1, <2>2
<1>5. \A i \in 1 .. n : Reverse(p)[i] = Reverse(q)[i]
  BY <1>0, <1>1, <1>2, <1>3
<1>6. SubSeq(Reverse(p), 1, n) = SubSeq(Reverse(q), 1, n)
  BY <1>0, <1>1, <1>4, <1>5
<1> QED
  BY <1>0, <1>1, <1>4, <1>6 DEF IsSuffix, IsPrefix, p

\* What FlattenSeq returns is given by any function that satisfies its recursion.
LEMMA Flattened ==
    ASSUME NEW n \in Nat \ {0}, NEW r, NEW f, Len(r) = n,
           f = [i \in 1 .. n |-> IF i = 1 THEN r[i] ELSE f[i - 1] \o r[i]],
           NEW g, g = FlattenSeq(r)
    PROVE  g = f[n]
<1> DEFINE Is(h) == h = [i \in 1 .. n |-> IF i = 1 THEN r[i] ELSE h[i - 1] \o r[i]]
           fl == CHOOSE h : Is(h)
<1>1. g = fl[n]
  BY Zenon DEF FlattenSeq
<1>2. Is(f)
  BY Zenon
<1>3. Is(fl)
  BY <1>2, Zenon
<1> HIDE DEF fl
<1> DEFINE differ == {i \in 1 .. n : fl[i] # f[i]}
<1>4. ASSUME differ # {} PROVE FALSE
  <2>1. PICK i \in differ : \A k \in differ : i <= k
    <3>1. differ \subseteq Nat
      OBVIOUS
    <3> QED
      BY <1>4, <3>1, Least, Zenon
  <2>2. fl[i] = (IF i = 1 THEN r[i] ELSE fl[i - 1] \o r[i]) /\ f[i] = (IF i = 1 THEN r[i] ELSE f[i - 1] \o r[i])
    BY <1>2, <1>3, Zenon
  <2>3. i # 1 => i - 1 \in 1 .. n /\ i - 1 \notin differ
    BY <2>1
  <2>4. fl[i] = f[i]
    BY <2>2, <2>3
  <2> QED
    BY <2>4
<1> QED
  BY <1>1, <1>4

\* What the pieces of a sequence are, the newest first, put together again.
LEMMA PiecesJoin ==
    ASSUME NEW S, NEW q \in Seq(S), NEW n \in Nat, NEW b, NEW pieces,
           \A i \in 1 .. n + 1 : b[i] \in Nat,
           \A i \in 1 .. n : b[i + 1] <= b[i], b[1] <= Len(q),
           pieces = [i \in 1 .. n |-> Piece(q, b[i + 1], b[i])]
    PROVE  FlattenSeq(Reverse(pieces)) = Piece(q, b[n + 1], b[1])
<1> DEFINE r == Reverse(pieces)
           f == [i \in 1 .. n |-> Piece(q, b[n + 1], b[n + 1 - i])]
<1>1. Len(pieces) = n
  OBVIOUS
<1>2. r = [i \in 1 .. n |-> pieces[n - i + 1]] /\ Len(r) = n
  BY <1>1 DEF Reverse
<1>3. CASE n = 0
  <2>1. 1 .. n = {} /\ 1 .. b[1] - b[n + 1] = {}
    BY <1>3
  <2>2. FlattenSeq(r) = r
    BY <1>2, <1>3 DEF FlattenSeq
  <2>3. r = [i \in {} |-> pieces[n - i + 1]] /\ Piece(q, b[n + 1], b[1]) = [i \in {} |-> q[b[n + 1] + i]]
    BY <1>2, <2>1 DEF Piece
  <2> QED
    BY <2>2, <2>3
<1>4. CASE n # 0
  <2> HIDE DEF r
  <2>1. ASSUME NEW i \in 1 .. n
        PROVE  r[i] = Piece(q, b[n + 2 - i], b[n + 1 - i])
    <3>1. n - i + 1 \in 1 .. n /\ (n - i + 1) + 1 = n + 2 - i /\ n - i + 1 = n + 1 - i
      OBVIOUS
    <3> QED
      BY <1>2, <3>1
  <2>2. ASSUME NEW i \in 1 .. n
        PROVE  b[n + 1] <= b[n + 1 - i] /\ b[n + 1 - i] <= Len(q)
    <3> DEFINE m == n + 1 - i
    <3>1. m \in 1 .. n + 1 /\ m <= n + 1 /\ 1 <= m /\ m \in Nat /\ n + 1 \in Nat /\ 1 \in Nat
      OBVIOUS
    <3> HIDE DEF m
    <3>2. /\ \A k \in m .. n + 1 : b[k] \in Nat
          /\ \A k \in m .. n + 1 : k < n + 1 => b[k] >= b[k + 1] + 0
      BY <3>1
    <3>3. /\ \A k \in 1 .. m : b[k] \in Nat
          /\ \A k \in 1 .. m : k < m => b[k] >= b[k + 1] + 0
      BY <3>1
    <3>4. b[m] >= b[n + 1] + ((n + 1) - m) * 0
      BY <3>1, <3>2, Falls
    <3>5. b[1] >= b[m] + (m - 1) * 0
      BY <3>1, <3>3, Falls
    <3>6. b[m] \in Nat /\ b[n + 1] \in Nat /\ b[1] \in Nat /\ Len(q) \in Nat
      BY <3>1
    <3>7. ((n + 1) - m) * 0 = 0 /\ (m - 1) * 0 = 0
      BY <3>1
    <3>8. b[n + 1] <= b[m] /\ b[m] <= Len(q)
      BY <3>4, <3>5, <3>6, <3>7
    <3> QED
      BY <3>8 DEF m
  <2>3. ASSUME NEW i \in 1 .. n
        PROVE  f[i] = IF i = 1 THEN r[i] ELSE f[i - 1] \o r[i]
    <3>1. CASE i = 1
      <4>1. n + 2 - i = n + 1
        BY <3>1
      <4> QED
        BY <2>1, <3>1, <4>1
    <3>2. CASE i # 1
      <4>1. i - 1 \in 1 .. n /\ n + 1 - (i - 1) = n + 2 - i
        BY <3>2
      <4>2. f[i - 1] = Piece(q, b[n + 1], b[n + 2 - i]) /\ f[i] = Piece(q, b[n + 1], b[n + 1 - i])
        BY <4>1
      <4>3. n + 1 - i \in 1 .. n /\ (n + 1 - i) + 1 = n + 2 - i
        OBVIOUS
      <4>4. b[n + 2 - i] <= b[n + 1 - i]
        BY <4>3
      <4>5. b[n + 1] <= b[n + 2 - i] /\ b[n + 1 - i] <= Len(q)
        BY <2>2, <4>1
      <4>6. b[n + 1] \in Nat /\ b[n + 2 - i] \in Nat /\ b[n + 1 - i] \in Nat
        BY <4>1, <4>3
      <4>7. Piece(q, b[n + 1], b[n + 2 - i]) \o Piece(q, b[n + 2 - i], b[n + 1 - i]) = Piece(q, b[n + 1], b[n + 1 - i])
        BY <4>4, <4>5, <4>6, PieceJoin
      <4> QED
        BY <2>1, <3>2, <4>2, <4>7, Zenon
    <3> QED
      BY <3>1, <3>2
  <2>4. f = [i \in 1 .. n |-> IF i = 1 THEN r[i] ELSE f[i - 1] \o r[i]]
    BY <2>3, Zenon
  <2> HIDE DEF f
  <2>5. FlattenSeq(r) = f[n]
    BY <1>2, <1>4, <2>4, Flattened
  <2>6. f[n] = Piece(q, b[n + 1], b[1])
    BY <1>4 DEF f
  <2> QED
    BY <2>5, <2>6 DEF r
<1> QED
  BY <1>3, <1>4

\* Where a writer may be, by the number of files to keep.
WriterPlaced(s) ==
    /\ At(s, "drop") \/ At(s, "shift") \/ At(s, "rename") => audit.keep > 0
    /\ At(s, "shift") => writer[s].i < audit.keep
    /\ At(s, "remove") => audit.keep = 0

\* The slot that a rotation has emptied, and will fill next.
HoleOf(s, i) ==
    \/ At(s, "shift") /\ i = writer[s].i + 1
    \/ At(s, "rename") /\ i = 1

Hole(i) == \E s \in Servers : HoleOf(s, i)

\* Where the files were cut out of the sequence of all lines: the live file
\* ends at b[0], slot i at b[i], and what is before b[audit.keep + 1] is gone.
\* While no rotation was left half-way, a slot is full, or it is the hole, or
\* nothing was ever rotated so far.
CutAt(b) ==
    /\ b \in [0 .. audit.keep + 1 -> Nat]
    /\ b[0] = Len(appended)
    /\ \A i \in 0 .. audit.keep : b[i + 1] <= b[i]
    /\ b[audit.keep + 1] # 0 => audit.rotates
    /\ live = Piece(appended, b[1], b[0])
    /\ \A i \in 1 .. audit.keep : slot[i] = Piece(appended, b[i + 1], b[i])
    /\ \A i \in 1 .. audit.keep : Hole(i) => b[i] = b[i + 1]
    /\ cutShort \/ \A i \in 1 .. audit.keep : Hole(i) \/ b[i] = 0 \/ b[i] > b[i + 1] + audit.maxLines

\* A rotation that is not disturbed is the only one, and the live file it is to
\* move stays too long, for only a rotation makes it shorter.
RotatesAlone ==
    /\ \A s, t \in Servers : Rotating(s) /\ Rotating(t) => s = t
    /\ \A s \in Servers : Rotating(s) => OverLimit

LogInv ==
    /\ audit.rotates \in BOOLEAN /\ audit.keep \in Nat /\ audit.maxLines \in Nat
    /\ slot = [i \in 1 .. audit.keep |-> slot[i]]
    /\ writer \in [Servers -> [at : Writing, i : Nat]]
    /\ \A s \in Servers : WriterPlaced(s)
    /\ ~disturbed => RotatesAlone /\ \E b : CutAt(b)

\* The pieces in numbers.
LEMMA CutFacts ==
    ASSUME LogInv, NEW b, CutAt(b), NEW S, appended \in Seq(S)
    PROVE  /\ live \in Seq(S)
           /\ \A i \in 0 .. audit.keep + 1 : b[i] \in Nat /\ b[i] <= Len(appended)
           /\ Len(live) = b[0] - b[1]
           /\ \A i \in 1 .. audit.keep : slot[i] = <<>> <=> b[i] = b[i + 1]
<1> DEFINE keep == audit.keep
           n == keep + 1
<1>2. keep \in Nat
  BY DEF LogInv
<1>3. /\ b \in [0 .. n -> Nat]
      /\ \A i \in 0 .. keep : b[i + 1] <= b[i]
      /\ b[0] = Len(appended)
      /\ live = Piece(appended, b[1], b[0])
      /\ \A i \in 1 .. keep : slot[i] = Piece(appended, b[i + 1], b[i])
  BY DEF CutAt
<1> HIDE DEF keep
<1>4. /\ \A i \in 0 .. n : b[i] \in Nat
      /\ \A i \in 0 .. n : i < n => b[i] >= b[i + 1] + 0
  <2>1. \A i \in 0 .. n : b[i] \in Nat
    BY <1>3
  <2>2. ASSUME NEW i \in 0 .. n, i < n PROVE b[i] >= b[i + 1] + 0
    <3>1. i \in 0 .. keep /\ i + 1 \in 0 .. n
      BY <1>2, <2>2
    <3>2. b[i + 1] <= b[i] /\ b[i] \in Nat /\ b[i + 1] \in Nat
      BY <1>3, <2>1, <3>1
    <3> QED
      BY <3>2
  <2> QED
    BY <2>1, <2>2
<1>5. ASSUME NEW i \in 0 .. n PROVE b[i] <= Len(appended)
  <2>1. i \in Nat /\ 0 \in Nat /\ 0 <= i /\ \A k \in 0 .. i : k \in 0 .. n /\ (k < i => k < n)
    BY <1>2
  <2> HIDE DEF n
  <2>2. b[0] >= b[i] + (i - 0) * 0
    BY <1>4, <2>1, Falls
  <2>3. (i - 0) * 0 = 0 /\ b[i] \in Nat /\ b[0] \in Nat
    BY <1>4, <2>1
  <2> QED
    BY <1>3, <2>2, <2>3
<1>6. live \in Seq(S) /\ Len(live) = b[0] - b[1]
  <2>1. b[0] \in Nat /\ b[1] \in Nat /\ b[1] <= b[0] /\ b[0] <= Len(appended)
    <3>1. 0 \in 0 .. n /\ 1 \in 0 .. n /\ 0 \in 0 .. keep /\ 0 + 1 = 1
      BY <1>2
    <3> QED
      BY <1>3, <1>4, <1>5, <3>1
  <2>2. Piece(appended, b[1], b[0]) \in Seq(S) /\ Len(Piece(appended, b[1], b[0])) = b[0] - b[1]
    BY <2>1, PieceSeq
  <2> QED
    BY <1>3, <2>2
<1>7. ASSUME NEW i \in 1 .. keep PROVE slot[i] = <<>> <=> b[i] = b[i + 1]
  <2>1. i \in 0 .. n /\ i + 1 \in 0 .. n /\ i \in 0 .. keep
    BY <1>2
  <2>2. b[i] \in Nat /\ b[i + 1] \in Nat /\ b[i + 1] <= b[i] /\ b[i] <= Len(appended)
    BY <1>3, <1>4, <1>5, <2>1
  <2>3. Piece(appended, b[i + 1], b[i]) = <<>> <=> b[i] = b[i + 1]
    BY <2>2, PieceEmpty
  <2> QED
    BY <1>3, <2>3
<1> QED
  BY <1>4, <1>5, <1>6, <1>7 DEF keep

\* A step that leaves the files and the writers alone.
LEMMA SameLog ==
    ASSUME LogInv, UNCHANGED <<audit, live, slot, writer, appended, disturbed, cutShort>>
    PROVE  LogInv'
BY DEF LogInv, WriterPlaced, RotatesAlone, OverLimit, Rotating, CutAt, Hole, HoleOf, At

LEMMA WriterMoves ==
    ASSUME LogInv, NEW s \in Servers, NEW step \in Writing, NEW n \in Nat,
           writer' = [writer EXCEPT ![s] = [at |-> step, i |-> n]]
    PROVE  /\ writer' \in [Servers -> [at : Writing, i : Nat]]
           /\ writer'[s].at = step /\ writer'[s].i = n
           /\ \A t \in Servers : t # s => writer'[t] = writer[t]
<1> DEFINE w == [at |-> step, i |-> n]
<1>1. w \in [at : Writing, i : Nat] /\ w.at = step /\ w.i = n
  OBVIOUS
<1>2. writer \in [Servers -> [at : Writing, i : Nat]]
  BY DEF LogInv
<1> HIDE DEF w
<1>3. writer' = [writer EXCEPT ![s] = w]
  BY DEF w
<1> QED
  BY <1>1, <1>2, <1>3

\* A server that rotates has the only hole.
LEMMA OwnHole ==
    ASSUME LogInv, ~disturbed, NEW s \in Servers, Rotating(s), NEW i
    PROVE  Hole(i) <=> HoleOf(s, i)
BY DEF LogInv, RotatesAlone, Rotating, Hole, HoleOf, At

\* A line is appended: all cuts but the newest stay.
LEMMA AppendLineLog ==
    ASSUME LogInv, EventInv, NEW s \in Servers, AppendLine(s)
    PROVE  LogInv'
<1> DEFINE x == Head(queue[s])
<1>1. /\ At(s, "idle") /\ queue[s] # <<>> /\ live' = Append(live, x) /\ appended' = Append(appended, x)
      /\ UNCHANGED <<audit, slot, disturbed, cutShort>>
      /\ writer' = [writer EXCEPT ![s] = [at |-> "stat", i |-> 0]]
  BY DEF AppendLine, WriterTo
<1>2. PICK S : queue \in [Servers -> Seq(S)] /\ appended \in Seq(S)
  BY DEF EventInv, LogTypes
<1>3. x \in S
  BY <1>1, <1>2
<1> HIDE DEF x
<1>4. /\ writer' \in [Servers -> [at : Writing, i : Nat]]
      /\ writer'[s].at = "stat" /\ \A t \in Servers : t # s => writer'[t] = writer[t]
  <2>1. "stat" \in Writing /\ 0 \in Nat
    BY DEF Writing
  <2> QED
    BY <1>1, <2>1, WriterMoves, Zenon
<1>5. /\ \A t \in Servers : Rotating(t)' <=> Rotating(t)
      /\ \A i : Hole(i)' <=> Hole(i)
  BY <1>1, <1>4 DEF Rotating, Hole, HoleOf, At
<1>6. \A t \in Servers : WriterPlaced(t)'
  BY <1>1, <1>4 DEF LogInv, WriterPlaced, At
<1>7. ASSUME ~disturbed PROVE (RotatesAlone /\ \E b : CutAt(b))'
  <2>1. PICK b : CutAt(b)
    BY <1>7 DEF LogInv
  <2>2. /\ live \in Seq(S)
        /\ \A i \in 0 .. audit.keep + 1 : b[i] \in Nat /\ b[i] <= Len(appended)
        /\ Len(live) = b[0] - b[1]
    BY <1>2, <2>1, CutFacts
  <2>3. Len(live') = Len(live) + 1 /\ Len(live) \in Nat
    BY <1>1, <1>3, <2>2
  <2>4. RotatesAlone'
    <3>1. OverLimit => OverLimit'
      BY <1>1, <2>3 DEF OverLimit, LogInv
    <3> QED
      BY <1>5, <1>7, <3>1 DEF RotatesAlone, LogInv
  <2> DEFINE keep == audit.keep
  <2>0. PICK nb : nb = [b EXCEPT ![0] = Len(appended) + 1]
    OBVIOUS
  <2>5. keep \in Nat /\ audit' = audit
    BY <1>1 DEF LogInv
  <2>6. /\ b \in [0 .. keep + 1 -> Nat] /\ b[0] = Len(appended)
        /\ \A i \in 0 .. keep : b[i + 1] <= b[i]
        /\ b[keep + 1] # 0 => audit.rotates
        /\ live = Piece(appended, b[1], b[0])
        /\ \A i \in 1 .. keep : slot[i] = Piece(appended, b[i + 1], b[i])
        /\ \A i \in 1 .. keep : Hole(i) => b[i] = b[i + 1]
        /\ cutShort \/ \A i \in 1 .. keep : Hole(i) \/ b[i] = 0 \/ b[i] > b[i + 1] + audit.maxLines
    BY <2>1 DEF CutAt
  <2> HIDE DEF keep
  <2>7. /\ \A i \in 1 .. keep : i \in 0 .. keep + 1 /\ i + 1 \in 0 .. keep + 1 /\ i \in 0 .. keep
        /\ 0 \in 0 .. keep + 1 /\ 1 \in 0 .. keep + 1 /\ 0 \in 0 .. keep
        /\ Len(appended) \in Nat /\ Len(appended) + 1 \in Nat
    BY <1>2, <2>5
  <2>8. /\ nb \in [0 .. keep + 1 -> Nat] /\ nb[0] = Len(appended) + 1
        /\ \A i \in 1 .. keep + 1 : nb[i] = b[i]
    BY <2>0, <2>6, <2>7
  <2>9. /\ appended' \in Seq(S) /\ Len(appended') = Len(appended) + 1
        /\ live' = Piece(appended', b[1], Len(appended) + 1)
    <3>1. b[1] \in Nat /\ b[1] <= Len(appended)
      BY <2>2, <2>7 DEF keep
    <3> QED
      BY <1>1, <1>2, <1>3, <2>6, <3>1, PieceLonger
  <2>10. ASSUME NEW i \in 1 .. keep PROVE slot[i] = Piece(appended', b[i + 1], b[i])
    <3>1. b[i + 1] \in Nat /\ b[i] \in Nat /\ b[i + 1] <= b[i] /\ b[i] <= Len(appended)
      BY <2>2, <2>6, <2>7 DEF keep
    <3>2. Piece(appended', b[i + 1], b[i]) = Piece(appended, b[i + 1], b[i])
      BY <1>1, <1>2, <1>3, <3>1, PieceAppend
    <3> QED
      BY <2>6, <3>2
  <2>11. ASSUME NEW i \in 0 .. keep PROVE nb[i + 1] <= nb[i]
    <3>1. CASE i = 0
      <4>1. b[1] <= Len(appended) /\ nb[1] = b[1] /\ b[1] \in Nat
        BY <2>2, <2>5, <2>7, <2>8 DEF keep
      <4> QED
        BY <2>7, <2>8, <3>1, <4>1
    <3>2. CASE i # 0
      <4>1. i \in 1 .. keep + 1 /\ i + 1 \in 1 .. keep + 1
        BY <2>5, <3>2
      <4> QED
        BY <2>6, <2>8, <4>1
    <3> QED
      BY <3>1, <3>2
  <2>12. CutAt(nb)'
    <3>1. /\ nb[1] = b[1] /\ nb[keep + 1] = b[keep + 1]
          /\ \A i \in 1 .. keep : nb[i] = b[i] /\ nb[i + 1] = b[i + 1]
      BY <2>5, <2>8
    <3>2. nb[0] = Len(appended') /\ (nb[keep + 1] # 0 => audit.rotates)
      BY <2>6, <2>8, <2>9, <3>1
    <3>3. live' = Piece(appended', nb[1], nb[0]) /\ \A i \in 1 .. keep : slot'[i] = Piece(appended', nb[i + 1], nb[i])
      BY <1>1, <2>8, <2>9, <2>10, <3>1
    <3>4. /\ \A i \in 1 .. keep : Hole(i)' => nb[i] = nb[i + 1]
          /\ cutShort \/ \A i \in 1 .. keep : Hole(i)' \/ nb[i] = 0 \/ nb[i] > nb[i + 1] + audit.maxLines
      BY <1>5, <2>6, <3>1
    <3> QED
      BY <1>1, <2>8, <2>11, <3>2, <3>3, <3>4 DEF CutAt, keep
  <2> QED
    BY <2>4, <2>12
<1> QED
  BY <1>1, <1>4, <1>6, <1>7 DEF LogInv

\* A server that rotates alone does so after its next step, if it still does.
LEMMA RotatorSteps ==
    ASSUME LogInv, ~disturbed, NEW s \in Servers, Rotating(s),
           \A t \in Servers : t # s => writer'[t] = writer[t]
    PROVE  /\ \A t \in Servers : Rotating(t)' => t = s
           /\ \A i : Hole(i)' <=> HoleOf(s, i)'
<1>1. \A t \in Servers : t # s => ~Rotating(t)
  BY DEF LogInv, RotatesAlone
<1>2. \A t \in Servers : t # s => ~Rotating(t)' /\ \A i : ~HoleOf(t, i)'
  BY <1>1 DEF Rotating, HoleOf, At
<1>3. ASSUME NEW i
      PROVE  Hole(i)' <=> HoleOf(s, i)'
  BY <1>2 DEF Hole
<1>4. \A t \in Servers : Rotating(t)' => t = s
  BY <1>2
<1>5. \A i : Hole(i)' <=> HoleOf(s, i)'
  BY <1>3
<1> QED
  BY <1>4, <1>5

\* A rotation begins: a second one is the disturbance that nothing is said of.
LEMMA StatLog ==
    ASSUME LogInv, NEW s \in Servers, Stat(s)
    PROVE  LogInv'
<1> DEFINE step == IF ~OverLimit THEN "idle" ELSE IF audit.keep > 0 THEN "drop" ELSE "remove"
<1>1. /\ At(s, "stat") /\ UNCHANGED <<audit, live, slot, appended, cutShort>>
      /\ writer' = [writer EXCEPT ![s] = [at |-> step, i |-> 0]]
      /\ disturbed' = (disturbed \/ (OverLimit /\ \E t \in Servers \ {s} : Rotating(t)))
  BY DEF Stat, WriterTo
<1>2. step \in Writing /\ 0 \in Nat
  BY DEF Writing
<1>3. step \in {"idle", "drop", "remove"} /\ (step # "idle" => OverLimit)
      /\ (step = "drop" => audit.keep > 0) /\ (step = "remove" => audit.keep = 0)
  BY DEF LogInv
<1> HIDE DEF step
<1>4. /\ writer' \in [Servers -> [at : Writing, i : Nat]]
      /\ writer'[s].at = step /\ \A t \in Servers : t # s => writer'[t] = writer[t]
  BY <1>1, <1>2, WriterMoves, Zenon
<1>5. /\ \A t \in Servers : t # s => (Rotating(t)' <=> Rotating(t))
      /\ Rotating(s)' <=> step # "idle"
      /\ \A i : Hole(i)' <=> Hole(i)
  BY <1>1, <1>3, <1>4 DEF Rotating, Hole, HoleOf, At
<1>6. \A t \in Servers : WriterPlaced(t)'
  BY <1>1, <1>3, <1>4 DEF LogInv, WriterPlaced, At
<1>7. ASSUME ~disturbed' PROVE (RotatesAlone /\ \E b : CutAt(b))'
  <2>1. ~disturbed /\ (OverLimit => \A t \in Servers \ {s} : ~Rotating(t))
    BY <1>1, <1>7
  <2>2. RotatesAlone'
    <3>1. OverLimit' <=> OverLimit
      BY <1>1 DEF OverLimit
    <3> QED
      BY <1>3, <1>5, <2>1, <3>1 DEF RotatesAlone, LogInv
  <2>3. PICK b : CutAt(b)
    BY <2>1 DEF LogInv
  <2>4. CutAt(b)'
    BY <1>1, <1>5, <2>3 DEF CutAt
  <2> QED
    BY <2>2, <2>4
<1> QED
  BY <1>1, <1>4, <1>6, <1>7 DEF LogInv

\* The oldest file is removed: what is gone ends where slot `keep` did.
LEMMA DropOldestLog ==
    ASSUME LogInv, EventInv, NEW s \in Servers, DropOldest(s)
    PROVE  LogInv'
<1> DEFINE keep == audit.keep
<1>1. /\ At(s, "drop") /\ slot' = [slot EXCEPT ![keep] = <<>>]
      /\ UNCHANGED <<audit, live, appended, disturbed, cutShort>>
      /\ writer' = [writer EXCEPT ![s] = [at |-> "shift", i |-> keep - 1]]
  BY DEF DropOldest
<1>2. keep \in Nat \ {0} /\ keep - 1 \in Nat /\ slot = [i \in 1 .. keep |-> slot[i]] /\ keep \in 1 .. keep
  BY <1>1 DEF LogInv, WriterPlaced
<1>3. /\ slot' = [i \in 1 .. keep |-> slot'[i]] /\ slot'[keep] = <<>>
      /\ \A i \in 1 .. keep : i # keep => slot'[i] = slot[i]
  BY <1>1, <1>2
<1> HIDE DEF keep
<1>4. /\ writer' \in [Servers -> [at : Writing, i : Nat]]
      /\ writer'[s].at = "shift" /\ writer'[s].i = keep - 1
      /\ \A t \in Servers : t # s => writer'[t] = writer[t]
  <2>1. "shift" \in Writing
    BY DEF Writing
  <2> QED
    BY <1>1, <1>2, <2>1, WriterMoves, Zenon
<1>5. \A t \in Servers : WriterPlaced(t)'
  BY <1>1, <1>2, <1>4 DEF LogInv, WriterPlaced, At, keep
<1>6. ASSUME ~disturbed PROVE (RotatesAlone /\ \E b : CutAt(b))'
  <2>1. PICK b : CutAt(b)
    BY <1>6 DEF LogInv
  <2>2. Rotating(s) /\ OverLimit
    BY <1>1, <1>6 DEF Rotating, At, LogInv, RotatesAlone
  <2>3. /\ \A t \in Servers : Rotating(t)' => t = s
        /\ \A i : Hole(i)' <=> i = keep
    <3>1. (keep - 1) + 1 = keep
      BY <1>2
    <3> QED
      <4>1. /\ \A t \in Servers : Rotating(t)' => t = s
            /\ \A i : Hole(i)' <=> HoleOf(s, i)'
        BY <1>4, <1>6, <2>2, RotatorSteps
      <4>2. \A i : HoleOf(s, i)' <=> i = keep
        BY <1>4, <3>1 DEF HoleOf, At
      <4> QED
        BY <4>1, <4>2
  <2>4. \A i : ~Hole(i)
    BY <1>1, <1>6, <2>2, OwnHole DEF HoleOf, At
  <2>5. RotatesAlone'
    BY <1>1, <2>2, <2>3 DEF RotatesAlone, OverLimit
  <2>6. PICK S : appended \in Seq(S)
    BY DEF EventInv, LogTypes
  <2>7. /\ b \in [0 .. keep + 1 -> Nat] /\ b[0] = Len(appended)
        /\ \A i \in 0 .. keep : b[i + 1] <= b[i]
        /\ live = Piece(appended, b[1], b[0])
        /\ \A i \in 1 .. keep : slot[i] = Piece(appended, b[i + 1], b[i])
        /\ cutShort \/ \A i \in 1 .. keep : b[i] = 0 \/ b[i] > b[i + 1] + audit.maxLines
    BY <2>1, <2>4 DEF CutAt, keep
  <2>8. PICK nb : nb = [b EXCEPT ![keep + 1] = b[keep]]
    OBVIOUS
  <2>9. /\ nb \in [0 .. keep + 1 -> Nat] /\ nb[keep + 1] = b[keep]
        /\ \A i \in 0 .. keep : nb[i] = b[i]
    <3>1. keep + 1 \in 0 .. keep + 1 /\ keep \in 0 .. keep + 1 /\ \A i \in 0 .. keep : i # keep + 1 /\ i \in 0 .. keep + 1
      BY <1>2
    <3> QED
      BY <2>7, <2>8, <3>1
  <2>10. \A i \in 0 .. keep : nb[i + 1] <= nb[i]
    <3>1. nb[keep + 1] <= nb[keep]
      BY <1>2, <2>7, <2>9
    <3>2. \A i \in 0 .. keep : i # keep => i + 1 \in 0 .. keep
      BY <1>2
    <3> QED
      BY <2>7, <2>9, <3>1, <3>2
  <2>11. live = Piece(appended, nb[1], nb[0])
    BY <1>2, <2>7, <2>9
  <2>12. ASSUME NEW i \in 1 .. keep PROVE slot'[i] = Piece(appended, nb[i + 1], nb[i])
    <3>1. CASE i = keep
      <4>1. b[keep] \in Nat /\ b[keep] <= Len(appended)
        BY <1>2, <2>1, <2>6, CutFacts DEF keep
      <4>2. Piece(appended, b[keep], b[keep]) = <<>>
        BY <2>6, <4>1, PieceEmpty
      <4> QED
        BY <1>2, <1>3, <2>9, <3>1, <4>2
    <3>2. CASE i # keep
      <4>1. i \in 0 .. keep /\ i + 1 \in 0 .. keep
        BY <1>2, <3>2
      <4> QED
        BY <1>3, <2>7, <2>9, <3>2, <4>1
    <3> QED
      BY <3>1, <3>2
  <2>13. cutShort \/ \A i \in 1 .. keep : i = keep \/ nb[i] = 0 \/ nb[i] > nb[i + 1] + audit.maxLines
    <3>1. \A i \in 1 .. keep : i # keep => i \in 0 .. keep /\ i + 1 \in 0 .. keep
      BY <1>2
    <3> QED
      BY <2>7, <2>9, <3>1
  <2>14. nb[keep + 1] # 0 => audit.rotates
    BY <2>2 DEF OverLimit
  <2>15. CutAt(nb)'
    <3>1. keep \in 0 .. keep /\ nb[keep] = nb[keep + 1] /\ nb[0] = b[0]
      BY <1>2, <2>9
    <3> QED
      BY <1>1, <2>3, <2>7, <2>9, <2>10, <2>11, <2>12, <2>13, <2>14, <3>1 DEF CutAt, keep
  <2> QED
    BY <2>5, <2>15
<1> QED
  BY <1>1, <1>3, <1>4, <1>5, <1>6 DEF LogInv, keep

\* The rename of slot i to i + 1, the hole, or of nothing: the hole goes down.
LEMMA ShiftSlotLog ==
    ASSUME LogInv, EventInv, NEW s \in Servers, ShiftSlot(s)
    PROVE  LogInv'
<1> DEFINE keep == audit.keep
           n == writer[s].i
<1>1. /\ At(s, "shift") /\ UNCHANGED <<audit, live, appended, disturbed, cutShort>>
      /\ IF n = 0 THEN WriterTo(s, "rename") /\ UNCHANGED slot
         ELSE slot' = Renamed(n) /\ writer' = [writer EXCEPT ![s].i = @ - 1]
  BY DEF ShiftSlot
<1>2. /\ keep \in Nat /\ n \in Nat /\ n < keep
      /\ slot = [i \in 1 .. keep |-> slot[i]]
      /\ writer \in [Servers -> [at : Writing, i : Nat]]
  BY <1>1 DEF LogInv, WriterPlaced
<1>3. CASE n = 0
  <2>1. /\ writer' = [writer EXCEPT ![s] = [at |-> "rename", i |-> 0]] /\ slot' = slot
    BY <1>1, <1>3 DEF WriterTo
  <2>2. /\ writer' \in [Servers -> [at : Writing, i : Nat]]
        /\ writer'[s].at = "rename" /\ \A t \in Servers : t # s => writer'[t] = writer[t]
    <3>1. "rename" \in Writing /\ 0 \in Nat
      BY DEF Writing
    <3> QED
      BY <2>1, <3>1, WriterMoves, Zenon
  <2>3. /\ \A t \in Servers : Rotating(t)' <=> Rotating(t)
        /\ \A i : Hole(i)' <=> Hole(i)
    <3>1. \A i : i = n + 1 <=> i = 1
      BY <1>3
    <3> QED
      BY <1>1, <2>2, <3>1 DEF Rotating, Hole, HoleOf, At
  <2>4. \A t \in Servers : WriterPlaced(t)'
    BY <1>1, <1>2, <1>3, <2>2 DEF LogInv, WriterPlaced, At
  <2>5. ASSUME ~disturbed PROVE (RotatesAlone /\ \E b : CutAt(b))'
    <3>1. RotatesAlone'
      BY <1>1, <2>3, <2>5 DEF RotatesAlone, OverLimit, LogInv
    <3>2. PICK b : CutAt(b)
      BY <2>5 DEF LogInv
    <3>3. CutAt(b)'
      BY <1>1, <2>1, <2>3, <3>2 DEF CutAt
    <3> QED
      BY <3>1, <3>3
  <2> QED
    BY <1>1, <2>1, <2>2, <2>4, <2>5 DEF LogInv
<1>4. CASE n # 0
  <2>1. /\ writer' = [writer EXCEPT ![s] = [at |-> "shift", i |-> n - 1]]
        /\ slot' = Renamed(n)
    <3>1. writer' = [writer EXCEPT ![s].i = @ - 1] /\ slot' = Renamed(n)
      BY <1>1, <1>4
    <3>2. writer[s] = [at |-> "shift", i |-> n]
      BY <1>1, <1>2 DEF At
    <3>3. [writer[s] EXCEPT !.i = writer[s].i - 1] = [at |-> "shift", i |-> n - 1]
      BY <3>2
    <3> QED
      BY <1>2, <3>1, <3>3
  <2>2. n \in 1 .. keep /\ n + 1 \in 1 .. keep /\ n - 1 \in Nat /\ n - 1 < keep /\ (n - 1) + 1 = n /\ n # n + 1
    BY <1>2, <1>4
  <2>3. /\ slot' = [i \in 1 .. keep |-> slot'[i]]
        /\ slot'[n] = <<>>
        /\ slot'[n + 1] = IF slot[n] = <<>> THEN slot[n + 1] ELSE slot[n]
        /\ \A i \in 1 .. keep : i # n /\ i # n + 1 => slot'[i] = slot[i]
    <3>1. CASE slot[n] = <<>>
      BY <1>2, <2>1, <3>1 DEF Renamed
    <3>2. CASE slot[n] # <<>>
      <4>1. slot' = [[slot EXCEPT ![n + 1] = slot[n]] EXCEPT ![n] = <<>>]
        BY <2>1, <3>2 DEF Renamed
      <4> QED
        BY <1>2, <2>2, <3>2, <4>1
    <3> QED
      BY <3>1, <3>2
  <2> HIDE DEF n, keep
  <2>4. /\ writer' \in [Servers -> [at : Writing, i : Nat]]
        /\ writer'[s].at = "shift" /\ writer'[s].i = n - 1
        /\ \A t \in Servers : t # s => writer'[t] = writer[t]
    <3>1. "shift" \in Writing
      BY DEF Writing
    <3> QED
      BY <2>1, <2>2, <3>1, WriterMoves, Zenon
  <2>5. \A t \in Servers : WriterPlaced(t)'
    BY <1>1, <2>2, <2>4 DEF LogInv, WriterPlaced, At, keep
  <2>6. ASSUME ~disturbed PROVE (RotatesAlone /\ \E b : CutAt(b))'
    <3>1. PICK b : CutAt(b)
      BY <2>6 DEF LogInv
    <3>2. Rotating(s) /\ OverLimit
      BY <1>1, <2>6 DEF Rotating, At, LogInv, RotatesAlone
    <3>3. /\ \A t \in Servers : Rotating(t)' => t = s
          /\ \A i : Hole(i)' <=> i = n
      <4>1. /\ \A t \in Servers : Rotating(t)' => t = s
            /\ \A i : Hole(i)' <=> HoleOf(s, i)'
        BY <2>4, <2>6, <3>2, RotatorSteps
      <4>2. \A i : HoleOf(s, i)' <=> i = n
        BY <2>2, <2>4 DEF HoleOf, At
      <4> QED
        BY <4>1, <4>2
    <3>4. \A i : Hole(i) <=> i = n + 1
      BY <1>1, <2>6, <3>2, OwnHole DEF HoleOf, At, n
    <3>5. RotatesAlone'
      BY <1>1, <3>2, <3>3 DEF RotatesAlone, OverLimit
    <3>6. PICK S : appended \in Seq(S)
      BY DEF EventInv, LogTypes
    <3>7. /\ b \in [0 .. keep + 1 -> Nat] /\ b[0] = Len(appended)
          /\ \A i \in 0 .. keep : b[i + 1] <= b[i]
          /\ b[keep + 1] # 0 => audit.rotates
          /\ live = Piece(appended, b[1], b[0])
          /\ \A i \in 1 .. keep : slot[i] = Piece(appended, b[i + 1], b[i])
          /\ b[n + 1] = b[(n + 1) + 1]
          /\ cutShort \/ \A i \in 1 .. keep : i = n + 1 \/ b[i] = 0 \/ b[i] > b[i + 1] + audit.maxLines
      BY <2>2, <3>1, <3>4 DEF CutAt, keep
    <3>8. PICK nb : nb = [b EXCEPT ![n + 1] = b[n]]
      OBVIOUS
    <3>9. /\ nb \in [0 .. keep + 1 -> Nat] /\ nb[n + 1] = b[n]
          /\ \A i \in 0 .. keep + 1 : i # n + 1 => nb[i] = b[i]
      <4>1. n + 1 \in 0 .. keep + 1 /\ n \in 0 .. keep + 1
        BY <1>2
      <4> QED
        BY <3>7, <3>8, <4>1
    <3>10. /\ n \in 0 .. keep /\ n + 1 \in 0 .. keep /\ (n + 1) + 1 \in 0 .. keep + 1
           /\ n # n + 1 /\ (n + 1) + 1 # n + 1 /\ 0 # n + 1 /\ keep + 1 # n + 1 /\ 1 # n + 1
           /\ keep + 1 \in 0 .. keep + 1 /\ 0 \in 0 .. keep + 1 /\ 1 \in 0 .. keep + 1
           /\ \A i \in 0 .. keep : i \in 0 .. keep + 1 /\ i + 1 \in 0 .. keep + 1 /\ (i # n => i + 1 # n + 1)
           /\ 1 .. keep \subseteq 0 .. keep
      BY <1>2, <2>2
    <3>11. nb[n] = b[n] /\ nb[(n + 1) + 1] = b[n + 1] /\ nb[0] = b[0] /\ nb[1] = b[1] /\ nb[keep + 1] = b[keep + 1]
      BY <3>7, <3>9, <3>10
    <3>12. b[n] \in Nat /\ b[n + 1] \in Nat /\ b[n + 1] <= b[n] /\ b[n] <= Len(appended)
      <4>1. \A i \in 0 .. keep + 1 : b[i] \in Nat /\ b[i] <= Len(appended)
        BY <3>1, <3>6, CutFacts DEF keep
      <4> QED
        BY <3>7, <3>10, <4>1
    <3>13. ASSUME NEW i \in 0 .. keep PROVE nb[i + 1] <= nb[i]
      <4>1. CASE i = n
        BY <3>9, <3>11, <3>12, <4>1
      <4>2. CASE i = n + 1
        BY <3>9, <3>11, <3>12, <4>2
      <4>3. CASE i # n /\ i # n + 1
        BY <3>7, <3>9, <3>10, <4>3
      <4> QED
        BY <4>1, <4>2, <4>3
    <3>14. ASSUME NEW i \in 1 .. keep PROVE slot'[i] = Piece(appended, nb[i + 1], nb[i])
      <4>1. CASE i = n
        <5>1. Piece(appended, b[n], b[n]) = <<>>
          BY <3>6, <3>12, PieceEmpty
        <5> QED
          BY <2>3, <3>9, <3>11, <4>1, <5>1
      <4>2. CASE i = n + 1
        <5>1. slot[n] = Piece(appended, b[n + 1], b[n])
          BY <2>2, <3>7
        <5>2. slot[n] = <<>> => b[n] = b[n + 1]
          BY <2>2, <3>1, <3>6, CutFacts DEF keep
        <5>3. slot[n + 1] = Piece(appended, b[n + 1], b[n + 1])
          BY <2>2, <3>7
        <5> QED
          BY <2>3, <3>9, <3>11, <4>2, <5>1, <5>2, <5>3
      <4>3. CASE i # n /\ i # n + 1
        BY <2>3, <3>7, <3>9, <3>10, <4>3
      <4> QED
        BY <4>1, <4>2, <4>3
    <3>15. cutShort \/ \A i \in 1 .. keep : i = n \/ nb[i] = 0 \/ nb[i] > nb[i + 1] + audit.maxLines
      <4>1. SUFFICES ASSUME ~cutShort, NEW i \in 1 .. keep, i # n
            PROVE  nb[i] = 0 \/ nb[i] > nb[i + 1] + audit.maxLines
        OBVIOUS
      <4>2. CASE i = n + 1
        BY <2>2, <3>7, <3>9, <3>10, <3>11, <4>1, <4>2
      <4>3. CASE i # n + 1
        BY <3>7, <3>9, <3>10, <4>1, <4>3
      <4> QED
        BY <4>2, <4>3
    <3>16. CutAt(nb)'
      <4>1. /\ live' = Piece(appended', nb[1], nb[0]) /\ nb[0] = Len(appended')
            /\ nb[n] = nb[n + 1] /\ (nb[keep + 1] # 0 => audit.rotates)
        BY <1>1, <3>7, <3>9, <3>11
      <4> QED
        BY <1>1, <3>3, <3>9, <3>13, <3>14, <3>15, <4>1 DEF CutAt, keep
    <3> QED
      BY <3>5, <3>16
  <2> QED
    BY <1>1, <2>3, <2>4, <2>5, <2>6 DEF LogInv, keep
<1> QED
  BY <1>3, <1>4

\* A refused rename of a rotated file is the disturbance that nothing is said of.
LEMMA ShiftFailsLog ==
    ASSUME LogInv, NEW s \in Servers, ShiftFails(s)
    PROVE  LogInv'
<1> DEFINE n == writer[s].i
<1>1. /\ At(s, "shift") /\ n > 0 /\ disturbed' = TRUE /\ UNCHANGED <<audit, slot>>
      /\ writer' = [writer EXCEPT ![s].i = @ - 1]
  BY DEF ShiftFails
<1>2. n \in Nat /\ n - 1 \in Nat /\ writer \in [Servers -> [at : Writing, i : Nat]]
  BY <1>1 DEF LogInv
<1>3. writer' = [writer EXCEPT ![s] = [at |-> "shift", i |-> n - 1]]
  <2>1. writer[s] = [at |-> "shift", i |-> n]
    BY <1>1, <1>2 DEF At
  <2>2. [writer[s] EXCEPT !.i = writer[s].i - 1] = [at |-> "shift", i |-> n - 1]
    BY <2>1
  <2> QED
    BY <1>1, <1>2, <2>2
<1> HIDE DEF n
<1>4. /\ writer' \in [Servers -> [at : Writing, i : Nat]]
      /\ writer'[s].at = "shift" /\ writer'[s].i = n - 1
      /\ \A t \in Servers : t # s => writer'[t] = writer[t]
  <2>1. "shift" \in Writing
    BY DEF Writing
  <2> QED
    BY <1>2, <1>3, <2>1, WriterMoves, Zenon
<1>5. \A t \in Servers : WriterPlaced(t)'
  BY <1>1, <1>2, <1>4 DEF LogInv, WriterPlaced, At, n
<1> QED
  BY <1>1, <1>4, <1>5 DEF LogInv

\* A rotation ends, by its last step, by a failure, or with its process: the
\* server is idle, and every hole is another's, or nobody's.
LEMMA WriterRests ==
    ASSUME LogInv, NEW s \in Servers, WriterTo(s, "idle"), audit' = audit
    PROVE  /\ writer' \in [Servers -> [at : Writing, i : Nat]]
           /\ \A t \in Servers : WriterPlaced(t)'
           /\ \A t \in Servers : t # s => writer'[t] = writer[t]
           /\ \A t \in Servers : Rotating(t)' => Rotating(t) /\ t # s
           /\ \A i : Hole(i)' => Hole(i)
           /\ ~Rotating(s) => \A i : Hole(i) => Hole(i)'
<1>1. writer' = [writer EXCEPT ![s] = [at |-> "idle", i |-> 0]]
  BY DEF WriterTo
<1>2. /\ writer' \in [Servers -> [at : Writing, i : Nat]]
      /\ writer'[s].at = "idle"
      /\ \A t \in Servers : t # s => writer'[t] = writer[t]
  <2>1. "idle" \in Writing /\ 0 \in Nat
    BY DEF Writing
  <2> QED
    BY <1>1, <2>1, WriterMoves, Zenon
<1>3. \A t \in Servers : WriterPlaced(t)'
  BY <1>2 DEF LogInv, WriterPlaced, At
<1>4. /\ \A t \in Servers : Rotating(t)' => Rotating(t) /\ t # s
      /\ \A i : Hole(i)' => Hole(i)
      /\ ~Rotating(s) => \A i : Hole(i) => Hole(i)'
  BY <1>2 DEF Rotating, Hole, HoleOf, At
<1> QED
  BY <1>2, <1>3, <1>4

\* A rotation that stops half-way: the files stay as they are.
LEMMA RestLog ==
    ASSUME LogInv, NEW s \in Servers, WriterTo(s, "idle"),
           UNCHANGED <<audit, live, slot, appended, disturbed>>, cutShort' = (cutShort \/ Rotating(s))
    PROVE  LogInv'
<1>1. ASSUME ~disturbed PROVE (RotatesAlone /\ \E b : CutAt(b))'
  <2>1. RotatesAlone'
    BY <1>1, WriterRests DEF LogInv, RotatesAlone, OverLimit
  <2>2. PICK b : CutAt(b)
    BY <1>1 DEF LogInv
  <2>3. /\ \A i : Hole(i)' => Hole(i)
        /\ ~cutShort' => \A i : Hole(i) => Hole(i)'
    BY WriterRests
  <2>4. CutAt(b)'
    BY <2>2, <2>3 DEF CutAt
  <2> QED
    BY <2>1, <2>4
<1> QED
  BY <1>1, WriterRests DEF LogInv

LEMMA RotationFailsLog ==
    ASSUME LogInv, NEW s \in Servers, RotationFails(s)
    PROVE  LogInv'
<1>1. /\ WriterTo(s, "idle") /\ UNCHANGED <<audit, live, slot, appended, disturbed>>
      /\ cutShort' = (cutShort \/ Rotating(s))
  BY DEF RotationFails
<1> QED
  BY <1>1, RestLog

LEMMA DiesLog ==
    ASSUME LogInv, NEW s \in Servers, Dies(s)
    PROVE  LogInv'
BY RestLog DEF Dies, LogDies

\* The live file becomes slot 1, the hole.
LEMMA RenameLiveLog ==
    ASSUME LogInv, EventInv, NEW s \in Servers, RenameLive(s)
    PROVE  LogInv'
<1> DEFINE keep == audit.keep
<1>1. /\ At(s, "rename") /\ live' = <<>> /\ WriterTo(s, "idle")
      /\ slot' = IF live = <<>> THEN slot ELSE [slot EXCEPT ![1] = live]
      /\ UNCHANGED <<audit, appended, disturbed, cutShort>>
  BY DEF RenameLive
<1>2. /\ keep \in Nat /\ keep > 0 /\ 1 \in 1 .. keep
      /\ slot = [i \in 1 .. keep |-> slot[i]]
  BY <1>1 DEF LogInv, WriterPlaced
<1>3. slot' = [i \in 1 .. keep |-> slot'[i]]
  BY <1>1, <1>2
<1> HIDE DEF keep
<1>4. ASSUME ~disturbed PROVE (RotatesAlone /\ \E b : CutAt(b))'
  <2>1. PICK b : CutAt(b)
    BY <1>4 DEF LogInv
  <2>2. Rotating(s) /\ OverLimit
    BY <1>1, <1>4 DEF Rotating, At, LogInv, RotatesAlone
  <2>3. \A t \in Servers : ~Rotating(t)'
    BY <1>1, <1>4, <2>2, WriterRests DEF LogInv, RotatesAlone
  <2>4. \A i : ~Hole(i)'
    BY <2>3 DEF Rotating, Hole, HoleOf, At
  <2>5. \A i : Hole(i) <=> i = 1
    BY <1>1, <1>4, <2>2, OwnHole DEF HoleOf, At
  <2>6. RotatesAlone'
    BY <2>3 DEF RotatesAlone
  <2>7. PICK S : appended \in Seq(S)
    BY DEF EventInv, LogTypes
  <2>8. /\ b \in [0 .. keep + 1 -> Nat] /\ b[0] = Len(appended)
        /\ \A i \in 0 .. keep : b[i + 1] <= b[i]
        /\ b[keep + 1] # 0 => audit.rotates
        /\ live = Piece(appended, b[1], b[0])
        /\ \A i \in 1 .. keep : slot[i] = Piece(appended, b[i + 1], b[i])
        /\ b[1] = b[1 + 1]
        /\ cutShort \/ \A i \in 1 .. keep : i = 1 \/ b[i] = 0 \/ b[i] > b[i + 1] + audit.maxLines
    BY <1>2, <2>1, <2>5 DEF CutAt, keep
  <2>9. /\ live \in Seq(S) /\ Len(live) = b[0] - b[1] /\ b[0] \in Nat /\ b[1] \in Nat
    <3>1. 0 \in 0 .. keep + 1 /\ 1 \in 0 .. keep + 1
      BY <1>2
    <3> QED
      BY <2>1, <2>7, <3>1, CutFacts DEF keep
  <2>10. audit.maxLines \in Nat /\ b[0] > b[1] + audit.maxLines /\ b[1] <= b[0]
    BY <2>2, <2>9 DEF OverLimit, LogInv
  <2>11. /\ slot'[1] = live /\ \A i \in 1 .. keep : i # 1 => slot'[i] = slot[i]
    <3>1. Len(live) # 0
      BY <2>9, <2>10
    <3>2. live # <<>>
      BY <2>9, <3>1, EmptySeq
    <3> QED
      BY <1>1, <1>2, <3>2
  <2>12. PICK nb : nb = [b EXCEPT ![1] = b[0]]
    OBVIOUS
  <2>13. /\ 1 \in 0 .. keep + 1 /\ 0 \in 0 .. keep + 1 /\ 1 + 1 \in 0 .. keep + 1 /\ 1 \in 0 .. keep
         /\ \A i \in 0 .. keep : i \in 0 .. keep + 1 /\ i + 1 \in 0 .. keep + 1 /\ (i # 0 => i + 1 # 1)
         /\ \A i \in 1 .. keep : i \in 0 .. keep /\ i # 0
         /\ keep + 1 # 1 /\ keep + 1 \in 0 .. keep + 1
    BY <1>2
  <2>14. /\ nb \in [0 .. keep + 1 -> Nat] /\ nb[1] = b[0]
         /\ \A i \in 0 .. keep + 1 : i # 1 => nb[i] = b[i]
    BY <2>8, <2>12, <2>13
  <2>15. nb[0] = b[0] /\ nb[1 + 1] = b[1] /\ nb[keep + 1] = b[keep + 1]
    BY <2>8, <2>13, <2>14
  <2>16. ASSUME NEW i \in 0 .. keep PROVE nb[i + 1] <= nb[i]
    <3>1. CASE i = 0
      BY <2>9, <2>14, <2>15, <3>1
    <3>2. CASE i = 1
      BY <2>9, <2>10, <2>14, <2>15, <3>2
    <3>3. CASE i # 0 /\ i # 1
      BY <2>8, <2>13, <2>14, <3>3
    <3> QED
      BY <3>1, <3>2, <3>3
  <2>17. ASSUME NEW i \in 1 .. keep PROVE slot'[i] = Piece(appended, nb[i + 1], nb[i])
    <3>1. CASE i = 1
      BY <2>8, <2>11, <2>14, <2>15, <3>1
    <3>2. CASE i # 1
      BY <2>8, <2>11, <2>13, <2>14, <3>2
    <3> QED
      BY <3>1, <3>2
  <2>18. cutShort \/ \A i \in 1 .. keep : nb[i] = 0 \/ nb[i] > nb[i + 1] + audit.maxLines
    <3>1. SUFFICES ASSUME ~cutShort, NEW i \in 1 .. keep
          PROVE  nb[i] = 0 \/ nb[i] > nb[i + 1] + audit.maxLines
      OBVIOUS
    <3>2. CASE i = 1
      BY <2>10, <2>14, <2>15, <3>2
    <3>3. CASE i # 1
      BY <2>8, <2>13, <2>14, <3>1, <3>3
    <3> QED
      BY <3>2, <3>3
  <2>19. Piece(appended, nb[1], nb[0]) = <<>>
    BY <2>7, <2>8, <2>9, <2>14, <2>15, PieceEmpty
  <2>20. CutAt(nb)'
    BY <1>1, <2>4, <2>8, <2>14, <2>15, <2>16, <2>17, <2>18, <2>19 DEF CutAt, keep
  <2> QED
    BY <2>6, <2>20
<1> QED
  BY <1>1, <1>3, <1>4, WriterRests DEF LogInv, keep

\* Nothing is kept: the live file goes.
LEMMA RemoveLiveLog ==
    ASSUME LogInv, EventInv, NEW s \in Servers, RemoveLive(s)
    PROVE  LogInv'
<1>1. /\ At(s, "remove") /\ live' = <<>> /\ WriterTo(s, "idle")
      /\ UNCHANGED <<audit, slot, appended, disturbed, cutShort>>
  BY DEF RemoveLive
<1>2. audit.keep = 0 /\ 1 .. audit.keep = {} /\ 0 .. audit.keep = {0} /\ 0 .. audit.keep + 1 = {0, 1} /\ audit.keep + 1 = 1
  BY <1>1 DEF LogInv, WriterPlaced
<1>3. ASSUME ~disturbed PROVE (RotatesAlone /\ \E b : CutAt(b))'
  <2>1. PICK b : CutAt(b)
    BY <1>3 DEF LogInv
  <2>2. Rotating(s) /\ OverLimit
    BY <1>1, <1>3 DEF Rotating, At, LogInv, RotatesAlone
  <2>3. \A t \in Servers : ~Rotating(t)'
    BY <1>1, <1>3, <2>2, WriterRests DEF LogInv, RotatesAlone
  <2>4. RotatesAlone'
    BY <2>3 DEF RotatesAlone
  <2>5. PICK S : appended \in Seq(S)
    BY DEF EventInv, LogTypes
  <2>6. b \in [{0, 1} -> Nat] /\ b[0] = Len(appended) /\ b[0] \in Nat
    BY <1>2, <2>1 DEF CutAt
  <2>7. PICK nb : nb = [b EXCEPT ![1] = b[0]]
    OBVIOUS
  <2>8. nb \in [{0, 1} -> Nat] /\ nb[0] = Len(appended) /\ nb[1] = nb[0] /\ nb[0] \in Nat /\ nb[0 + 1] <= nb[0]
    BY <2>6, <2>7
  <2>9. Piece(appended, nb[1], nb[0]) = <<>>
    BY <2>5, <2>8, PieceEmpty
  <2>10. CutAt(nb)'
    BY <1>1, <1>2, <2>2, <2>8, <2>9 DEF CutAt, OverLimit
  <2> QED
    BY <2>4, <2>10
<1> QED
  BY <1>1, <1>3, WriterRests DEF LogInv

LEMMA InitLog == Init => LogInv
<1> SUFFICES ASSUME Init PROVE LogInv
  OBVIOUS
<1> DEFINE keep == audit.keep
<1>1. /\ scene \in Scenes /\ audit = scene.audit /\ live = <<>> /\ appended = <<>>
      /\ slot = [i \in 1 .. keep |-> <<>>]
      /\ writer = [s \in Servers |-> [at |-> "idle", i |-> 0]]
      /\ disturbed = FALSE
  BY DEF Init, LogInit
<1>2. audit.rotates \in BOOLEAN /\ keep \in Nat /\ audit.maxLines \in Nat
  BY <1>1, ScenesAssumption
<1>3. writer \in [Servers -> [at : Writing, i : Nat]] /\ \A s \in Servers : At(s, "idle")
  BY <1>1 DEF Writing, At
<1>4. \A s \in Servers : WriterPlaced(s) /\ ~Rotating(s) /\ \A i : ~HoleOf(s, i)
  BY <1>3 DEF WriterPlaced, Rotating, HoleOf, At
<1> HIDE DEF keep
<1>5. PICK b : b = [i \in 0 .. keep + 1 |-> 0]
  OBVIOUS
<1>6. /\ b \in [0 .. keep + 1 -> Nat] /\ b[0] = 0 /\ b[1] = 0 /\ b[keep + 1] = 0
      /\ \A i \in 0 .. keep : b[i] = 0 /\ b[i + 1] = 0
  <2>1. /\ 0 \in 0 .. keep + 1 /\ 1 \in 0 .. keep + 1 /\ keep + 1 \in 0 .. keep + 1
        /\ \A i \in 0 .. keep : i \in 0 .. keep + 1 /\ i + 1 \in 0 .. keep + 1
    BY <1>2
  <2> QED
    BY <1>5, <2>1
<1>7. <<>> \in Seq({}) /\ Len(<<>>) = 0 /\ Piece(<<>>, 0, 0) = <<>>
  <2>1. <<>> \in Seq({}) /\ Len(<<>>) = 0
    BY EmptySeq
  <2>2. 0 \in Nat /\ 0 <= 0 /\ 0 <= Len(<<>>)
    BY <2>1
  <2> QED
    BY <2>1, <2>2, PieceEmpty, Zenon
<1>8. CutAt(b)
  <2>1. 1 .. keep \subseteq 0 .. keep
    BY <1>2
  <2> QED
    BY <1>1, <1>6, <1>7, <2>1 DEF CutAt, keep
<1>9. slot = [i \in 1 .. keep |-> slot[i]]
  BY <1>1
<1> QED
  BY <1>2, <1>3, <1>4, <1>8, <1>9 DEF LogInv, RotatesAlone, keep

LEMMA NextLog ==
    ASSUME AccessInv, EventInv, LogInv, [Next]_vars
    PROVE  LogInv'
<1>1. CASE UNCHANGED vars
  BY <1>1, SameLog DEF vars, logVars
<1>2. ASSUME NEW c \in Calls, NewCall(c) \/ CallStep(c) PROVE LogInv'
  <2>1. UNCHANGED <<audit, live, slot, writer, appended, disturbed, cutShort>>
    <3>1. CASE NewCall(c)
      BY <3>1 DEF NewCall, Call, Continue, logVars
    <3>2. CASE CallStep(c)
      BY <3>2, CallGoes DEF Goes, Continue, Settle, logVars
    <3> QED
      BY <1>2, <3>1, <3>2
  <2> QED
    BY <2>1, SameLog
<1>3. ASSUME NEW s \in Servers, LogStep(s) \/ LogFault(s) PROVE LogInv'
  <2>1. CASE AppendFails(s)
    <3>1. UNCHANGED <<audit, live, slot, writer, appended, disturbed, cutShort>>
      BY <2>1 DEF AppendFails
    <3> QED
      BY <3>1, SameLog
  <2> QED
    BY <1>3, <2>1, AppendLineLog, StatLog, DropOldestLog, ShiftSlotLog, RenameLiveLog, RemoveLiveLog,
       RotationFailsLog, ShiftFailsLog DEF LogStep, LogFault, WriterStep
<1>4. ASSUME Other PROVE LogInv'
  <2>1. UNCHANGED logVars
    BY <1>4 DEF Other, OwnerArranges, OwnerDeletes, BoxChanges, FileChanges
  <2> QED
    BY <2>1, SameLog DEF logVars
<1> QED
  BY <1>1, <1>2, <1>3, <1>4, DiesLog DEF Next

\* The lengths of the files: between two cuts with full files only, at least
\* that many full files.
LEMMA FullFiles ==
    ASSUME EventInv, LogInv, NEW b, CutAt(b), ~disturbed, ~cutShort, b[audit.keep + 1] # 0
    PROVE  b[0] >= b[audit.keep + 1] + audit.keep * (audit.maxLines + 1)
<1> DEFINE keep == audit.keep
           full == audit.maxLines + 1
<1>1. keep \in Nat /\ full \in Nat /\ audit.maxLines \in Nat
  BY DEF LogInv
<1>2. /\ b \in [0 .. keep + 1 -> Nat] /\ b[0] = Len(appended)
      /\ \A i \in 0 .. keep : b[i + 1] <= b[i]
      /\ \A i \in 1 .. keep : Hole(i) => b[i] = b[i + 1]
      /\ \A i \in 1 .. keep : Hole(i) \/ b[i] = 0 \/ b[i] > b[i + 1] + audit.maxLines
  BY DEF CutAt
<1>3. \A i \in 0 .. keep + 1 : b[i] \in Nat
  BY <1>2
<1> HIDE DEF keep, full
<1>4. ASSUME NEW i \in 1 .. keep PROVE b[i] # 0
  <2>1. i \in Nat /\ keep + 1 \in Nat /\ i <= keep + 1
    BY <1>1
  <2>2. \A k \in i .. keep + 1 : k \in 0 .. keep + 1 /\ (k < keep + 1 => k \in 0 .. keep)
    BY <1>1
  <2>3. /\ \A k \in i .. keep + 1 : b[k] \in Nat
        /\ \A k \in i .. keep + 1 : k < keep + 1 => b[k + 1] <= b[k]
    BY <1>2, <1>3, <2>2
  <2>4. \A k \in i .. keep + 1 : k < keep + 1 => b[k] >= b[k + 1] + 0
    <3>1. \A k \in i .. keep + 1 : k < keep + 1 => k + 1 \in i .. keep + 1
      BY <1>1, <2>1
    <3> QED
      BY <2>3, <3>1
  <2>5. b[i] >= b[keep + 1] + ((keep + 1) - i) * 0
    BY <2>1, <2>3, <2>4, Falls
  <2>6. ((keep + 1) - i) * 0 = 0 /\ b[i] \in Nat /\ b[keep + 1] \in Nat /\ b[keep + 1] # 0
    <3>1. i \in 0 .. keep + 1 /\ keep + 1 \in 0 .. keep + 1
      BY <1>1
    <3> QED
      BY <1>3, <2>1, <3>1 DEF keep
  <2> QED
    BY <2>5, <2>6
<1>5. ASSUME NEW i \in 1 .. keep, ~Hole(i) PROVE b[i] >= b[i + 1] + full
  <2>1. b[i] > b[i + 1] + audit.maxLines
    BY <1>2, <1>4, <1>5
  <2>2. b[i] \in Nat /\ b[i + 1] \in Nat
    <3>1. i \in 0 .. keep + 1 /\ i + 1 \in 0 .. keep + 1
      BY <1>1
    <3> QED
      BY <1>3, <3>1
  <2> QED
    BY <1>1, <2>1, <2>2 DEF full
<1>6. /\ 0 \in 0 .. keep + 1 /\ 1 \in 0 .. keep + 1 /\ 0 \in 0 .. keep /\ keep + 1 \in 0 .. keep + 1
      /\ 0 + 1 = 1 /\ 1 \in Nat /\ 0 \in Nat /\ keep + 1 \in Nat
  BY <1>1
<1>7. CASE \A i \in 1 .. keep : ~Hole(i)
  <2>1. 1 <= keep + 1 /\ \A i \in 1 .. keep + 1 : i \in 0 .. keep + 1 /\ (i < keep + 1 => i \in 1 .. keep)
    BY <1>1
  <2>2. /\ \A i \in 1 .. keep + 1 : b[i] \in Nat
        /\ \A i \in 1 .. keep + 1 : i < keep + 1 => b[i] >= b[i + 1] + full
    BY <1>3, <1>5, <1>7, <2>1
  <2>3. b[1] >= b[keep + 1] + ((keep + 1) - 1) * full
    BY <1>1, <1>6, <2>1, <2>2, Falls
  <2>4. (keep + 1) - 1 = keep /\ keep * full \in Nat
    BY <1>1
  <2>5. b[1] >= b[keep + 1] + keep * full
    BY <2>3, <2>4
  <2>6. b[1] <= b[0] /\ b[1] \in Nat /\ b[0] \in Nat /\ b[keep + 1] \in Nat
    BY <1>2, <1>3, <1>6
  <2>7. b[0] >= b[keep + 1] + keep * full
    BY <2>4, <2>5, <2>6
  <2> QED
    BY <2>7 DEF keep, full
<1>8. ASSUME NEW h \in 1 .. keep, Hole(h) PROVE b[0] >= b[keep + 1] + keep * full
  <2>1. PICK s \in Servers : HoleOf(s, h)
    BY <1>8 DEF Hole
  <2>2. Rotating(s) /\ OverLimit
    BY <2>1 DEF HoleOf, Rotating, At, LogInv, RotatesAlone
  <2>3. \A i : Hole(i) <=> i = h
    BY <2>1, <2>2, OwnHole DEF HoleOf, At
  <2>4. b[0] >= b[0 + 1] + full
    <3>1. PICK S : appended \in Seq(S)
      BY DEF EventInv, LogTypes
    <3>2. Len(live) = b[0] - b[1]
      BY <3>1, CutFacts
    <3>3. b[0] \in Nat /\ b[1] \in Nat
      BY <1>3, <1>6
    <3>4. b[0] - b[1] > audit.maxLines
      BY <2>2, <3>2 DEF OverLimit
    <3> QED
      BY <1>1, <1>6, <3>3, <3>4 DEF full
  <2>5. /\ h \in Nat /\ 0 <= h /\ h + 1 \in Nat /\ h + 1 <= keep + 1 /\ h <= keep
        /\ \A i \in 0 .. h : i \in 0 .. keep + 1 /\ (i < h /\ i # 0 => i \in 1 .. keep /\ i # h)
        /\ \A i \in h + 1 .. keep + 1 : i \in 0 .. keep + 1 /\ (i < keep + 1 => i \in 1 .. keep /\ i # h)
    BY <1>1
  <2>6. b[0] >= b[h] + (h - 0) * full
    <3>1. \A i \in 0 .. h : b[i] \in Nat
      BY <1>3, <2>5
    <3>2. \A i \in 0 .. h : i < h => b[i] >= b[i + 1] + full
      BY <1>5, <2>3, <2>4, <2>5
    <3> QED
      BY <1>1, <1>6, <2>5, <3>1, <3>2, Falls
  <2>7. b[h + 1] >= b[keep + 1] + ((keep + 1) - (h + 1)) * full
    <3>1. \A i \in h + 1 .. keep + 1 : b[i] \in Nat
      BY <1>3, <2>5
    <3>2. \A i \in h + 1 .. keep + 1 : i < keep + 1 => b[i] >= b[i + 1] + full
      BY <1>5, <2>3, <2>5
    <3> QED
      BY <1>1, <1>6, <2>5, <3>1, <3>2, Falls
  <2>8. h - 0 = h /\ (keep + 1) - (h + 1) = keep - h /\ keep - h \in Nat
    BY <1>1, <2>5
  <2>9. h * full + (keep - h) * full = keep * full /\ h * full \in Nat /\ (keep - h) * full \in Nat /\ keep * full \in Nat
    <3>1. \A x, y, z \in Nat : x * z + y * z = (x + y) * z /\ x * z \in Nat
      OBVIOUS
    <3>2. h + (keep - h) = keep
      BY <1>1, <2>5
    <3> QED
      BY <1>1, <2>5, <2>8, <3>1, <3>2
  <2>10. b[h] = b[h + 1] /\ b[h] \in Nat /\ b[0] \in Nat /\ b[keep + 1] \in Nat
    <3>1. h \in 0 .. keep + 1
      BY <2>5
    <3> QED
      BY <1>2, <1>3, <1>6, <1>8, <3>1
  <2>11. /\ b[0] >= b[h] + h * full
         /\ b[h] >= b[keep + 1] + (keep - h) * full
    BY <2>6, <2>7, <2>8, <2>10
  <2>12. \A p, q, r, u, v, w \in Nat : p >= q + u /\ q >= r + v /\ u + v = w => p >= r + w
    OBVIOUS
  <2> QED
    BY <2>9, <2>10, <2>11, <2>12
<1> QED
  BY <1>7, <1>8 DEF keep, full

\* The files on disk, the oldest first, are one piece of what was appended, up
\* to its end.
LEMMA DiskIsPiece ==
    ASSUME LogInv, NEW b, CutAt(b), NEW S, appended \in Seq(S)
    PROVE  OnDisk = Piece(appended, b[audit.keep + 1], Len(appended))
<1> DEFINE keep == audit.keep
<1>1. /\ keep \in Nat /\ slot = [i \in 1 .. keep |-> slot[i]]
      /\ b[0] = Len(appended) /\ live = Piece(appended, b[1], b[0])
      /\ \A i \in 1 .. keep : slot[i] = Piece(appended, b[i + 1], b[i])
      /\ \A i \in 0 .. keep : b[i + 1] <= b[i]
  BY DEF LogInv, CutAt
<1>2. \A i \in 0 .. keep + 1 : b[i] \in Nat /\ b[i] <= Len(appended)
  BY CutFacts
<1> HIDE DEF keep
<1>3. /\ \A i \in 1 .. keep + 1 : i \in 0 .. keep + 1
      /\ 1 .. keep \subseteq 0 .. keep /\ 1 \in 0 .. keep + 1 /\ keep + 1 \in 0 .. keep + 1
      /\ keep + 1 \in 1 .. keep + 1 /\ 1 \in 1 .. keep + 1 /\ 0 \in 0 .. keep /\ 0 + 1 = 1
  BY <1>1
<1>4. /\ \A i \in 1 .. keep + 1 : b[i] \in Nat
      /\ \A i \in 1 .. keep : b[i + 1] <= b[i]
      /\ b[1] <= Len(appended) /\ b[1] \in Nat /\ b[keep + 1] \in Nat /\ b[1] <= b[0]
  BY <1>1, <1>2, <1>3
<1>5. slot = [i \in 1 .. keep |-> Piece(appended, b[i + 1], b[i])]
  BY <1>1, Zenon
<1>6. FlattenSeq(Reverse(slot)) = Piece(appended, b[keep + 1], b[1])
  BY <1>1, <1>4, <1>5, PiecesJoin
<1>7. b[keep + 1] <= b[1]
  <2>1. /\ 1 \in Nat /\ keep + 1 \in Nat /\ 1 <= keep + 1
        /\ \A i \in 1 .. keep + 1 : i < keep + 1 => i \in 1 .. keep /\ i + 1 \in 1 .. keep + 1
    BY <1>1
  <2>2. \A i \in 1 .. keep + 1 : i < keep + 1 => b[i] >= b[i + 1] + 0
    BY <1>4, <2>1
  <2>3. b[1] >= b[keep + 1] + ((keep + 1) - 1) * 0
    BY <1>4, <2>1, <2>2, Falls
  <2>4. ((keep + 1) - 1) * 0 = 0
    BY <2>1
  <2> QED
    BY <1>4, <2>3, <2>4
<1>8. Len(appended) \in Nat /\ Len(appended) <= Len(appended)
  OBVIOUS
<1>9. Piece(appended, b[keep + 1], b[1]) \o Piece(appended, b[1], Len(appended)) = Piece(appended, b[keep + 1], Len(appended))
  BY <1>4, <1>7, <1>8, PieceJoin
<1> QED
  BY <1>1, <1>6, <1>9 DEF OnDisk, keep

LEMMA NewestKept ==
    ASSUME EventInv, LogInv
    PROVE  LogKeepsNewest
<1> SUFFICES ASSUME ~disturbed
             PROVE  /\ IsSuffix(OnDisk, appended)
                    /\ \/ OnDisk = appended
                       \/ audit.rotates /\ cutShort
                       \/ audit.rotates /\ Len(OnDisk) >= audit.keep * (audit.maxLines + 1)
  BY DEF LogKeepsNewest
<1>1. PICK b : CutAt(b)
  BY DEF LogInv
<1>2. PICK S : appended \in Seq(S)
  BY DEF EventInv, LogTypes
<1> DEFINE gone == b[audit.keep + 1]
<1>3. OnDisk = Piece(appended, gone, Len(appended))
  BY <1>1, <1>2, DiskIsPiece
<1>4. gone \in Nat /\ gone <= Len(appended) /\ Len(appended) \in Nat
  <2>1. audit.keep + 1 \in 0 .. audit.keep + 1
    BY DEF LogInv
  <2> QED
    BY <1>1, <1>2, <2>1, CutFacts
<1>5. b[0] = Len(appended) /\ (gone # 0 => audit.rotates)
  BY <1>1 DEF CutAt
<1>6. IsSuffix(OnDisk, appended)
  BY <1>2, <1>3, <1>4, PieceSuffix
<1>7. CASE gone = 0
  BY <1>2, <1>3, <1>6, <1>7, PieceAll
<1>8. CASE gone # 0 /\ ~cutShort
  <2>1. b[0] >= gone + audit.keep * (audit.maxLines + 1)
    BY <1>1, <1>8, FullFiles
  <2>2. Len(OnDisk) = Len(appended) - gone
    <3>1. Len(appended) <= Len(appended)
      BY <1>4
    <3> QED
      BY <1>2, <1>3, <1>4, <3>1, PieceSeq
  <2>3. audit.keep * (audit.maxLines + 1) \in Nat
    BY DEF LogInv
  <2>4. Len(OnDisk) >= audit.keep * (audit.maxLines + 1)
    BY <1>4, <1>5, <2>1, <2>2, <2>3
  <2> QED
    BY <1>5, <1>6, <1>8, <2>4
<1> QED
  BY <1>5, <1>6, <1>7, <1>8

\* The log on disk is the newest part of what was ever appended, in order and
\* without a gap, for any number of servers, files to keep and lines in a file,
\* whichever rotations end half-way; and unless one did, it is all that was
\* appended or as long as `keep` full files (writeAuditEvent, rotateIfNeeded).
THEOREM LogIsNewest == Spec => []LogKeepsNewest
<1>1. AccessInv /\ EventInv /\ [Next]_vars => EventInv'
  BY NextEvents
<1>2. AccessInv /\ EventInv /\ LogInv /\ [Next]_vars => LogInv'
  BY NextLog
<1>3. EventInv /\ LogInv => LogKeepsNewest
  BY NewestKept
<1> QED
  BY InitEvents, InitLog, AccessInvariant, <1>1, <1>2, <1>3, PTL DEF Spec

-----------------------------------------------------------------------------
\* What a client is told

\* What has been carried out for a call, by where it stands.
Carries(c) ==
    /\ moved[c] \in Nat
    /\ at[c] \notin Ended \cup {"move"} => carried[c] = <<>> /\ moved[c] = 0
    /\ Handler(c).flow = "moveEmails" =>
         /\ moved[c] <= Len(carried[c])
         /\ ~fault[c] => moved[c] = Len(carried[c])

\* ReportsTruth, of one call.
Told(c) ==
    /\ report[c] = "ok" /\ Changes(c) /\ Handler(c).flow # "moveEmails" => Len(carried[c]) = 1
    /\ report[c] = "ok" /\ Handler(c).flow = "moveEmails" => moved[c] \in 1 .. Len(carried[c])
    /\ report[c] = "preview" => carried[c] = <<>>
    /\ report[c] \in {"refusal", "error"} /\ ~fault[c] => carried[c] = <<>>

Truthful(c) == Carries(c) /\ (at[c] = "done" => Told(c))

TruthInv ==
    /\ report = [c \in Calls |-> report[c]]
    /\ fault = [c \in Calls |-> fault[c]]
    /\ moved = [c \in Calls |-> moved[c]]
    /\ received = [c \in Calls |-> received[c]]
    /\ \A c \in Calls : Truthful(c)

\* What is said of one call changes at most for that one.
Alone(f, g, c) == g = f \/ \E v : g = [f EXCEPT ![c] = v]

LEMMA OneChanges ==
    ASSUME NEW f, NEW g, NEW c \in Calls, f = [d \in Calls |-> f[d]], Alone(f, g, c)
    PROVE  /\ g = [d \in Calls |-> g[d]]
           /\ \A d \in Calls : d # c => g[d] = f[d]
BY DEF Alone

LEMMA StageAndReport ==
    ASSUME NEW c, Goes(c)
    PROVE  /\ Alone(at, at', c) /\ Alone(report, report', c)
BY DEF Goes, Settle, Continue, Step, Alone

LEMMA TruthOfOthers ==
    ASSUME AccessInv, TruthInv, NEW c \in Calls, scene' = scene, Goes(c),
           Alone(carried, carried', c), Alone(fault, fault', c), Alone(moved, moved', c),
           Alone(received, received', c), Truthful(c)'
    PROVE  TruthInv'
<1>1. /\ report' = [d \in Calls |-> report'[d]]
      /\ fault' = [d \in Calls |-> fault'[d]]
      /\ moved' = [d \in Calls |-> moved'[d]]
      /\ received' = [d \in Calls |-> received'[d]]
  BY StageAndReport, OneChanges DEF TruthInv
<1>2. ASSUME NEW d \in Calls, d # c PROVE Truthful(d)'
  <2>1. /\ at'[d] = at[d] /\ report'[d] = report[d] /\ fault'[d] = fault[d]
        /\ moved'[d] = moved[d] /\ carried'[d] = carried[d]
    <3>1. Alone(at, at', c) /\ Alone(report, report', c)
      BY StageAndReport
    <3>2. \A f, g : f = [e \in Calls |-> f[e]] /\ Alone(f, g, c) => g[d] = f[d]
      BY <1>2, OneChanges
    <3> QED
      BY <3>1, <3>2 DEF TruthInv, AccessInv
  <2>2. Truthful(d)
    BY DEF TruthInv
  <2>3. Handler(d)' = Handler(d) /\ Changes(d)' = Changes(d)
    BY DEF Changes, Handler, ToolFor, asked
  <2> QED
    BY <2>1, <2>2, <2>3 DEF Truthful, Carries, Told
<1> QED
  BY <1>1, <1>2 DEF TruthInv

\* A call that has changed nothing yet, and does not by this step, is told the
\* truth, unless it is told that the change was made.
LEMMA TruthOfReads ==
    ASSUME AccessInv, TruthInv, NEW c \in Calls, scene' = scene, Goes(c),
           at[c] \notin Ended \cup {"move"},
           UNCHANGED <<carried, moved, received>>, Alone(fault, fault', c),
           at'[c] = "done" /\ report'[c] = "ok" => ~Changes(c) /\ Handler(c).flow # "moveEmails"
    PROVE  TruthInv'
<1>1. carried'[c] = <<>> /\ moved'[c] = 0
  BY DEF TruthInv, Truthful, Carries
<1>2. Len(carried'[c]) = 0
  BY <1>1, EmptySeq
<1>3. Handler(c)' = Handler(c) /\ Changes(c)' = Changes(c)
  BY DEF Changes, Handler, ToolFor, asked
<1>4. Carries(c)'
  BY <1>1, <1>2 DEF Carries
<1>5. at'[c] = "done" => Told(c)'
  BY <1>1, <1>3 DEF Told
<1>6. Truthful(c)'
  BY <1>4, <1>5 DEF Truthful
<1> QED
  BY <1>6, TruthOfOthers DEF Alone

\* A call that acts is told the truth, if success is told of a change only that
\* was made, and anything else of an answer only that is not a clean one.
LEMMA TruthOfActs ==
    ASSUME AccessInv, TruthInv, NEW c \in Calls, scene' = scene, Goes(c),
           at[c] \notin Ended \cup {"move"}, Handler(c).flow # "moveEmails",
           NEW answer \in Answers, NEW done \in MayHaveDone(answer), NEW faithful, Blame(c, answer, faithful),
           UNCHANGED <<moved>>, Alone(received, received', c),
           \/ carried' = carried
           \/ done /\ at'[c] \in Ended /\ \E change : Did(c, change),
           at'[c] = "done" => report'[c] # "preview",
           at'[c] = "done" /\ report'[c] = "ok" /\ Changes(c) => \E change : Did(c, change),
           at'[c] = "done" /\ report'[c] # "ok" => answer # "ok"
    PROVE  TruthInv'
<1>1. carried[c] = <<>> /\ moved'[c] = 0
  BY DEF TruthInv, Truthful, Carries
<1>2. Handler(c)' = Handler(c) /\ Changes(c)' = Changes(c)
  BY DEF Changes, Handler, ToolFor, asked
<1>3. ASSUME NEW change, Did(c, change) PROVE Len(carried'[c]) = 1
  <2>1. carried'[c] = Append(carried[c], change)
    BY <1>3 DEF Did, AccessInv
  <2>2. carried[c] \in Seq({change}) /\ Len(carried[c]) = 0
    BY <1>1, EmptySeq
  <2> QED
    BY <2>1, <2>2, AppendProperties
<1>4. carried'[c] = <<>> \/ done
  BY <1>1
<1>5. fault'[c] <=> (fault[c] \/ answer \notin {"ok", "refused"} \/ (answer = "refused" /\ faithful))
  BY DEF Blame, TruthInv
<1>6. answer = "refused" => ~done
  BY DEF MayHaveDone
<1>7. Alone(carried, carried', c) /\ Alone(fault, fault', c) /\ Alone(moved, moved', c)
  BY DEF Alone, Did, Blame
<1>8. Carries(c)'
  BY <1>1, <1>2 DEF Carries
<1>9. at'[c] = "done" => Told(c)'
  BY <1>2, <1>3, <1>4, <1>5, <1>6 DEF Told
<1>10. Truthful(c)'
  BY <1>8, <1>9 DEF Truthful
<1> QED
  BY <1>7, <1>10, TruthOfOthers

LEMMA BlameAlone ==
    ASSUME NEW c, NEW answer, NEW faithful, Blame(c, answer, faithful)
    PROVE  Alone(fault, fault', c)
BY DEF Blame, Alone

LEMMA SettleSays ==
    ASSUME AccessInv, TruthInv, NEW c \in Calls, NEW r, Settle(c, r)
    PROVE  at'[c] = "done" /\ report'[c] = r
BY DEF Settle, Step, AccessInv, TruthInv

LEMMA ContinueSays ==
    ASSUME AccessInv, NEW c \in Calls, NEW s, Continue(c, s)
    PROVE  at'[c] = s
BY DEF Continue, Step, AccessInv

LEMMA RejectedSays ==
    ASSUME AccessInv, TruthInv, NEW c \in Calls, NEW answer, Rejected(c, answer)
    PROVE  at'[c] = "stuck" \/ (at'[c] = "done" /\ report'[c] = "error")
BY SettleSays, ContinueSays DEF Rejected

LEMMA LookTruth ==
    ASSUME AccessInv, TruthInv, NEW c \in Calls, TurnDown(c) \/ NoToken(c) \/ ItemLook(c),
           UNCHANGED <<folderVars, mailVars, uploadVars>>
    PROVE  TruthInv'
<1>1. /\ UNCHANGED <<carried, moved, received>>
      /\ at[c] \notin Ended \cup {"move"}
  BY DEF TurnDown, NoToken, ItemLook, folderVars, uploadVars, Ended
<1>2. Goes(c) /\ scene' = scene
  BY ItemGoes DEF ItemStep
<1>3. Alone(fault, fault', c)
  BY BlameAlone DEF TurnDown, NoToken, ItemLook, Alone
<1>4. at'[c] = "done" => report'[c] # "ok"
  <2>1. CASE TurnDown(c) \/ NoToken(c)
    BY <2>1, SettleSays DEF TurnDown, NoToken
  <2>2. CASE ItemLook(c)
    <3>1. \/ \E answer : Rejected(c, answer)
          \/ Settle(c, "error") \/ Settle(c, "preview")
          \/ Continue(c, "act")
      BY <2>2 DEF ItemLook
    <3> QED
      BY <3>1, RejectedSays, SettleSays, ContinueSays
  <2> QED
    BY <2>1, <2>2
<1> QED
  BY <1>1, <1>2, <1>3, <1>4, TruthOfReads

LEMMA WalkTruth ==
    ASSUME AccessInv, TruthInv, NEW c \in Calls, NEW p, ListChildren(c, p), UNCHANGED uploadVars,
           Goes(c)
    PROVE  TruthInv'
<1>1. at[c] = "walk" /\ UNCHANGED <<scene, carried, moved>>
  BY DEF ListChildren
<1>2. received' = received
  BY DEF uploadVars
<1>3. Alone(fault, fault', c)
  BY BlameAlone DEF ListChildren
<1>4. Handler(c).flow \in Walking
  BY <1>1, InCallFacts DEF PlacedAt
<1>5. \/ \E listed : Resolved(c, listed)
      \/ Settle(c, "refusal") \/ Settle(c, "error")
      \/ Continue(c, "walk") \/ Continue(c, "stuck")
  BY DEF ListChildren
<1>6. ASSUME NEW listed, Resolved(c, listed)
      PROVE  at'[c] = "done" /\ report'[c] = "ok" => Handler(c).flow = "listFolders"
  <2>1. \A id, stage : Found(c, id, stage) => Continue(c, stage)
    BY DEF Found
  <2>2. CASE Handler(c).flow \in {"createFolder", "createRule"}
    <3>1. Settle(c, "refusal") \/ Continue(c, "post") \/ Continue(c, "walk")
      BY <1>6, <2>1, <2>2 DEF Resolved
    <3> QED
      BY <3>1, SettleSays, ContinueSays
  <2>3. CASE Handler(c).flow \in {"renameFolder", "deleteFolder", "moveEmails", "list"}
    <3>1. \/ Settle(c, "error") \/ Settle(c, "preview")
          \/ Continue(c, CASE Handler(c).flow = "moveEmails" -> "reach"
                            [] Handler(c).flow = "list" -> "page" [] OTHER -> "post")
      BY <1>6, <2>1, <2>3 DEF Resolved
    <3> QED
      BY <2>3, <3>1, SettleSays, ContinueSays
  <2> QED
    BY <1>4, <2>2, <2>3 DEF Walking
<1>7. at'[c] = "done" /\ report'[c] = "ok" => Handler(c).flow = "listFolders"
  BY <1>5, <1>6, SettleSays, ContinueSays
<1> QED
  BY <1>1, <1>2, <1>3, <1>7, TruthOfReads DEF Changes, Ended

LEMMA ListRulesTruth ==
    ASSUME AccessInv, TruthInv, NEW c \in Calls, ListRules(c), UNCHANGED uploadVars, Goes(c)
    PROVE  TruthInv'
<1>1. at[c] = "rules" /\ UNCHANGED <<scene, carried, moved>>
  BY DEF ListRules
<1>2. received' = received
  BY DEF uploadVars
<1>3. Alone(fault, fault', c)
  BY BlameAlone DEF ListRules
<1>4. Handler(c).flow \in {"listRules", "createRule", "reorderRule"}
  BY <1>1, InCallFacts DEF PlacedAt
<1>5. \/ \E s \in {"stuck", "post", "walk"} : Continue(c, s)
      \/ Handler(c).flow = "listRules" /\ \E r : Settle(c, r)
      \/ Settle(c, "error")
  BY <1>4 DEF ListRules
<1>6. at'[c] = "done" /\ report'[c] = "ok" => Handler(c).flow = "listRules"
  BY <1>5, SettleSays, ContinueSays
<1> QED
  BY <1>1, <1>2, <1>3, <1>6, TruthOfReads DEF Changes, Ended

LEMMA StartTruth ==
    ASSUME AccessInv, TruthInv, NEW c \in Calls, UNCHANGED uploadVars, Goes(c),
           Authenticated(c) \/ Reach(c)
    PROVE  TruthInv'
<1>1. at[c] \notin Ended \cup {"move"} /\ UNCHANGED <<scene, carried, moved>>
  BY DEF Authenticated, Reach, folderVars, Ended
<1>2. received' = received
  BY DEF uploadVars
<1>3. Alone(fault, fault', c)
  BY BlameAlone DEF Authenticated, Continue, Reach, Alone
<1>4. Continue(c, Entry(c)) \/ Continue(c, "move") \/ \E answer : Rejected(c, answer)
  BY DEF Authenticated, Reach
<1>5. at'[c] = "done" => report'[c] # "ok"
  BY <1>4, EntryGoesOn, RejectedSays, ContinueSays
<1> QED
  BY <1>1, <1>2, <1>3, <1>5, TruthOfReads

LEMMA MailTruth ==
    ASSUME AccessInv, TruthInv, NEW c \in Calls, MailStep(c), UNCHANGED uploadVars
    PROVE  TruthInv'
<1>1. at[c] \in {"page", "metadata", "download"} /\ UNCHANGED <<scene, carried, moved>>
  BY DEF MailStep, FetchPage, ReadMetadata, DownloadAttachment, folderVars
<1>2. received' = received
  BY DEF uploadVars
<1>3. Alone(fault, fault', c)
  BY BlameAlone DEF MailStep, FetchPage, ReadMetadata, DownloadAttachment, Alone
<1>4. Handler(c).flow \in {"list", "attachment"}
  BY <1>1, InCallFacts DEF PlacedAt
<1> QED
  BY <1>1, <1>2, <1>3, <1>4, MailGoes, TruthOfReads DEF Changes, Ended

LEMMA SessionTruth ==
    ASSUME AccessInv, TruthInv, NEW c \in Calls, CreateSession(c), Goes(c)
    PROVE  TruthInv'
<1>1. at[c] = "session" /\ UNCHANGED <<scene, carried, moved, received>>
  BY DEF CreateSession, folderVars, uploadVars
<1>2. Alone(fault, fault', c)
  BY BlameAlone DEF CreateSession
<1>3. Continue(c, "chunk") \/ \E answer : Rejected(c, answer)
  BY DEF CreateSession
<1>4. at'[c] = "done" => report'[c] # "ok"
  BY <1>3, RejectedSays, ContinueSays
<1> QED
  BY <1>1, <1>2, <1>4, TruthOfReads DEF Ended

LEMMA ActTruth ==
    ASSUME AccessInv, TruthInv, NEW c \in Calls, ItemAct(c), UNCHANGED <<folderVars, uploadVars>>, Goes(c)
    PROVE  TruthInv'
<1> DEFINE change == [does |-> Handler(c).does, on |-> Target(c)]
<1>1. at[c] = "act" /\ scene' = scene /\ UNCHANGED <<moved, received>>
  BY DEF ItemAct, folderVars, uploadVars
<1>2. Handler(c).flow = "item"
  BY <1>1, InCallFacts DEF PlacedAt
<1>3. PICK answer, done :
        /\ answer \in Replies(Finds(c)) /\ done \in MayHaveDone(answer)
        /\ Blame(c, answer, Target(c) = asked(c).name)
        /\ IF done /\ Handler(c).does # "nothing" THEN Did(c, change) ELSE UNCHANGED carried
        /\ IF ~Resolves(answer) THEN Rejected(c, answer)
           ELSE Settle(c, IF answer = "bare" /\ Handler(c).needs # "nothing" THEN "error" ELSE "ok")
  BY DEF ItemAct
<1>4. answer \in Answers
  BY <1>1, <1>3, AnswersKnown, InCallFacts
<1> HIDE DEF change
<1>5. Resolves(answer) => done
  BY <1>3 DEF Resolves, MayHaveDone
<1>6. CASE Resolves(answer)
  <2>1. at'[c] = "done" /\ report'[c] \in {"ok", "error"} /\ (report'[c] # "ok" => answer # "ok")
    BY <1>3, <1>6, SettleSays
  <2> QED
    BY <1>1, <1>2, <1>3, <1>4, <1>5, <1>6, <2>1, TruthOfActs DEF Changes, Ended, Alone
<1>7. CASE ~Resolves(answer)
  <2>1. (at'[c] = "stuck" \/ (at'[c] = "done" /\ report'[c] = "error")) /\ answer # "ok"
    BY <1>3, <1>7, RejectedSays DEF Resolves
  <2> QED
    BY <1>1, <1>2, <1>3, <1>4, <2>1, TruthOfActs DEF Ended, Alone
<1> QED
  BY <1>6, <1>7

LEMMA PostTruth ==
    ASSUME AccessInv, TruthInv, NEW c \in Calls, scene' = scene, Goes(c),
           at[c] \notin Ended \cup {"move"}, Handler(c).flow # "moveEmails",
           UNCHANGED <<moved, received>>,
           NEW answer \in Answers, NEW done \in MayHaveDone(answer), NEW faithful, Blame(c, answer, faithful),
           IF done THEN \E change : Did(c, change) ELSE carried' = carried,
           IF Resolves(answer) THEN Settle(c, "ok") \/ (answer # "ok" /\ Settle(c, "refusal"))
           ELSE Rejected(c, answer)
    PROVE  TruthInv'
<1>1. Resolves(answer) => done
  BY DEF Resolves, MayHaveDone
<1>2. CASE Resolves(answer)
  <2>1. at'[c] = "done" /\ report'[c] \in {"ok", "refusal"} /\ (report'[c] # "ok" => answer # "ok")
    BY <1>2, SettleSays
  <2> QED
    BY <1>1, <1>2, <2>1, TruthOfActs DEF Ended, Alone
<1>3. CASE ~Resolves(answer)
  <2>1. (at'[c] = "stuck" \/ (at'[c] = "done" /\ report'[c] = "error")) /\ answer # "ok"
    BY <1>3, RejectedSays DEF Resolves
  <2> QED
    BY <1>3, <2>1, TruthOfActs DEF Ended, Alone
<1> QED
  BY <1>2, <1>3

LEMMA PostFolderTruth ==
    ASSUME AccessInv, TruthInv, NEW c \in Calls, PostFolder(c), UNCHANGED uploadVars, Goes(c)
    PROVE  TruthInv'
<1>1. at[c] = "post" /\ scene' = scene /\ UNCHANGED <<moved, received>>
  BY DEF PostFolder, uploadVars
<1>2. Handler(c).flow # "moveEmails"
  BY DEF PostFolder
<1>3. PICK ready, answer, done :
        /\ answer \in Replies(ready) /\ done \in MayHaveDone(answer)
        /\ Blame(c, answer, TRUE)
        /\ IF done THEN Did(c, [does |-> Handler(c).flow, on |-> walk[c].found]) ELSE UNCHANGED carried
        /\ IF ~Resolves(answer) THEN Rejected(c, answer)
           ELSE Settle(c, IF answer = "bare" /\ Handler(c).flow = "createFolder" THEN "refusal" ELSE "ok")
  BY Zenon DEF PostFolder
<1>4. answer \in Answers
  BY <1>1, <1>3, AnswersKnown, InCallFacts
<1>5. IF done THEN \E change : Did(c, change) ELSE carried' = carried
  BY <1>3
<1>6. IF Resolves(answer) THEN Settle(c, "ok") \/ (answer # "ok" /\ Settle(c, "refusal"))
      ELSE Rejected(c, answer)
  BY <1>3
<1> QED
  BY <1>1, <1>2, <1>3, <1>4, <1>5, <1>6, PostTruth DEF Ended

LEMMA PostRuleTruth ==
    ASSUME AccessInv, TruthInv, NEW c \in Calls, PostRule(c), UNCHANGED uploadVars, Goes(c)
    PROVE  TruthInv'
<1>1. at[c] = "post" /\ scene' = scene /\ UNCHANGED <<moved, received>>
  BY DEF PostRule, uploadVars
<1>2. Handler(c).flow # "moveEmails"
  BY DEF PostRule
<1>3. PICK ready, answer, done :
        /\ answer \in Replies(ready) /\ done \in MayHaveDone(answer)
        /\ Blame(c, answer, TRUE)
        /\ IF done THEN \E change : Did(c, change) ELSE UNCHANGED carried
        /\ IF ~Resolves(answer) THEN Rejected(c, answer)
           ELSE Settle(c, IF answer = "bare" THEN "refusal" ELSE "ok")
  BY Zenon DEF PostRule
<1>4. answer \in Answers
  BY <1>1, <1>3, AnswersKnown, InCallFacts
<1>5. IF Resolves(answer) THEN Settle(c, "ok") \/ (answer # "ok" /\ Settle(c, "refusal"))
      ELSE Rejected(c, answer)
  BY <1>3
<1> QED
  BY <1>1, <1>2, <1>3, <1>4, <1>5, PostTruth DEF Ended

LEMMA ReorderTruth ==
    ASSUME AccessInv, TruthInv, NEW c \in Calls, Reorder(c), UNCHANGED uploadVars, Goes(c)
    PROVE  TruthInv'
<1>1. at[c] = "post" /\ scene' = scene /\ UNCHANGED <<moved, received>>
  BY DEF Reorder, uploadVars
<1>2. Handler(c).flow # "moveEmails"
  BY DEF Reorder
<1>3. PICK ready, answer, done, faithful :
        /\ answer \in Replies(ready) /\ done \in MayHaveDone(answer)
        /\ Blame(c, answer, faithful)
        /\ IF done THEN \E change : Did(c, change) ELSE UNCHANGED carried
        /\ IF Resolves(answer) THEN Settle(c, "ok") ELSE Rejected(c, answer)
  BY Zenon DEF Reorder
<1>4. answer \in Answers
  BY <1>1, <1>3, AnswersKnown, InCallFacts
<1> QED
  BY <1>1, <1>2, <1>3, <1>4, PostTruth DEF Ended

LEMMA ChunkTruth ==
    ASSUME AccessInv, TruthInv, NEW c \in Calls, UploadChunk(c), Goes(c)
    PROVE  TruthInv'
<1> DEFINE end == chunkEnd(offset[c], fileSize(c))
           upload == [does |-> "upload", on |-> Target(c)]
<1>1. at[c] = "chunk" /\ scene' = scene /\ moved' = moved
  BY DEF UploadChunk, folderVars
<1>2. Handler(c).flow = "upload"
  BY <1>1, InCallFacts DEF PlacedAt
<1>3. PICK answer, done :
        /\ answer \in Replies(offset[c] = received[c]) /\ done \in MayHaveDone(answer)
        /\ Blame(c, answer, offset[c] = received[c])
        /\ received' = IF done THEN [received EXCEPT ![c] = end] ELSE received
        /\ IF done /\ received'[c] = fileSize(c) THEN Did(c, upload) ELSE UNCHANGED carried
        /\ CASE NeverSettles(answer) -> Continue(c, "stuck") /\ UNCHANGED offset
             [] OTHER ->
                  \/ /\ answer \in {"refused", "unauthorized", "lost"}
                     /\ Settle(c, "error")
                     /\ UNCHANGED offset
                  \/ /\ answer \in {"ok", "bare", "garbled", "lost"}
                     /\ offset' = [offset EXCEPT ![c] = end]
                     /\ IF end # fileSize(c) THEN Continue(c, "chunk")
                        ELSE Settle(c, IF answer = "ok" THEN "ok" ELSE "error")
  BY Zenon DEF UploadChunk, chunkEnd
<1>4. answer \in Answers
  BY <1>1, <1>3, AnswersKnown, InCallFacts
<1> HIDE DEF end, upload
<1>5. done => received'[c] = end
  BY <1>3 DEF TruthInv
<1>6. Alone(received, received', c)
  BY <1>3 DEF Alone
<1>7. \/ answer \in {"refused", "unauthorized", "lost"} /\ at'[c] = "done" /\ report'[c] = "error"
      \/ answer = "cut" /\ at'[c] = "stuck"
      \/ (done \/ answer = "lost") /\ end # fileSize(c) /\ at'[c] = "chunk"
      \/ (done \/ answer = "lost") /\ end = fileSize(c) /\ at'[c] = "done"
           /\ report'[c] = (IF answer = "ok" THEN "ok" ELSE "error")
  BY <1>3, <1>4, SettleSays, ContinueSays DEF Answers, NeverSettles, MayHaveDone
<1>8. \/ carried' = carried
      \/ done /\ at'[c] \in Ended /\ \E change : Did(c, change)
  BY <1>3, <1>5, <1>7 DEF Ended
<1>9. at'[c] = "done" /\ report'[c] = "ok" => \E change : Did(c, change)
  BY <1>3, <1>5, <1>7
<1>10. at'[c] = "done" => report'[c] # "preview" /\ (report'[c] # "ok" => answer # "ok")
  BY <1>7
<1> QED
  BY <1>1, <1>2, <1>3, <1>4, <1>6, <1>8, <1>9, <1>10, TruthOfActs DEF Ended

\* A batch: every message that counts as moved is one, and all that are moved
\* count unless a failure leaves in doubt which.
LEMMA MoveTruth ==
    ASSUME AccessInv, TruthInv, NEW c \in Calls, MoveNext(c), UNCHANGED uploadVars, Goes(c)
    PROVE  TruthInv'
<1>1. at[c] = "move" /\ scene' = scene /\ received' = received
  BY DEF MoveNext, uploadVars
<1>2. Handler(c).flow = "moveEmails" /\ Handler(c)' = Handler(c)
  BY <1>1, InCallFacts DEF PlacedAt, Handler, ToolFor, asked
<1>3. PICK found, answer, done, faithful, change :
        /\ answer \in Replies(found) /\ done \in MayHaveDone(answer)
        /\ Blame(c, answer, faithful)
        /\ IF done THEN Did(c, change) ELSE UNCHANGED carried
        /\ moved' = IF Resolves(answer) THEN [moved EXCEPT ![c] = @ + 1] ELSE moved
        /\ \/ Continue(c, "stuck") \/ Continue(c, "move")
           \/ Settle(c, IF moved'[c] > 0 THEN "ok" ELSE "error")
  BY Zenon DEF MoveNext
<1>4. answer \in Answers
  BY <1>1, <1>3, AnswersKnown, InCallFacts
<1>5. PICK S : carried[c] \in Seq(S)
  BY DEF AccessInv, CarriedMeant
<1>6. Len(carried[c]) \in Nat
  BY <1>5
<1>7. /\ done => carried'[c] = Append(carried[c], change)
      /\ ~done => carried'[c] = carried[c]
  BY <1>3 DEF Did, AccessInv
<1>8. /\ carried'[c] \in Seq(S \cup {change})
      /\ Len(carried'[c]) = IF done THEN Len(carried[c]) + 1 ELSE Len(carried[c])
  <2>1. carried[c] \in Seq(S \cup {change})
    BY <1>5
  <2> QED
    BY <1>7, <2>1, AppendProperties
<1>9. /\ moved[c] \in Nat /\ moved[c] <= Len(carried[c])
      /\ ~fault[c] => moved[c] = Len(carried[c])
  BY <1>2 DEF TruthInv, Truthful, Carries
<1>10. moved'[c] = IF Resolves(answer) THEN moved[c] + 1 ELSE moved[c]
  BY <1>3 DEF TruthInv
<1>11. fault'[c] <=> (fault[c] \/ answer \notin {"ok", "refused"} \/ (answer = "refused" /\ faithful))
  BY <1>3 DEF Blame, TruthInv
<1>12. /\ Resolves(answer) => done
       /\ ~fault'[c] => (Resolves(answer) <=> done)
  BY <1>3, <1>11 DEF Resolves, MayHaveDone
<1>13. moved'[c] \in Nat /\ moved'[c] <= Len(carried'[c])
  BY <1>6, <1>8, <1>9, <1>10, <1>12
<1>14. ~fault'[c] => moved'[c] = Len(carried'[c])
  BY <1>6, <1>8, <1>9, <1>10, <1>11, <1>12
<1>15. Carries(c)'
  <2>1. at'[c] \in Ended \cup {"move"}
    BY <1>3, SettleSays, ContinueSays DEF Ended
  <2> QED
    BY <1>2, <1>13, <1>14, <2>1 DEF Carries
<1>16. ASSUME at'[c] = "done" PROVE Told(c)'
  <2>1. report'[c] = IF moved'[c] > 0 THEN "ok" ELSE "error"
    BY <1>3, <1>16, SettleSays, ContinueSays
  <2>2. Len(carried'[c]) = 0 => carried'[c] = <<>>
    BY <1>8, EmptySeq
  <2>3. moved'[c] > 0 => moved'[c] \in 1 .. Len(carried'[c])
    BY <1>6, <1>8, <1>13
  <2>4. ~(moved'[c] > 0) => moved'[c] = 0
    BY <1>13
  <2> QED
    BY <1>2, <1>14, <2>1, <2>2, <2>3, <2>4 DEF Told
<1>17. Alone(carried, carried', c) /\ Alone(fault, fault', c) /\ Alone(moved, moved', c)
       /\ Alone(received, received', c)
  BY <1>1, <1>3 DEF Alone, Did, Blame
<1> QED
  BY <1>1, <1>15, <1>16, <1>17, TruthOfOthers DEF Truthful

LEMMA InitTruth == Init => TruthInv
<1> SUFFICES ASSUME Init PROVE TruthInv
  OBVIOUS
<1>1. /\ at = [c \in Calls |-> "new"] /\ report = [c \in Calls |-> "none"]
      /\ carried = [c \in Calls |-> <<>>] /\ fault = [c \in Calls |-> FALSE]
      /\ moved = [c \in Calls |-> 0] /\ received = [c \in Calls |-> 0]
  BY DEF Init, FolderInit, UploadInit
<1>2. Len(<<>>) = 0
  BY EmptySeq
<1>3. ASSUME NEW c \in Calls PROVE Truthful(c)
  BY <1>1, <1>2 DEF Truthful, Carries
<1> QED
  BY <1>1, <1>3 DEF TruthInv

LEMMA NothingTruth ==
    ASSUME TruthInv, UNCHANGED <<scene, report, carried, fault, moved, received>>,
           \A c \in Calls : at'[c] = at[c] \/ at'[c] = "gone"
    PROVE  TruthInv'
<1>1. \A c \in Calls : Handler(c)' = Handler(c) /\ Changes(c)' = Changes(c)
  BY DEF Changes, Handler, ToolFor, asked
<1>2. ASSUME NEW c \in Calls PROVE Truthful(c)'
  <2>1. Truthful(c)
    BY DEF TruthInv
  <2> QED
    BY <1>1, <2>1 DEF Truthful, Carries, Told, Ended
<1> QED
  BY <1>2 DEF TruthInv

LEMMA CallTruth ==
    ASSUME AccessInv, TruthInv, NEW c \in Calls, CallStep(c)
    PROVE  TruthInv'
<1>1. Goes(c)
  BY CallGoes
<1>2. CASE ItemStep(c)
  <2>1. UNCHANGED <<folderVars, mailVars, uploadVars>>
    BY <1>2 DEF ItemStep
  <2> QED
    BY <1>1, <1>2, <2>1, LookTruth, ActTruth DEF ItemStep
<1>3. CASE FolderStep(c) /\ UNCHANGED uploadVars
  BY <1>1, <1>3, StartTruth, WalkTruth, PostFolderTruth, MoveTruth, ListRulesTruth, PostRuleTruth, ReorderTruth
  DEF FolderStep
<1>4. CASE MailStep(c) /\ UNCHANGED uploadVars
  BY <1>4, MailTruth
<1>5. CASE CreateSession(c) \/ UploadChunk(c)
  BY <1>1, <1>5, SessionTruth, ChunkTruth
<1> QED
  BY <1>2, <1>3, <1>4, <1>5 DEF CallStep

LEMMA NextTruth ==
    ASSUME AccessInv, TruthInv, [Next]_vars
    PROVE  TruthInv'
<1>1. CASE UNCHANGED vars
  BY <1>1, NothingTruth DEF vars, callVars, folderVars, uploadVars
<1>2. ASSUME NEW c \in Calls, NewCall(c) PROVE TruthInv'
  <2>1. /\ Continue(c, "auth") /\ at[c] = "new" /\ UNCHANGED <<scene, carried, fault, moved, received>>
    BY <1>2 DEF NewCall, Call, folderVars, uploadVars
  <2>2. Goes(c)
    BY <2>1 DEF Goes, Follows
  <2>3. at'[c] = "auth"
    BY <2>1, ContinueSays
  <2> QED
    BY <2>1, <2>2, <2>3, TruthOfReads DEF Ended, Alone
<1>3. ASSUME NEW s \in Servers, Dies(s) PROVE TruthInv'
  <2>1. \A c \in Calls : at'[c] = at[c] \/ at'[c] = "gone"
    BY <1>3 DEF Dies
  <2>2. UNCHANGED <<scene, report, carried, fault, moved, received>>
    BY <1>3 DEF Dies, folderVars, uploadVars
  <2> QED
    BY <2>1, <2>2, NothingTruth
<1>4. ASSUME NEW s \in Servers, LogStep(s) \/ LogFault(s) PROVE TruthInv'
  <2>1. UNCHANGED <<scene, at, report, carried, fault, moved, received>>
    BY <1>4 DEF LogStep, LogFault, callVars, folderVars, uploadVars
  <2> QED
    BY <2>1, NothingTruth
<1>5. ASSUME Other PROVE TruthInv'
  <2>1. UNCHANGED <<scene, at, report, carried, fault, moved, received>>
    BY <1>5 DEF Other, OwnerArranges, OwnerDeletes, BoxChanges, FileChanges, callVars, folderVars, uploadVars
  <2> QED
    BY <2>1, NothingTruth
<1> QED
  BY <1>1, <1>2, <1>3, <1>4, <1>5, CallTruth DEF Next

\* What a client is told is what happened at Graph: success, the one change
\* asked for, or of a batch as many as are counted; a preview, a refusal and a
\* failure that nothing from outside explains, no change.
THEOREM ReportsTrue == Spec => []ReportsTruth
<1>1. AccessInv /\ TruthInv /\ [Next]_vars => TruthInv'
  BY NextTruth
<1>2. TruthInv => ReportsTruth
  BY DEF TruthInv, Truthful, Told, ReportsTruth
<1> QED
  BY InitTruth, AccessInvariant, <1>1, <1>2, PTL DEF Spec

-----------------------------------------------------------------------------
\* Rules that go last

RuleSet == [id : STRING, name : STRING, sequence : Nat]

\* The call takes its sequence from a listing, which was answered.
ListedFirst(c) == asked(c).sequence = 0 /\ ~fault[c]

Few(S, n) == IsFiniteSet(S) /\ Cardinality(S) <= n

\* Of the rules there are, and of those there were when its own was created,
\* no more come with the call's sequence or after it than others have changed.
GoesLast(c) ==
    /\ shifts[c] \in Nat /\ sequence[c] \in Nat
    /\ at[c] \in {"walk", "post"} /\ Handler(c).flow = "createRule" /\ ListedFirst(c) =>
          Few(FromNumber(rules, sequence[c]), shifts[c])
    /\ ListedFirst(c) => \A i \in DOMAIN carried[c] :
          carried[c][i].does = "createRule" => Few(carried[c][i].behind, shifts[c])

RuleInv ==
    /\ rules \in Seq(RuleSet)
    /\ shifts = [c \in Calls |-> shifts[c]]
    /\ sequence = [c \in Calls |-> sequence[c]]
    /\ \A c \in Calls : GoesLast(c)

LEMMA LargestOf ==
    ASSUME NEW T, T \subseteq Nat, 0 \in T, NEW bound \in Nat, \A x \in T : x <= bound
    PROVE  Max(T) \in Nat /\ \A x \in T : x <= Max(T)
<1> DEFINE Bounds == {b \in Nat : \A x \in T : x <= b}
<1>1. PICK b \in Bounds : \A k \in Bounds : b <= k
  BY Least
<1>2. b \in T
  <2>1. CASE b = 0
    BY <2>1
  <2>2. CASE b # 0 /\ b \notin T
    <3>1. b - 1 \in Nat
      BY <1>1, <2>2
    <3>2. ASSUME NEW x \in T PROVE x <= b - 1
      <4>1. x \in Nat /\ x <= b /\ x # b
        BY <1>1, <2>2, <3>2
      <4> QED
        BY <1>1, <4>1
    <3>3. b - 1 \in Bounds
      BY <3>1, <3>2
    <3>4. b <= b - 1
      BY <1>1, <3>3
    <3> QED
      BY <1>1, <3>4
  <2> QED
    BY <2>1, <2>2
<1>3. b \in T /\ \A y \in T : b >= y
  BY <1>1, <1>2
<1>4. Max(T) \in T /\ \A y \in T : Max(T) >= y
  BY <1>3 DEF Max
<1> QED
  BY <1>4

LEMMA RuleSequence ==
    ASSUME NEW rs \in Seq(RuleSet), NEW i \in DOMAIN rs
    PROVE  rs[i].sequence \in Nat
<1>1. rs[i] \in RuleSet
  BY ElementType
<1>2. \A r \in RuleSet : r.sequence \in Nat
  BY DEF RuleSet
<1> QED
  BY <1>1, <1>2

\* A rule list is finite, so that one of its sequences is the highest.
LEMMA SequencesBounded ==
    ASSUME NEW rs \in Seq(RuleSet)
    PROVE  \E b \in Nat : \A i \in DOMAIN rs : rs[i].sequence <= b
<1> DEFINE Bounded(n) == \E b \in Nat : \A i \in 1 .. n : rs[i].sequence <= b
           Unbounded == {n \in 0 .. Len(rs) : ~Bounded(n)}
<1>1. Len(rs) \in Nat /\ DOMAIN rs = 1 .. Len(rs)
  OBVIOUS
<1>2. \A i \in 1 .. Len(rs) : rs[i].sequence \in Nat
  BY <1>1, RuleSequence
<1>3. ASSUME Unbounded # {} PROVE FALSE
  <2>1. Unbounded \subseteq Nat
    OBVIOUS
  <2>2. PICK n \in Unbounded : \A k \in Unbounded : n <= k
    BY <1>3, <2>1, Least
  <2>3. n \in Nat /\ n <= Len(rs) /\ ~Bounded(n)
    BY <1>1, <2>2
  <2>4. n # 0
    <3>1. 0 \in Nat /\ \A i \in 1 .. 0 : rs[i].sequence <= 0
      OBVIOUS
    <3>2. Bounded(0)
      BY <3>1
    <3> QED
      BY <2>3, <3>2
  <2>5. n - 1 \in 0 .. Len(rs) /\ ~(n <= n - 1)
    BY <1>1, <2>3, <2>4
  <2>6. Bounded(n - 1)
    BY <2>2, <2>5
  <2>7. PICK b \in Nat : \A i \in 1 .. n - 1 : rs[i].sequence <= b
    BY <2>6
  <2> HIDE DEF Bounded, Unbounded
  <2>8. rs[n].sequence \in Nat
    BY <1>1, <1>2, <2>3, <2>4
  <2>9. ASSUME NEW i \in 1 .. n PROVE rs[i].sequence <= b + rs[n].sequence
    <3>1. \A x, y, z \in Nat : (x <= y \/ x = z) => x <= y + z
      OBVIOUS
    <3>2. i \in 1 .. Len(rs) /\ (i \in 1 .. n - 1 \/ i = n)
      BY <1>1, <2>3
    <3>3. rs[i].sequence \in Nat
      BY <1>2, <3>2
    <3> QED
      BY <2>7, <2>8, <3>1, <3>2, <3>3
  <2>10. b + rs[n].sequence \in Nat
    BY <2>7, <2>8
  <2>11. Bounded(n)
    BY <2>9, <2>10 DEF Bounded
  <2> QED
    BY <2>3, <2>11
<1>4. Len(rs) \in 0 .. Len(rs)
  BY <1>1
<1>5. Bounded(Len(rs))
  BY <1>3, <1>4
<1> QED
  BY <1>1, <1>5

LEMMA HighestRule ==
    ASSUME NEW rs \in Seq(RuleSet)
    PROVE  /\ Highest(rs) \in Nat
           /\ \A i \in DOMAIN rs : rs[i].sequence <= Highest(rs)
           /\ NextSequence(rs) \in Nat /\ NextSequence(rs) > Highest(rs)
<1> DEFINE T == {0} \cup {rs[i].sequence : i \in DOMAIN rs}
<1>1. PICK b \in Nat : \A i \in DOMAIN rs : rs[i].sequence <= b
  BY SequencesBounded
<1>2. \A i \in DOMAIN rs : rs[i].sequence \in Nat
  BY RuleSequence
<1>3. T \subseteq Nat /\ 0 \in T /\ \A x \in T : x <= b
  BY <1>1, <1>2
<1>4. Highest(rs) = Max(T)
  BY DEF Highest
<1>5. \A i \in DOMAIN rs : rs[i].sequence \in T
  OBVIOUS
<1> HIDE DEF T
<1>6. Highest(rs) \in Nat /\ \A x \in T : x <= Highest(rs)
  BY <1>1, <1>3, <1>4, LargestOf
<1>7. NextSequence(rs) \in Nat /\ NextSequence(rs) > Highest(rs)
  BY <1>6 DEF NextSequence, FirstSequence
<1> QED
  BY <1>5, <1>6, <1>7

\* Changes by others count, and are not uncounted.
Counted == /\ shifts' = [d \in Calls |-> shifts'[d]]
           /\ \A d \in Calls : shifts'[d] \in {shifts[d], shifts[d] + 1}

\* At most one rule more, whatever the number, comes with it or after it.
OneMore == \E x : \A n \in Nat : FromNumber(rules', n) \subseteq FromNumber(rules, n) \cup {x}

LEMMA FewAmongFew ==
    ASSUME NEW S, NEW n \in Nat, Few(S, n), NEW T, T \subseteq S, NEW m \in Nat, n <= m
    PROVE  Few(T, m)
<1>1. IsFiniteSet(T) /\ Cardinality(T) <= Cardinality(S)
  BY FS_Subset DEF Few
<1>2. Cardinality(S) \in Nat /\ Cardinality(T) \in Nat
  BY <1>1, FS_CardinalityType DEF Few
<1> QED
  BY <1>1, <1>2 DEF Few

LEMMA FewAndOne ==
    ASSUME NEW S, NEW n \in Nat, Few(S, n), NEW x, NEW T, T \subseteq S \cup {x}
    PROVE  Few(T, n + 1)
<1>1. IsFiniteSet(S \cup {x}) /\ Cardinality(S) \in Nat
      /\ Cardinality(S \cup {x}) \in {Cardinality(S), Cardinality(S) + 1}
  BY FS_AddElement, FS_CardinalityType DEF Few
<1>2. Few(S \cup {x}, n + 1)
  BY <1>1 DEF Few
<1> QED
  BY <1>2, FewAmongFew

LEMMA StaysListed ==
    ASSUME scene' = scene, NEW c \in Calls, fault[c] => fault'[c], ListedFirst(c)'
    PROVE  ListedFirst(c)
BY DEF ListedFirst, asked

LEMMA ShiftsGrow ==
    ASSUME RuleInv, Counted, NEW c \in Calls
    PROVE  shifts[c] \in Nat /\ shifts'[c] \in Nat /\ shifts[c] <= shifts'[c]
<1>1. shifts[c] \in Nat /\ shifts'[c] \in {shifts[c], shifts[c] + 1}
  BY DEF RuleInv, GoesLast, Counted
<1> QED
  BY <1>1

\* The rules a call has created stay where they are.
LEMMA BehindStays ==
    ASSUME RuleInv, scene' = scene, Counted, NEW c \in Calls, fault[c] => fault'[c], ListedFirst(c)',
           NEW i \in DOMAIN carried[c], carried[c][i].does = "createRule"
    PROVE  Few(carried[c][i].behind, shifts'[c])
<1>1. Few(carried[c][i].behind, shifts[c])
  BY StaysListed DEF RuleInv, GoesLast
<1> QED
  BY <1>1, ShiftsGrow, FewAmongFew

LEMMA RulesOfOthers ==
    ASSUME RuleInv, scene' = scene, Counted, NEW d \in Calls,
           at'[d] \in {at[d], "gone"}, carried'[d] = carried[d], fault'[d] = fault[d],
           sequence'[d] = sequence[d],
           \/ rules' = rules
           \/ OneMore /\ (at[d] = "new" \/ ~Walks(d) \/ shifts'[d] = shifts[d] + 1)
    PROVE  GoesLast(d)'
<1>1. GoesLast(d)
  BY DEF RuleInv
<1>2. Handler(d)' = Handler(d)
  BY DEF Handler, ToolFor, asked
<1>3. shifts'[d] \in Nat /\ shifts[d] \in Nat /\ shifts[d] <= shifts'[d]
  BY ShiftsGrow
<1>4. ASSUME at'[d] \in {"walk", "post"}, Handler(d).flow = "createRule", ListedFirst(d)'
      PROVE  Few(FromNumber(rules', sequence'[d]), shifts'[d])
  <2>1. Few(FromNumber(rules, sequence[d]), shifts[d]) /\ sequence[d] \in Nat
    BY <1>1, <1>4, StaysListed DEF GoesLast
  <2>2. CASE rules' = rules
    BY <1>3, <2>1, <2>2, FewAmongFew
  <2>3. CASE OneMore /\ shifts'[d] = shifts[d] + 1
    <3>1. PICK x : FromNumber(rules', sequence[d]) \subseteq FromNumber(rules, sequence[d]) \cup {x}
      BY <2>1, <2>3 DEF OneMore
    <3>2. Few(FromNumber(rules', sequence[d]), shifts[d] + 1)
      BY <1>3, <2>1, <3>1, FewAndOne
    <3> QED
      BY <2>3, <3>2
  <2> QED
    BY <1>4, <2>2, <2>3 DEF Walks
<1>5. ASSUME ListedFirst(d)', NEW i \in DOMAIN carried'[d], carried'[d][i].does = "createRule"
      PROVE  Few(carried'[d][i].behind, shifts'[d])
  BY <1>5, BehindStays
<1> QED
  BY <1>1, <1>2, <1>3, <1>4, <1>5 DEF GoesLast

\* A step of a call: a rule that it creates goes last.
LEMMA RulesKept ==
    ASSUME AccessInv, TruthInv, RuleInv, NEW c \in Calls, scene' = scene, Goes(c),
           Alone(fault, fault', c), fault[c] => fault'[c],
           Alone(sequence, sequence', c), sequence'[c] \in Nat,
           rules' \in Seq(RuleSet), Counted,
           \A d \in Calls : d # c =>
               \/ rules' = rules
               \/ OneMore /\ (at[d] = "new" \/ ~Walks(d) \/ shifts'[d] = shifts[d] + 1),
           \/ carried' = carried
           \/ \E change : /\ Did(c, change)
                          /\ change.does = "createRule" /\ ListedFirst(c)' => Few(change.behind, shifts'[c]),
           sequence'[c] = sequence[c] \/ carried'[c] = <<>>,
           at'[c] \in {"walk", "post"} /\ Handler(c).flow = "createRule" /\ ListedFirst(c)' =>
               Few(FromNumber(rules', sequence'[c]), shifts'[c])
    PROVE  RuleInv'
<1>1. /\ sequence' = [d \in Calls |-> sequence'[d]]
      /\ \A d \in Calls : d # c => sequence'[d] = sequence[d]
  BY OneChanges DEF RuleInv
<1>2. \A d \in Calls : d # c => fault'[d] = fault[d]
  BY OneChanges DEF TruthInv
<1>3. Alone(carried, carried', c)
  BY DEF Alone, Did
<1>4. \A d \in Calls : d # c => carried'[d] = carried[d]
  BY <1>3, OneChanges DEF AccessInv
<1>5. \A d \in Calls : d # c => at'[d] = at[d]
  <2>1. Alone(at, at', c)
    BY StageAndReport
  <2> QED
    BY <2>1, OneChanges DEF AccessInv
<1>6. ASSUME NEW d \in Calls, d # c PROVE GoesLast(d)'
  BY <1>1, <1>2, <1>4, <1>5, <1>6, RulesOfOthers
<1>7. Handler(c)' = Handler(c)
  BY DEF Handler, ToolFor, asked
<1>8. shifts'[c] \in Nat
  BY ShiftsGrow
<1>9. ASSUME ListedFirst(c)', NEW i \in DOMAIN carried'[c], carried'[c][i].does = "createRule"
      PROVE  Few(carried'[c][i].behind, shifts'[c])
  <2>1. CASE carried'[c] = <<>>
    BY <1>9, <2>1
  <2>2. CASE carried' = carried
    BY <1>9, <2>2, BehindStays
  <2>3. ASSUME carried'[c] # <<>>, NEW change, Did(c, change),
               change.does = "createRule" /\ ListedFirst(c)' => Few(change.behind, shifts'[c])
        PROVE  Few(carried'[c][i].behind, shifts'[c])
    <3>1. PICK S : carried[c] \in Seq(S)
      BY DEF AccessInv, CarriedMeant
    <3>2. carried'[c] = Append(carried[c], change)
      BY <2>3 DEF Did, AccessInv
    <3>3. carried[c] \in Seq(S \cup {change})
      BY <3>1
    <3>4. carried'[c][i] = change \/ (i \in DOMAIN carried[c] /\ carried'[c][i] = carried[c][i])
      BY <3>2, <3>3, <1>9, AppendProperties
    <3>5. CASE carried'[c][i] = change
      BY <1>9, <2>3, <3>5
    <3>6. CASE i \in DOMAIN carried[c] /\ carried'[c][i] = carried[c][i]
      BY <1>9, <3>6, BehindStays
    <3> QED
      BY <3>4, <3>5, <3>6
  <2> QED
    BY <2>1, <2>2, <2>3
<1>10. GoesLast(c)'
  BY <1>7, <1>8, <1>9 DEF GoesLast
<1> QED
  BY <1>1, <1>6, <1>10 DEF RuleInv, Counted

\* A step that is not about rules.
LEMMA RulesAside ==
    ASSUME AccessInv, TruthInv, RuleInv, NEW c \in Calls, scene' = scene, Goes(c),
           at[c] \notin {"new", "rules"}, at[c] = "auth" => at'[c] \notin {"walk", "post"},
           Alone(fault, fault', c), fault[c] => fault'[c],
           UNCHANGED <<rules, sequence>>, Counted,
           carried' = carried \/ \E change : Did(c, change) /\ change.does # "createRule"
    PROVE  RuleInv'
<1>1. at'[c] \in {"walk", "post"} => at[c] = "walk"
  <2>1. PICK s : at' = [at EXCEPT ![c] = s] /\ (s \in {"walk", "post"} => at[c] \in {"auth", "walk", "rules"})
    BY DEF Goes, Follows, Continue, Settle, Step
  <2>2. at'[c] = s
    BY <2>1 DEF AccessInv
  <2> QED
    BY <2>1, <2>2
<1>2. ASSUME at'[c] \in {"walk", "post"}, Handler(c).flow = "createRule", ListedFirst(c)'
      PROVE  Few(FromNumber(rules', sequence'[c]), shifts'[c])
  <2>1. Few(FromNumber(rules, sequence[c]), shifts[c])
    BY <1>1, <1>2, StaysListed DEF RuleInv, GoesLast
  <2> QED
    BY <2>1, ShiftsGrow, FewAmongFew
<1>3. sequence'[c] \in Nat /\ rules' \in Seq(RuleSet) /\ Alone(sequence, sequence', c)
  BY DEF RuleInv, GoesLast, Alone
<1> QED
  BY <1>2, <1>3, RulesKept

LEMMA BlameGraver ==
    ASSUME TruthInv, NEW c \in Calls, NEW answer, NEW faithful, Blame(c, answer, faithful)
    PROVE  Alone(fault, fault', c) /\ (fault[c] => fault'[c])
BY DEF Blame, Alone, TruthInv

LEMMA SameShifts ==
    ASSUME RuleInv, shifts' = shifts
    PROVE  Counted
BY DEF RuleInv, Counted

LEMMA ShiftCounts ==
    ASSUME RuleInv, NEW t, NEW own, Shift(t, own)
    PROVE  Counted
BY DEF Shift, Counted

LEMMA ItemRules ==
    ASSUME AccessInv, TruthInv, RuleInv, NEW c \in Calls, ItemStep(c), Goes(c)
    PROVE  RuleInv'
<1>1. UNCHANGED <<scene, rules, sequence, shifts>>
  BY DEF ItemStep, TurnDown, NoToken, ItemLook, ItemAct, folderVars
<1>2. Alone(fault, fault', c) /\ (fault[c] => fault'[c])
  <2>1. CASE TurnDown(c)
    BY <2>1 DEF TurnDown, Alone
  <2>2. CASE NoToken(c)
    BY <2>2 DEF NoToken, Alone, TruthInv
  <2>3. CASE ItemLook(c)
    BY <2>3, BlameGraver DEF ItemLook
  <2>4. CASE ItemAct(c)
    BY <2>4, BlameGraver DEF ItemAct
  <2> QED
    BY <2>1, <2>2, <2>3, <2>4 DEF ItemStep
<1>3. carried' = carried \/ Did(c, [does |-> Handler(c).does, on |-> Target(c)])
  BY DEF ItemStep, TurnDown, NoToken, ItemLook, ItemAct
<1>4. at[c] \notin {"new", "rules"} /\ (at[c] = "auth" => at'[c] = "done")
  BY SettleSays DEF ItemStep, TurnDown, NoToken, ItemLook, ItemAct
<1>5. Handler(c).does # "createRule"
  BY <1>4, InCallFacts, ToolFacts DEF Deeds
<1>6. [does |-> Handler(c).does, on |-> Target(c)].does = Handler(c).does
  OBVIOUS
<1>7. carried' = carried \/ \E change : Did(c, change) /\ change.does # "createRule"
  BY <1>3, <1>5, <1>6
<1> QED
  BY <1>1, <1>2, <1>4, <1>7, SameShifts, RulesAside

LEMMA AsideRules ==
    ASSUME AccessInv, TruthInv, RuleInv, NEW c \in Calls, Goes(c),
           \/ \E p : ListChildren(c, p)
           \/ Reach(c) \/ MoveNext(c) \/ MailStep(c) \/ CreateSession(c) \/ UploadChunk(c)
    PROVE  RuleInv'
<1>1. /\ UNCHANGED <<scene, rules, sequence, shifts>>
      /\ at[c] \notin {"new", "rules", "auth"}
  BY DEF ListChildren, Reach, MoveNext, MailStep, FetchPage, ReadMetadata, DownloadAttachment,
     CreateSession, UploadChunk, folderVars
<1>2. Alone(fault, fault', c) /\ (fault[c] => fault'[c])
  <2>1. CASE ReadMetadata(c) \/ DownloadAttachment(c)
    BY <2>1 DEF ReadMetadata, DownloadAttachment, Alone, TruthInv
  <2>2. CASE \E answer, faithful : Blame(c, answer, faithful)
    BY <2>2, BlameGraver
  <2>3. CASE \/ \E p : ListChildren(c, p)
             \/ Reach(c) \/ MoveNext(c) \/ FetchPage(c) \/ CreateSession(c) \/ UploadChunk(c)
    <3>1. \E answer, faithful : Blame(c, answer, faithful)
      BY <2>3, Zenon DEF ListChildren, Reach, MoveNext, FetchPage, CreateSession, UploadChunk
    <3> QED
      BY <3>1, <2>2
  <2> QED
    BY <2>1, <2>3 DEF MailStep
<1>3. \/ carried' = carried
      \/ Did(c, [does |-> "move", on |-> walk[c].found])
      \/ Did(c, [does |-> "upload", on |-> Target(c)])
  BY DEF ListChildren, Reach, MoveNext, MailStep, FetchPage, ReadMetadata, DownloadAttachment,
     CreateSession, UploadChunk
<1>4. /\ [does |-> "move", on |-> walk[c].found].does # "createRule"
      /\ [does |-> "upload", on |-> Target(c)].does # "createRule"
  OBVIOUS
<1>5. carried' = carried \/ \E change : Did(c, change) /\ change.does # "createRule"
  BY <1>3, <1>4
<1> QED
  BY <1>1, <1>2, <1>5, SameShifts, RulesAside

LEMMA PostFolderRules ==
    ASSUME AccessInv, TruthInv, RuleInv, NEW c \in Calls, PostFolder(c), Goes(c)
    PROVE  RuleInv'
<1>1. UNCHANGED <<scene, rules, sequence>> /\ at[c] = "post"
      /\ Handler(c).flow \in {"createFolder", "renameFolder", "deleteFolder"}
  BY DEF PostFolder
<1>2. PICK done :
        /\ \E answer : Blame(c, answer, TRUE)
        /\ IF done
           THEN /\ \E t : Shift(t, {c})
                /\ Did(c, [does |-> Handler(c).flow, on |-> walk[c].found])
           ELSE UNCHANGED <<tree, named, shifts, carried>>
  BY Zenon DEF PostFolder
<1>3. Alone(fault, fault', c) /\ (fault[c] => fault'[c])
  BY <1>2, BlameGraver
<1>4. Counted
  BY <1>2, SameShifts, ShiftCounts
<1>5. [does |-> Handler(c).flow, on |-> walk[c].found].does # "createRule"
  BY <1>1
<1>6. carried' = carried \/ \E change : Did(c, change) /\ change.does # "createRule"
  BY <1>2, <1>5
<1> QED
  BY <1>1, <1>3, <1>4, <1>6, RulesAside

LEMMA AuthenticatedRules ==
    ASSUME AccessInv, TruthInv, RuleInv, NEW c \in Calls, Authenticated(c), Goes(c)
    PROVE  RuleInv'
<1>1. /\ UNCHANGED <<scene, rules, shifts, carried, fault>> /\ at[c] = "auth"
      /\ Continue(c, Entry(c))
      /\ sequence' = IF Handler(c).flow \in {"createRule", "reorderRule"}
                     THEN [sequence EXCEPT ![c] = asked(c).sequence] ELSE sequence
  BY DEF Authenticated
<1>2. asked(c).sequence \in Nat
  BY <1>1, InCallFacts, ScenesAssumption DEF asked
<1>3. sequence'[c] \in Nat /\ Alone(sequence, sequence', c)
  BY <1>1, <1>2 DEF RuleInv, GoesLast, Alone
<1>4. at'[c] = Entry(c)
  BY <1>1, ContinueSays
<1>5. Handler(c).flow = "createRule" /\ ListedFirst(c) => Entry(c) = "rules"
  BY DEF Entry, ListedFirst
<1>6. carried'[c] = <<>>
  BY <1>1 DEF TruthInv, Truthful, Carries, Ended
<1>7. ListedFirst(c)' => ListedFirst(c)
  BY <1>1 DEF ListedFirst, asked
<1>8. rules' \in Seq(RuleSet) /\ Alone(fault, fault', c)
  BY <1>1 DEF RuleInv, Alone
<1> QED
  BY <1>1, <1>3, <1>4, <1>5, <1>6, <1>7, <1>8, SameShifts, RulesKept

\* The listing that is answered is of the rules there are; one that is not is a
\* failure that excuses.
LEMMA ListRulesRules ==
    ASSUME AccessInv, TruthInv, RuleInv, NEW c \in Calls, ListRules(c), Goes(c)
    PROVE  RuleInv'
<1>1. UNCHANGED <<scene, rules, shifts, carried>> /\ at[c] = "rules"
  BY DEF ListRules
<1>2. PICK answer :
        /\ answer \in Replies(TRUE)
        /\ Blame(c, answer, TRUE)
        /\ sequence' = IF Handler(c).flow = "createRule"
                       THEN [sequence EXCEPT ![c] = NextSequence(IF answer = "ok" THEN rules ELSE <<>>)]
                       ELSE sequence
  BY Zenon DEF ListRules
<1>3. <<>> \in Seq(RuleSet) /\ rules \in Seq(RuleSet)
  BY DEF RuleInv
<1>4. /\ NextSequence(rules) \in Nat /\ NextSequence(rules) > Highest(rules)
      /\ NextSequence(<<>>) \in Nat
  BY <1>3, HighestRule
<1>5. sequence'[c] \in Nat /\ Alone(sequence, sequence', c)
  BY <1>2, <1>4 DEF RuleInv, GoesLast, Alone
<1>6. Alone(fault, fault', c) /\ (fault[c] => fault'[c]) /\ (~fault'[c] => answer = "ok")
  BY <1>2, BlameGraver DEF Blame, TruthInv
<1>7. ASSUME Handler(c).flow = "createRule", ListedFirst(c)' PROVE Few(FromNumber(rules', sequence'[c]), shifts'[c])
  <2>1. sequence'[c] = NextSequence(rules) /\ rules' = rules
    BY <1>1, <1>2, <1>6, <1>7 DEF ListedFirst, RuleInv
  <2>2. \A i \in DOMAIN rules : rules[i].sequence \in Nat /\ rules[i].sequence <= Highest(rules)
    BY <1>3, HighestRule, RuleSequence
  <2>3. Highest(rules) \in Nat
    BY <1>3, HighestRule
  <2>4. FromNumber(rules, NextSequence(rules)) = {}
    BY <1>4, <2>2, <2>3 DEF FromNumber
  <2>5. shifts'[c] \in Nat
    BY <1>1 DEF RuleInv, GoesLast
  <2> QED
    BY <2>1, <2>4, <2>5, FS_EmptySet DEF Few
<1>8. carried'[c] = <<>>
  BY <1>1 DEF TruthInv, Truthful, Carries, Ended
<1> QED
  BY <1>1, <1>3, <1>5, <1>6, <1>7, <1>8, SameShifts, RulesKept

LEMMA RulesShiftCounts ==
    ASSUME RuleInv, NEW c \in Calls, RulesShift(c)
    PROVE  Counted /\ \A d \in Calls : d # c => at[d] = "new" \/ ~Walks(d) \/ shifts'[d] = shifts[d] + 1
BY DEF RulesShift, Counted

LEMMA PostRuleRules ==
    ASSUME AccessInv, TruthInv, RuleInv, NEW c \in Calls, PostRule(c), Goes(c)
    PROVE  RuleInv'
<1> DEFINE rule == [id |-> asked(c).name, name |-> asked(c).name, sequence |-> sequence[c]]
           change == [does |-> "createRule", on |-> walk[c].found, behind |-> FromNumber(rules, sequence[c])]
<1>1. UNCHANGED <<scene, sequence>> /\ at[c] = "post" /\ Handler(c).flow = "createRule"
  BY DEF PostRule
<1>2. PICK done :
        /\ \E answer : Blame(c, answer, TRUE)
        /\ IF done THEN rules' = Append(rules, rule) /\ Did(c, change) /\ RulesShift(c)
           ELSE UNCHANGED <<rules, carried, shifts>>
        /\ (\E answer : Rejected(c, answer)) \/ (\E r : Settle(c, r))
  BY Zenon DEF PostRule
<1>3. Alone(fault, fault', c) /\ (fault[c] => fault'[c])
  BY <1>2, BlameGraver
<1>4. rule \in RuleSet
  BY <1>1, InCallFacts, ScenesAssumption DEF RuleInv, GoesLast, RuleSet, asked
<1>5. change.does = "createRule" /\ change.behind = FromNumber(rules, sequence[c])
  OBVIOUS
<1> HIDE DEF rule, change
<1>6. at'[c] \notin {"walk", "post"}
  BY <1>2, RejectedSays, SettleSays
<1>7. sequence'[c] \in Nat /\ Alone(sequence, sequence', c)
  BY <1>1 DEF RuleInv, GoesLast, Alone
<1>8. CASE done
  <2>1. rules' \in Seq(RuleSet)
    BY <1>2, <1>4, <1>8, AppendProperties DEF RuleInv
  <2>2. Counted /\ \A d \in Calls : d # c => at[d] = "new" \/ ~Walks(d) \/ shifts'[d] = shifts[d] + 1
    BY <1>2, <1>8, RulesShiftCounts
  <2>3. ASSUME ListedFirst(c)' PROVE Few(change.behind, shifts'[c])
    <3>1. Few(change.behind, shifts[c])
      BY <1>1, <1>3, <1>5, <2>3, StaysListed DEF RuleInv, GoesLast
    <3> QED
      BY <2>2, <3>1, ShiftsGrow, FewAmongFew
  <2>4. OneMore
    <3>1. /\ DOMAIN rules' = 1 .. Len(rules) + 1 /\ DOMAIN rules = 1 .. Len(rules) /\ Len(rules) \in Nat
          /\ \A i \in 1 .. Len(rules) : rules'[i] = rules[i]
          /\ rules'[Len(rules) + 1] = rule
      BY <1>2, <1>4, <1>8, AppendProperties DEF RuleInv
    <3>2. \A i \in DOMAIN rules' : rules'[i] = rule \/ (i \in DOMAIN rules /\ rules'[i] = rules[i])
      BY <3>1
    <3>3. ASSUME NEW n \in Nat PROVE FromNumber(rules', n) \subseteq FromNumber(rules, n) \cup {rule.id}
      BY <3>2 DEF FromNumber
    <3> QED
      BY <3>3 DEF OneMore
  <2> QED
    BY <1>1, <1>2, <1>3, <1>6, <1>7, <1>8, <2>1, <2>2, <2>3, <2>4, RulesKept
<1>9. CASE ~done
  BY <1>1, <1>2, <1>3, <1>6, <1>7, <1>9, SameShifts, RulesKept DEF RuleInv
<1> QED
  BY <1>8, <1>9

LEMMA ReorderRules ==
    ASSUME AccessInv, TruthInv, RuleInv, NEW c \in Calls, Reorder(c), Goes(c)
    PROVE  RuleInv'
<1>1. UNCHANGED <<scene, sequence>> /\ at[c] = "post" /\ Handler(c).flow = "reorderRule"
  BY DEF Reorder
<1>2. PICK done, places, reached :
        /\ places = {i \in DOMAIN rules : rules[i].id = reached}
        /\ \E answer, faithful : Blame(c, answer, faithful)
        /\ IF done
           THEN /\ rules' = [i \in DOMAIN rules |->
                               IF i \in places THEN [rules[i] EXCEPT !.sequence = sequence[c]] ELSE rules[i]]
                /\ Did(c, [does |-> "reorderRule", on |-> reached])
                /\ RulesShift(c)
           ELSE UNCHANGED <<rules, carried, shifts>>
  BY Zenon DEF Reorder
<1>3. Alone(fault, fault', c) /\ (fault[c] => fault'[c])
  BY <1>2, BlameGraver
<1>4. rules \in Seq(RuleSet) /\ sequence[c] \in Nat
  BY DEF RuleInv, GoesLast
<1>5. sequence'[c] \in Nat /\ Alone(sequence, sequence', c)
  BY <1>1, <1>4 DEF Alone
<1>6. CASE done
  <2>1. rules' \in Seq(RuleSet)
    <3>1. \A r \in RuleSet : [r EXCEPT !.sequence = sequence[c]] \in RuleSet
      BY <1>4 DEF RuleSet
    <3>2. \A i \in DOMAIN rules : rules[i] \in RuleSet
      BY <1>4, ElementType
    <3>3. Len(rules) \in Nat /\ DOMAIN rules = 1 .. Len(rules)
      BY <1>4
    <3>4. rules' \in [1 .. Len(rules) -> RuleSet]
      BY <1>2, <1>6, <3>1, <3>2, <3>3
    <3> QED
      BY <3>3, <3>4, SeqDef
  <2>2. Counted /\ \A d \in Calls : d # c => at[d] = "new" \/ ~Walks(d) \/ shifts'[d] = shifts[d] + 1
    BY <1>2, <1>6, RulesShiftCounts
  <2>3. [does |-> "reorderRule", on |-> reached].does # "createRule"
    OBVIOUS
  <2>4. OneMore
    <3>1. \A r \in RuleSet : [r EXCEPT !.sequence = sequence[c]].id = r.id
      BY DEF RuleSet
    <3>2. \A i \in DOMAIN rules : rules[i] \in RuleSet
      BY <1>4, ElementType
    <3>3. DOMAIN rules' = DOMAIN rules
      BY <1>2, <1>6
    <3>4. \A i \in DOMAIN rules : rules'[i].id = reached \/ rules'[i] = rules[i]
      BY <1>2, <1>6, <3>1, <3>2
    <3>5. ASSUME NEW n \in Nat PROVE FromNumber(rules', n) \subseteq FromNumber(rules, n) \cup {reached}
      BY <3>3, <3>4 DEF FromNumber
    <3> QED
      BY <3>5 DEF OneMore
  <2> QED
    BY <1>1, <1>2, <1>3, <1>5, <1>6, <2>1, <2>2, <2>3, <2>4, RulesKept
<1>7. CASE ~done
  BY <1>1, <1>2, <1>3, <1>4, <1>5, <1>7, SameShifts, RulesKept
<1> QED
  BY <1>6, <1>7

LEMMA InitRules == Init => RuleInv
<1> SUFFICES ASSUME Init PROVE RuleInv
  OBVIOUS
<1>1. /\ at = [c \in Calls |-> "new"] /\ carried = [c \in Calls |-> <<>>]
      /\ sequence = [c \in Calls |-> 0] /\ shifts = [c \in Calls |-> 0]
      /\ scene \in Scenes /\ rules = scene.rules
  BY DEF Init, FolderInit
<1>2. rules \in Seq(RuleSet)
  BY <1>1, ScenesAssumption DEF RuleSet
<1> QED
  BY <1>1, <1>2 DEF RuleInv, GoesLast

LEMMA NothingRules ==
    ASSUME RuleInv, UNCHANGED <<scene, carried, fault, sequence, rules>>, Counted,
           \A c \in Calls : at'[c] \in {at[c], "gone"}
    PROVE  RuleInv'
<1>1. ASSUME NEW d \in Calls PROVE GoesLast(d)'
  BY RulesOfOthers
<1> QED
  BY <1>1 DEF RuleInv, Counted

LEMMA NextRules ==
    ASSUME AccessInv, TruthInv, RuleInv, [Next]_vars
    PROVE  RuleInv'
<1>1. CASE UNCHANGED vars
  BY <1>1, SameShifts, NothingRules DEF vars, callVars, folderVars
<1>2. ASSUME NEW c \in Calls, NewCall(c) PROVE RuleInv'
  <2>1. Continue(c, "auth") /\ at[c] = "new" /\ UNCHANGED <<scene, carried, fault, sequence, rules, shifts>>
    BY <1>2 DEF NewCall, Call, folderVars
  <2>2. Goes(c)
    BY <2>1 DEF Goes, Follows
  <2>3. at'[c] = "auth"
    BY <2>1, ContinueSays
  <2>4. sequence'[c] \in Nat /\ rules' \in Seq(RuleSet)
    BY <2>1 DEF RuleInv, GoesLast
  <2> QED
    BY <2>1, <2>2, <2>3, <2>4, SameShifts, RulesKept DEF Alone
<1>3. ASSUME NEW c \in Calls, CallStep(c) PROVE RuleInv'
  <2>1. Goes(c)
    BY <1>3, CallGoes
  <2> QED
    BY <1>3, <2>1, ItemRules, AsideRules, PostFolderRules, AuthenticatedRules, ListRulesRules, PostRuleRules,
       ReorderRules DEF CallStep, FolderStep
<1>4. ASSUME NEW s \in Servers, Dies(s) PROVE RuleInv'
  <2>1. \A c \in Calls : at'[c] \in {at[c], "gone"}
    BY <1>4 DEF Dies
  <2>2. UNCHANGED <<scene, carried, fault, sequence, rules, shifts>>
    BY <1>4 DEF Dies, folderVars
  <2> QED
    BY <2>1, <2>2, SameShifts, NothingRules
<1>5. ASSUME NEW s \in Servers, LogStep(s) \/ LogFault(s) PROVE RuleInv'
  <2>1. UNCHANGED <<scene, at, carried, fault, sequence, rules, shifts>>
    BY <1>5 DEF LogStep, LogFault, callVars, folderVars
  <2> QED
    BY <2>1, SameShifts, NothingRules
<1>6. ASSUME Other PROVE RuleInv'
  <2>1. UNCHANGED <<scene, at, carried, fault, sequence, rules>>
    BY <1>6 DEF Other, OwnerArranges, OwnerDeletes, BoxChanges, FileChanges, callVars, folderVars
  <2>2. shifts' = shifts \/ \E t : Shift(t, {})
    BY <1>6 DEF Other, OwnerArranges, OwnerDeletes, BoxChanges, FileChanges, folderVars
  <2> QED
    BY <2>1, <2>2, SameShifts, ShiftCounts, NothingRules
<1> QED
  BY <1>1, <1>2, <1>3, <1>4, <1>5, <1>6 DEF Next

\* A rule created without a sequence comes after every rule there is when Graph
\* takes it, but for at most one for each change by others since the call began,
\* unless the rules could not be listed; for any rules and any number of servers
\* creating and reordering them.
THEOREM RulesGoLast == Spec => []RuleGoesLast
<1>1. AccessInv /\ TruthInv /\ [Next]_vars => TruthInv'
  BY NextTruth
<1>2. AccessInv /\ TruthInv /\ RuleInv /\ [Next]_vars => RuleInv'
  BY NextRules
<1>3. RuleInv => RuleGoesLast
  BY DEF RuleInv, GoesLast, ListedFirst, Few, RuleGoesLast
<1> QED
  BY InitTruth, InitRules, AccessInvariant, <1>1, <1>2, <1>3, PTL DEF Spec

-----------------------------------------------------------------------------
\* Attachments of one version

Whole(c) ==
    /\ given[c].kind = "fileAttachment"
    /\ given[c].bytes = given[c].size /\ given[c].bytes <= DownloadLimit
    /\ given[c].name = metadata[c].name

FileInv ==
    /\ metadata = [c \in Calls |-> metadata[c]]
    /\ given = [c \in Calls |-> given[c]]
    /\ \A c \in Calls :
         /\ at[c] = "download" => metadata[c].kind = "fileAttachment"
         /\ given[c] # NoFile => at[c] = "done" /\ Whole(c)

LEMMA FileStays ==
    ASSUME AccessInv, FileInv, NEW c \in Calls, Goes(c), at[c] \notin Ended \cup {"metadata"},
           UNCHANGED <<metadata, given>>
    PROVE  FileInv'
<1>1. \E s : at' = [at EXCEPT ![c] = s] /\ s # "download"
  BY DEF Goes, Follows, Continue, Settle, Step
<1>2. \A d \in Calls : (d # c => at'[d] = at[d]) /\ (d = c => at'[d] # "download")
  BY <1>1 DEF AccessInv
<1>3. at[c] # "done"
  BY DEF Ended
<1> QED
  BY <1>2, <1>3 DEF FileInv, Whole

LEMMA MetadataFiles ==
    ASSUME AccessInv, FileInv, NEW c \in Calls, ReadMetadata(c)
    PROVE  FileInv'
<1>1. at[c] = "metadata" /\ given' = given
  BY DEF ReadMetadata
<1>2. \/ /\ metadata' = [metadata EXCEPT ![c] = metadataOf(file)]
         /\ Downloadable(file) /\ Continue(c, "download")
      \/ metadata' = metadata /\ \E answer : Rejected(c, answer)
  BY DEF ReadMetadata
<1>3. metadataOf(file).kind = file.kind
  BY DEF metadataOf
<1>4. given[c] = NoFile
  BY <1>1 DEF FileInv
<1>5. CASE \E answer : Rejected(c, answer) /\ metadata' = metadata
  <2>1. \E s \in {"stuck", "done"} : at' = [at EXCEPT ![c] = s]
    BY <1>5 DEF Rejected, Settle, Continue, Step
  <2>2. \A d \in Calls : (d # c => at'[d] = at[d]) /\ (d = c => at'[d] # "download")
    BY <2>1 DEF AccessInv
  <2> QED
    BY <1>1, <1>4, <1>5, <2>2 DEF FileInv, Whole
<1>6. CASE metadata' = [metadata EXCEPT ![c] = metadataOf(file)] /\ Downloadable(file) /\ Continue(c, "download")
  <2>1. at' = [at EXCEPT ![c] = "download"]
    BY <1>6 DEF Continue, Step
  <2>2. metadata'[c].kind = "fileAttachment"
    BY <1>3, <1>6 DEF Downloadable, FileInv
  <2>3. \A d \in Calls : d # c => at'[d] = at[d] /\ metadata'[d] = metadata[d]
    BY <1>6, <2>1 DEF AccessInv, FileInv
  <2>4. metadata' = [d \in Calls |-> metadata'[d]]
    BY <1>6 DEF FileInv
  <2> QED
    BY <1>1, <1>4, <2>2, <2>3, <2>4 DEF FileInv, Whole
<1> QED
  BY <1>2, <1>5, <1>6

LEMMA DownloadFiles ==
    ASSUME AccessInv, FileInv, NEW c \in Calls, DownloadAttachment(c)
    PROVE  FileInv'
<1>1. at[c] = "download" /\ metadata' = metadata
  BY DEF DownloadAttachment
<1>2. \/ /\ given' = [given EXCEPT ![c] = file]
         /\ Agrees(metadata[c], file) /\ Settle(c, "ok")
      \/ given' = given /\ \E answer : Rejected(c, answer)
  BY DEF DownloadAttachment
<1>3. CASE given' = given /\ \E answer : Rejected(c, answer)
  BY <1>1, <1>3, FileStays, RejectedGoes DEF Ended
<1>4. CASE given' = [given EXCEPT ![c] = file] /\ Agrees(metadata[c], file) /\ Settle(c, "ok")
  <2>1. at' = [at EXCEPT ![c] = "done"]
    BY <1>4 DEF Settle, Step
  <2>2. /\ metadata[c].kind = metadataOf(file).kind
        /\ metadata[c].name = metadataOf(file).name
        /\ file.bytes <= DownloadLimit /\ file.bytes = file.size
    BY <1>4 DEF Agrees, WithinLimit
  <2>3. metadataOf(file).kind = file.kind /\ metadataOf(file).name = file.name
    BY DEF metadataOf
  <2>4. metadata[c].kind = "fileAttachment"
    BY <1>1 DEF FileInv
  <2>5. given'[c] = file /\ at'[c] = "done"
    BY <1>4, <2>1 DEF AccessInv, FileInv
  <2>6. \A d \in Calls : d # c => at'[d] = at[d] /\ given'[d] = given[d]
    BY <1>4, <2>1 DEF AccessInv, FileInv
  <2>7. given' = [d \in Calls |-> given'[d]]
    BY <1>4 DEF FileInv
  <2> QED
    BY <1>1, <2>2, <2>3, <2>4, <2>5, <2>6, <2>7 DEF FileInv, Whole
<1> QED
  BY <1>2, <1>3, <1>4

LEMMA InitFiles == Init => FileInv
BY DEF Init, MailInit, FileInv

LEMMA NextFiles ==
    ASSUME AccessInv, FileInv, [Next]_vars
    PROVE  FileInv'
<1>1. CASE UNCHANGED vars
  BY <1>1 DEF vars, callVars, mailVars, FileInv, Whole
<1>2. ASSUME NEW c \in Calls, NewCall(c) PROVE FileInv'
  <2>1. Continue(c, "auth") /\ at[c] = "new" /\ UNCHANGED <<metadata, given>>
    BY <1>2 DEF NewCall, Call, mailVars
  <2>2. Goes(c)
    BY <2>1 DEF Goes, Follows
  <2> QED
    BY <2>1, <2>2, FileStays DEF Ended
<1>3. ASSUME NEW c \in Calls, CallStep(c) PROVE FileInv'
  <2>1. Goes(c) /\ at[c] \notin Ended
    BY <1>3, CallGoes
  <2>2. CASE ReadMetadata(c) \/ DownloadAttachment(c)
    BY <2>2, MetadataFiles, DownloadFiles
  <2>3. CASE ~(ReadMetadata(c) \/ DownloadAttachment(c))
    <3>1. at[c] # "metadata" /\ UNCHANGED <<metadata, given>>
      BY <1>3, <2>3 DEF CallStep, ItemStep, MailStep, FetchPage, mailVars, CreateSession, UploadChunk,
         TurnDown, NoToken, ItemLook, ItemAct, FolderStep, Authenticated, ListChildren, PostFolder, Reach,
         MoveNext, ListRules, PostRule, Reorder
    <3> QED
      BY <2>1, <3>1, FileStays
  <2> QED
    BY <2>2, <2>3
<1>4. ASSUME NEW s \in Servers, Dies(s) PROVE FileInv'
  <2>1. /\ at' = [c \in Calls |-> IF InCall(c) /\ Host(c) = s THEN "gone" ELSE at[c]]
        /\ UNCHANGED <<metadata, given>>
    BY <1>4 DEF Dies, mailVars
  <2> QED
    BY <2>1 DEF FileInv, Whole, InCall
<1>5. ASSUME NEW s \in Servers, LogStep(s) \/ LogFault(s) PROVE FileInv'
  <2>1. UNCHANGED <<at, metadata, given>>
    BY <1>5 DEF LogStep, LogFault, callVars, mailVars
  <2> QED
    BY <2>1 DEF FileInv, Whole
<1>6. ASSUME Other PROVE FileInv'
  <2>1. UNCHANGED <<at, metadata, given>>
    BY <1>6 DEF Other, OwnerArranges, OwnerDeletes, BoxChanges, FileChanges, callVars, mailVars
  <2> QED
    BY <2>1 DEF FileInv, Whole
<1> QED
  BY <1>1, <1>2, <1>3, <1>4, <1>5, <1>6 DEF Next

\* An attachment that is handed over is one version of a file, of the size and
\* the name that were shown, whoever replaces it between the two reads.
THEOREM AttachmentsWhole == Spec => []AttachmentWhole
<1>1. AccessInv /\ FileInv /\ [Next]_vars => FileInv'
  BY NextFiles
<1>2. FileInv => AttachmentWhole
  BY DEF FileInv, Whole, AttachmentWhole
<1> QED
  BY InitFiles, AccessInvariant, <1>1, <1>2, PTL DEF Spec

-----------------------------------------------------------------------------
\* Listing and searching over pages

\* The pieces of a sequence of sequences over S, put together, are one over S.
LEMMA FlattenType ==
    ASSUME NEW S, NEW n \in Nat, NEW r \in [1 .. n -> Seq(S)]
    PROVE  FlattenSeq(r) \in Seq(S)
<1> DEFINE Is(h, m) == h = [i \in 1 .. m |-> IF i = 1 THEN r[i] ELSE h[i - 1] \o r[i]]
           fl == CHOOSE h : Is(h, n)
           none == {m \in 1 .. n : ~ \E h : Is(h, m)}
<1>0. Len(r) = n /\ 1 .. n \subseteq Nat
  OBVIOUS
<1>1. CASE n = 0
  <2>1. FlattenSeq(r) = r
    BY <1>0, <1>1 DEF FlattenSeq
  <2>2. r = <<>>
    BY <1>1
  <2> QED
    BY <2>1, <2>2
<1>2. CASE n # 0
  <2>1. ASSUME none # {} PROVE FALSE
    <3>1. PICK m \in none : \A k \in none : m <= k
      <4>1. none \subseteq Nat
        BY <1>0, Zenon
      <4> QED
        BY <2>1, <4>1, Least, Zenon
    <3>2. m \in 1 .. n /\ ~ \E h : Is(h, m)
      BY <3>1
    <3>3. CASE m = 1
      <4>1. PICK g : g = [i \in 1 .. m |-> r[i]]
        OBVIOUS
      <4>2. Is(g, m)
        BY <3>3, <4>1
      <4> QED
        BY <3>2, <4>2, Zenon
    <3>4. CASE m # 1
      <4>1. m - 1 \in 1 .. n /\ ~(m <= m - 1)
        BY <3>2, <3>4
      <4>2. m - 1 \notin none
        BY <3>1, <4>1, Zenon
      <4>3. PICK h : Is(h, m - 1)
        BY <4>1, <4>2, Zenon
      <4>4. PICK g : g = [i \in 1 .. m |-> IF i = m THEN h[m - 1] \o r[m] ELSE h[i]]
        OBVIOUS
      <4>5. ASSUME NEW i \in 1 .. m PROVE g[i] = IF i = 1 THEN r[i] ELSE g[i - 1] \o r[i]
        <5>1. CASE i = m
          <6>1. i - 1 \in 1 .. m /\ i - 1 # m /\ i # 1
            BY <3>4, <5>1
          <6>2. g[i] = h[m - 1] \o r[m] /\ g[i - 1] = h[i - 1]
            BY <4>4, <5>1, <6>1
          <6> QED
            BY <5>1, <6>1, <6>2
        <5>2. CASE i # m
          <6>1. i \in 1 .. m - 1 /\ (i # 1 => i - 1 \in 1 .. m /\ i - 1 # m)
            BY <5>2
          <6>2. h[i] = IF i = 1 THEN r[i] ELSE h[i - 1] \o r[i]
            BY <4>3, <6>1, Zenon
          <6>3. g[i] = h[i] /\ (i # 1 => g[i - 1] = h[i - 1])
            BY <4>4, <5>2, <6>1
          <6> QED
            BY <6>2, <6>3, Zenon
        <5> QED
          BY <5>1, <5>2
      <4>6. Is(g, m)
        BY <4>4, <4>5, Zenon
      <4> QED
        BY <3>2, <4>6, Zenon
    <3> QED
      BY <3>3, <3>4
  <2>2. n \in 1 .. n
    BY <1>2
  <2>3. Is(fl, n)
    <3>1. \E h : Is(h, n)
      BY <2>1, <2>2, Zenon
    <3> QED
      BY <3>1, Zenon
  <2>4. FlattenSeq(r) = fl[n]
    <3>1. Len(r) # 0
      BY <1>0, <1>2
    <3> QED
      BY <1>0, <3>1, Zenon DEF FlattenSeq
  <2> HIDE DEF fl
  <2> DEFINE bad == {i \in 1 .. n : fl[i] \notin Seq(S)}
  <2>5. ASSUME bad # {} PROVE FALSE
    <3>1. PICK i \in bad : \A k \in bad : i <= k
      <4>1. bad \subseteq Nat
        OBVIOUS
      <4> QED
        BY <2>5, <4>1, Least, Zenon
    <3>2. i \in 1 .. n /\ fl[i] \notin Seq(S)
      BY <3>1
    <3>3. fl[i] = IF i = 1 THEN r[i] ELSE fl[i - 1] \o r[i]
      BY <2>3, <3>2, Zenon
    <3>4. i # 1 => i - 1 \in 1 .. n /\ i - 1 \notin bad
      BY <3>1
    <3>5. i # 1 => fl[i - 1] \in Seq(S)
      BY <3>4
    <3>6. r[i] \in Seq(S)
      BY <3>2
    <3> QED
      BY <3>2, <3>3, <3>5, <3>6
  <2>6. fl[n] \in Seq(S)
    BY <2>2, <2>5, Zenon
  <2> QED
    BY <2>4, <2>6, Zenon
<1> QED
  BY <1>1, <1>2

\* The messages of a box that are in a set are messages of that set.
LEMMA OnlyThose ==
    ASSUME NEW T, NEW b \in Seq(T), NEW A
    PROVE  Only(b, A) \in Seq(T \cap A)
<1> DEFINE r == [i \in DOMAIN b |-> IF b[i] \in A THEN <<b[i]>> ELSE <<>>]
<1>1. Len(b) \in Nat /\ DOMAIN b = 1 .. Len(b)
  OBVIOUS
<1>2. ASSUME NEW i \in DOMAIN b PROVE (IF b[i] \in A THEN <<b[i]>> ELSE <<>>) \in Seq(T \cap A)
  <2>1. b[i] \in T
    BY ElementType
  <2>2. \A x \in T \cap A : <<x>> \in Seq(T \cap A)
    OBVIOUS
  <2>3. <<>> \in Seq(T \cap A)
    BY EmptySeq
  <2> QED
    BY <2>1, <2>2, <2>3, Zenon
<1>3. r \in [1 .. Len(b) -> Seq(T \cap A)]
  BY <1>1, <1>2
<1> HIDE DEF r
<1>4. FlattenSeq(r) \in Seq(T \cap A)
  BY <1>1, <1>3, FlattenType
<1> QED
  BY <1>4 DEF Only, r

\* The messages that satisfy every term and filter of a call.
Fitting(c) == {m \in Message : Wanted(asked(c).search, m.has)}

Calm(c) == ~boxMoved[c] /\ ~fault[c]

\* What a call has received: the messages before its place in what Graph has
\* for it; and what it has at the end.
Listing(c) ==
    /\ got[c] \in Seq(Fitting(c)) /\ next[c] \in Nat
    /\ report[c] = "ok" => at[c] = "done"
    /\ at[c] \notin Ended \cup {"page"} => got[c] = <<>> /\ next[c] = 0
    /\ at[c] = "page" /\ Calm(c) => next[c] <= Len(Hits(c)) /\ got[c] = Piece(Hits(c), 0, next[c])
    /\ report[c] = "ok" /\ Lists(c) =>
         /\ Len(got[c]) <= requestedCount(c)
         /\ Calm(c) => got[c] = Piece(Hits(c), 0, Smaller(Len(Hits(c)), requestedCount(c)))

ListInv ==
    /\ box \in Seq(Message)
    /\ got = [c \in Calls |-> got[c]]
    /\ next = [c \in Calls |-> next[c]]
    /\ boxMoved = [c \in Calls |-> boxMoved[c]]
    /\ walk = [c \in Calls |-> walk[c]]
    /\ \A c \in Calls : Listing(c)

\* What Graph has for a search are messages that satisfy it.
LEMMA FoundFits ==
    ASSUME NEW b \in Seq(Message), NEW folder, NEW search
    PROVE  Only(b, {m \in Range(b) : m.folder = folder /\ Matched(buildSearchParams(search), m.has)})
             \in Seq({m \in Message : Wanted(search, m.has)})
<1> DEFINE A == {m \in Range(b) : m.folder = folder /\ Wanted(search, m.has)}
           W == {m \in Message : Wanted(search, m.has)}
<1>1. Message \cap A \subseteq W
  OBVIOUS
<1>2. \A m : Matched(buildSearchParams(search), m.has) <=> Wanted(search, m.has)
  BY SearchIsWanted, Zenon
<1>3. {m \in Range(b) : m.folder = folder /\ Matched(buildSearchParams(search), m.has)} = A
  BY <1>2
<1> HIDE DEF A, W
<1>4. Only(b, A) \in Seq(Message \cap A)
  BY OnlyThose
<1>5. Only(b, A) \in Seq(W)
  BY <1>1, <1>4
<1> QED
  BY <1>3, <1>5 DEF W

LEMMA HitsFit ==
    ASSUME NEW c, box \in Seq(Message)
    PROVE  Hits(c) \in Seq(Fitting(c))
BY FoundFits DEF Hits, Params, Fitting

LEMMA CountPositive ==
    ASSUME scene \in Scenes, NEW c \in DOMAIN scene.asked
    PROVE  requestedCount(c) \in Nat \ {0}
<1>1. asked(c).count \in Nat
  BY MailAssumption DEF asked
<1> QED
  BY <1>1, MailAssumption DEF requestedCount, Smaller

\* A stretch of a sequence that Graph returns as a page.
LEMMA PageIsPiece ==
    ASSUME NEW S, NEW q \in Seq(S), NEW lo \in Nat, NEW hi \in Nat, hi <= Len(q)
    PROVE  /\ SubSeq(q, lo + 1, hi) \in Seq(S)
           /\ lo <= hi => SubSeq(q, lo + 1, hi) = Piece(q, lo, hi)
<1>1. CASE lo <= hi
  <2>1. \A i \in 1 .. hi - lo : SubSeq(q, lo + 1, hi)[i] = q[lo + i]
    BY <1>1
  <2>2. SubSeq(q, lo + 1, hi) \in Seq(S) /\ Len(SubSeq(q, lo + 1, hi)) = hi - lo
    BY <1>1
  <2>3. SubSeq(q, lo + 1, hi) = [i \in 1 .. hi - lo |-> SubSeq(q, lo + 1, hi)[i]]
    BY <2>2, SeqIsFunction
  <2>4. SubSeq(q, lo + 1, hi) = [i \in 1 .. hi - lo |-> q[lo + i]]
    BY <2>1, <2>3, Zenon
  <2> QED
    BY <2>2, <2>4 DEF Piece
<1>2. CASE ~(lo <= hi)
  BY <1>2, EmptySeq
<1> QED
  BY <1>1, <1>2

\* The first k elements of the first n.
LEMMA PieceOfFirst ==
    ASSUME NEW S, NEW q \in Seq(S), NEW n \in Nat, n <= Len(q), NEW k \in Nat, k <= n
    PROVE  SubSeq(Piece(q, 0, n), 1, k) = Piece(q, 0, k)
<1> DEFINE p == Piece(q, 0, n)
<1>1. p \in Seq(S) /\ Len(p) = n
  BY PieceSeq
<1>2. \A i \in 1 .. k : p[0 + i] = q[0 + i]
  BY DEF Piece
<1> HIDE DEF p
<1>3. SubSeq(p, 0 + 1, k) = Piece(p, 0, k)
  <2>1. 0 \in Nat /\ 0 <= k /\ k <= Len(p)
    BY <1>1
  <2> QED
    BY <1>1, <2>1, PageIsPiece, Zenon
<1>4. Piece(p, 0, k) = Piece(q, 0, k)
  BY <1>2 DEF Piece
<1> QED
  BY <1>3, <1>4 DEF p

LEMMA InitList == Init => ListInv
<1>1. SUFFICES ASSUME Init PROVE ListInv
  OBVIOUS
<1>2. scene \in Scenes /\ box = scene.box
  BY <1>1 DEF Init
<1>3. box \in Seq(Message)
  BY <1>2, MailAssumption
<1>4. /\ got = [c \in Calls |-> <<>>] /\ next = [c \in Calls |-> 0] /\ boxMoved = [c \in Calls |-> FALSE]
      /\ at = [c \in Calls |-> "new"] /\ report = [c \in Calls |-> "none"]
      /\ walk = [c \in Calls |-> [todo |-> {}, listed |-> {}, goal |-> "", found |-> Root]]
  BY <1>1 DEF Init, MailInit, FolderInit
<1>5. ASSUME NEW c \in Calls PROVE Listing(c)
  <2>1. got[c] = <<>> /\ next[c] = 0 /\ at[c] = "new" /\ report[c] = "none"
    BY <1>4
  <2>2. <<>> \in Seq(Fitting(c))
    BY EmptySeq
  <2> QED
    BY <2>1, <2>2 DEF Listing
<1> QED
  BY <1>3, <1>4, <1>5 DEF ListInv

\* A call that has not changed, and a box that has not either.
LEMMA ListingStays ==
    ASSUME NEW d \in Calls, Listing(d),
           at'[d] = at[d], report'[d] = report[d], got'[d] = got[d], next'[d] = next[d],
           boxMoved'[d] = boxMoved[d], fault'[d] = fault[d], walk'[d] = walk[d], UNCHANGED <<scene, box>>
    PROVE  Listing(d)'
<1>1. Hits(d)' = Hits(d) /\ Fitting(d)' = Fitting(d) /\ requestedCount(d)' = requestedCount(d) /\ Lists(d)' = Lists(d)
  BY DEF Hits, Params, Fitting, requestedCount, Lists, Handler, ToolFor, asked
<1>2. Calm(d)' <=> Calm(d)
  BY DEF Calm
<1> QED
  BY <1>1, <1>2 DEF Listing

\* A step of one call leaves the others as they are.
LEMMA ListOfOthers ==
    ASSUME AccessInv, TruthInv, ListInv, NEW c \in Calls, Goes(c), UNCHANGED <<scene, box, boxMoved>>,
           Alone(got, got', c), Alone(next, next', c), Alone(fault, fault', c), Alone(walk, walk', c), Listing(c)'
    PROVE  ListInv'
<1>1. Alone(at, at', c) /\ Alone(report, report', c)
  BY StageAndReport
<1>2. /\ got' = [d \in Calls |-> got'[d]]
      /\ next' = [d \in Calls |-> next'[d]]
      /\ walk' = [d \in Calls |-> walk'[d]]
  BY OneChanges DEF ListInv
<1>3. ASSUME NEW d \in Calls, d # c PROVE Listing(d)'
  <2>1. \A f, g : f = [e \in Calls |-> f[e]] /\ Alone(f, g, c) => g[d] = f[d]
    BY <1>3, OneChanges
  <2>2. /\ at'[d] = at[d] /\ report'[d] = report[d] /\ got'[d] = got[d] /\ next'[d] = next[d]
        /\ fault'[d] = fault[d] /\ walk'[d] = walk[d] /\ boxMoved'[d] = boxMoved[d]
    BY <1>1, <2>1 DEF AccessInv, TruthInv, ListInv
  <2>3. Listing(d)
    BY DEF ListInv
  <2> QED
    BY <2>2, <2>3, ListingStays
<1> QED
  BY <1>2, <1>3 DEF ListInv

\* A step of a call that receives no messages.
LEMMA ListAside ==
    ASSUME AccessInv, TruthInv, ListInv, NEW c \in Calls, Goes(c), at[c] \notin Ended \cup {"page"},
           UNCHANGED <<scene, box, boxMoved, got, next>>, Alone(fault, fault', c), Alone(walk, walk', c),
           at'[c] = "done" /\ report'[c] = "ok" => ~Lists(c)
    PROVE  ListInv'
<1>1. Listing(c)
  BY DEF ListInv
<1>2. got'[c] = <<>> /\ next'[c] = 0
  BY <1>1 DEF Listing
<1>3. Lists(c)' = Lists(c)
  BY DEF Lists, Handler, ToolFor, asked
<1>4. report[c] # "ok"
  BY <1>1 DEF Listing, Ended
<1>5. report'[c] = "ok" => at'[c] = "done"
  BY <1>4 DEF Goes, Settle, Continue, Step, AccessInv, TruthInv
<1>6. at'[c] = "page" => 0 <= Len(Hits(c)') /\ Piece(Hits(c)', 0, 0) = <<>>
  <2>1. Hits(c)' \in Seq(Fitting(c)')
    <3>1. box' \in Seq(Message)
      BY DEF ListInv
    <3> QED
      BY <3>1, FoundFits DEF Hits, Params, Fitting
  <2>2. Len(Hits(c)') \in Nat
    BY <2>1
  <2>3. \A S, q : q \in Seq(S) /\ 0 <= Len(q) => Piece(q, 0, 0) = <<>>
    BY PieceEmpty
  <2> QED
    BY <2>1, <2>2, <2>3
<1>7. <<>> \in Seq(Fitting(c)')
  BY EmptySeq
<1>8. Listing(c)'
  BY <1>2, <1>3, <1>5, <1>6, <1>7 DEF Listing
<1> QED
  BY <1>8, ListOfOthers DEF Alone

\* Who reports success at the end of a listing.
LEMMA ListsOnly ==
    ASSUME AccessInv, TruthInv, NEW c \in Calls, CallStep(c), at[c] # "page", Lists(c),
           at'[c] = "done", report'[c] = "ok"
    PROVE  FALSE
<1>1. at[c] \notin Ended \cup {"new"}
  BY CallGoes
<1>2. PlacedAt(c, at[c]) /\ Handler(c).flow = "list"
  BY <1>1, InCallFacts DEF Lists
<1>3. at[c] \notin {"look", "act", "rules", "reach", "move", "session", "chunk", "metadata", "download", "post"}
  BY <1>2 DEF PlacedAt
<1>4. TurnDown(c) \/ NoToken(c) \/ Authenticated(c) \/ \E p : ListChildren(c, p)
  BY <1>3 DEF CallStep, ItemStep, ItemLook, ItemAct, FolderStep, MailStep, FetchPage, ReadMetadata,
     DownloadAttachment, CreateSession, UploadChunk, PostFolder, Reach, MoveNext, ListRules, PostRule, Reorder
<1>5. CASE TurnDown(c) \/ NoToken(c)
  BY <1>5, SettleSays DEF TurnDown, NoToken
<1>6. CASE Authenticated(c)
  BY <1>6, EntryGoesOn, ContinueSays DEF Authenticated
<1>7. ASSUME NEW p, ListChildren(c, p) PROVE FALSE
  <2>1. \/ \E listed : Resolved(c, listed)
        \/ Settle(c, "refusal") \/ Settle(c, "error")
        \/ Continue(c, "walk") \/ Continue(c, "stuck")
    BY <1>7 DEF ListChildren
  <2>2. ASSUME NEW listed, Resolved(c, listed) PROVE Settle(c, "error") \/ Settle(c, "preview") \/ Continue(c, "page")
    BY <1>2, <2>2 DEF Resolved, Found
  <2> QED
    BY <2>1, <2>2, SettleSays, ContinueSays
<1> QED
  BY <1>4, <1>5, <1>6, <1>7

\* The steps of the walk change it for the call that takes them.
LEMMA WalkAlone ==
    ASSUME AccessInv, ListInv, NEW c \in Calls, FolderStep(c)
    PROVE  Alone(walk, walk', c)
<1>1. CASE Authenticated(c)
  BY <1>1 DEF Authenticated, StartWalk, Alone
<1>2. ASSUME NEW p, ListChildren(c, p) PROVE Alone(walk, walk', c)
  <2>1. \/ \E listed : Resolved(c, listed)
        \/ \E todo, listed : walk' = [walk EXCEPT ![c].todo = todo, ![c].listed = listed]
        \/ walk' = walk
    BY <1>2 DEF ListChildren
  <2>2. ASSUME NEW listed, Resolved(c, listed) PROVE Alone(walk, walk', c)
    <3>1. at[c] = "walk"
      BY <1>2 DEF ListChildren
    <3>2. Handler(c).flow \in Walking
      BY <3>1, InCallFacts DEF PlacedAt
    <3> QED
      BY <2>2, <3>2 DEF Resolved, Walking, Found, StartWalk, Alone
  <2>3. ASSUME NEW todo, NEW listed, walk' = [walk EXCEPT ![c].todo = todo, ![c].listed = listed]
        PROVE  Alone(walk, walk', c)
    BY <2>3 DEF Alone, ListInv
  <2> QED
    BY <2>1, <2>2, <2>3 DEF Alone
<1>3. CASE ListRules(c)
  <2>1. at[c] = "rules"
    BY <1>3 DEF ListRules
  <2>2. Handler(c).flow \in {"listRules", "createRule", "reorderRule"}
    BY <2>1, InCallFacts DEF PlacedAt
  <2>3. walk' = walk \/ \E id : walk' = [walk EXCEPT ![c].goal = id]
    BY <1>3, <2>2 DEF ListRules
  <2> QED
    BY <2>3 DEF Alone
<1>4. CASE PostFolder(c) \/ Reach(c) \/ MoveNext(c) \/ PostRule(c) \/ Reorder(c)
  BY <1>4 DEF PostFolder, Reach, MoveNext, PostRule, Reorder, folderVars, Alone
<1> QED
  BY <1>1, <1>2, <1>3, <1>4 DEF FolderStep

LEMMA CallAside ==
    ASSUME AccessInv, TruthInv, ListInv, NEW c \in Calls, CallStep(c), at[c] # "page"
    PROVE  ListInv'
<1>1. Goes(c) /\ at[c] \notin Ended \cup {"page"} /\ scene' = scene
  BY CallGoes DEF Ended
<1>2. at'[c] = "done" /\ report'[c] = "ok" => ~Lists(c)
  BY ListsOnly
<1>3. UNCHANGED <<box, boxMoved, got, next>>
  BY DEF CallStep, ItemStep, MailStep, FetchPage, ReadMetadata, DownloadAttachment, CreateSession, UploadChunk, mailVars
<1>4. Alone(walk, walk', c)
  <2>1. CASE FolderStep(c)
    BY <2>1, WalkAlone
  <2>2. CASE ~FolderStep(c)
    BY <2>2 DEF CallStep, ItemStep, MailStep, FetchPage, ReadMetadata, DownloadAttachment, CreateSession, UploadChunk,
       folderVars, Alone
  <2> QED
    BY <2>1, <2>2
<1>5. Alone(fault, fault', c)
  BY BlameAlone DEF CallStep, ItemStep, TurnDown, NoToken, ItemLook, ItemAct, FolderStep, Authenticated, ListChildren,
     PostFolder, Reach, MoveNext, ListRules, PostRule, Reorder, MailStep, FetchPage, ReadMetadata, DownloadAttachment,
     CreateSession, UploadChunk, callVars, Alone, Continue
<1> QED
  BY <1>1, <1>2, <1>3, <1>4, <1>5, ListAside

LEMMA PageList ==
    ASSUME AccessInv, TruthInv, ListInv, NEW c \in Calls, FetchPage(c)
    PROVE  ListInv'
<1> DEFINE h    == Hits(c)
           F    == Fitting(c)
           req  == requestedCount(c)
           top  == Smaller(PageSize, req)
           upTo == Smaller(next[c] + top, Len(h))
           page == SubSeq(h, next[c] + 1, upTo)
<1>1. at[c] = "page" /\ UNCHANGED <<scene, box, boxMoved, walk>>
  BY DEF FetchPage, folderVars
<1>2. req \in Nat \ {0}
  BY <1>1, InCallFacts, CountPositive
<1>3. h \in Seq(F) /\ Len(h) \in Nat
  <2>1. h \in Seq(F)
    BY HitsFit DEF ListInv
  <2> QED
    BY <2>1
<1>4. Listing(c)
  BY DEF ListInv
<1>5. next[c] \in Nat /\ got[c] \in Seq(F) /\ report[c] # "ok"
  BY <1>1, <1>4 DEF Listing
<1>6. upTo \in Nat /\ upTo <= Len(h) /\ (next[c] <= Len(h) => next[c] <= upTo)
  <2>1. top \in Nat
    BY <1>2, MailAssumption DEF Smaller
  <2> HIDE DEF top, h
  <2> QED
    BY <1>3, <1>5, <2>1 DEF Smaller
<1> DEFINE all(answer) == IF answer = "ok" THEN got[c] \o page ELSE got[c]
           ends(answer) == Enough(all(answer), req) \/ ~(answer = "ok" /\ upTo < Len(h))
<1>7. PICK answer \in Replies(There(walk[c].found)) :
        /\ Blame(c, answer, TRUE)
        /\ IF ~Resolves(answer) THEN Rejected(c, answer) /\ UNCHANGED <<got, next>>
           ELSE IF ends(answer)
           THEN /\ got' = [got EXCEPT ![c] = UpTo(all(answer), req)]
                /\ Settle(c, "ok")
                /\ UNCHANGED next
           ELSE /\ got' = [got EXCEPT ![c] = all(answer)]
                /\ next' = [next EXCEPT ![c] = upTo]
                /\ Continue(c, "page")
  BY DEF FetchPage
<1>8. /\ Hits(c)' = h /\ Fitting(c)' = F /\ requestedCount(c)' = req /\ Lists(c)' = Lists(c)
  BY <1>1 DEF Hits, Params, Fitting, requestedCount, Lists, Handler, ToolFor, asked
<1> HIDE DEF h, F, req, top, upTo
<1>9. page \in Seq(F) /\ (next[c] <= upTo => page = Piece(h, next[c], upTo))
  BY <1>3, <1>5, <1>6, PageIsPiece
<1> HIDE DEF page
<1>10. all(answer) \in Seq(F)
  BY <1>5, <1>7, <1>9
<1>11. Calm(c)' => answer = "ok" /\ Calm(c)
  <2>1. fault'[c] <=> (fault[c] \/ answer \notin {"ok", "refused"} \/ answer = "refused")
    BY <1>7 DEF Blame, TruthInv
  <2> QED
    BY <1>1, <2>1 DEF Calm
<1>12. ASSUME Calm(c)'
       PROVE  all(answer) = Piece(h, 0, upTo)
  <2>1. next[c] <= Len(h) /\ got[c] = Piece(h, 0, next[c])
    BY <1>1, <1>4, <1>11, <1>12 DEF Listing, h
  <2>2. all(answer) = Piece(h, 0, next[c]) \o Piece(h, next[c], upTo)
    BY <1>6, <1>7, <1>9, <1>11, <1>12, <2>1
  <2>3. 0 \in Nat /\ 0 <= next[c] /\ next[c] <= upTo
    BY <1>5, <1>6, <2>1
  <2>4. Piece(h, 0, next[c]) \o Piece(h, next[c], upTo) = Piece(h, 0, upTo)
    BY <1>3, <1>5, <1>6, <2>3, PieceJoin
  <2> QED
    BY <2>2, <2>4, Zenon
<1>13. Goes(c)
  <2>1. Rejected(c, answer) \/ Settle(c, "ok") \/ Continue(c, "page")
    BY <1>7
  <2> QED
    BY <2>1, RejectedGoes DEF Goes, Follows
<1>14. Alone(got, got', c) /\ Alone(next, next', c) /\ Alone(fault, fault', c) /\ Alone(walk, walk', c)
  BY <1>1, <1>7, BlameAlone DEF Alone
<1>15. CASE ~Resolves(answer)
  <2>1. got'[c] = got[c] /\ next'[c] = next[c] /\ Rejected(c, answer)
    BY <1>7, <1>15
  <2>2. (at'[c] = "stuck" /\ report' = report) \/ (at'[c] = "done" /\ report'[c] = "error")
    <3>1. Continue(c, "stuck") \/ Settle(c, "error")
      BY <2>1 DEF Rejected
    <3>2. Continue(c, "stuck") => report' = report
      BY DEF Continue
    <3> QED
      BY <3>1, <3>2, SettleSays, ContinueSays, Zenon
  <2>3. Listing(c)'
    BY <1>5, <1>8, <2>1, <2>2 DEF Listing, Ended
  <2> QED
    BY <1>1, <1>13, <1>14, <2>3, ListOfOthers
<1>16. CASE Resolves(answer) /\ ends(answer)
  <2>1. got'[c] = UpTo(all(answer), req) /\ next'[c] = next[c] /\ at'[c] = "done"
    BY <1>7, <1>16, SettleSays DEF ListInv
  <2>2. got'[c] \in Seq(F) /\ Len(got'[c]) <= req
    BY <1>2, <1>10, <2>1 DEF UpTo
  <2>3. ASSUME Calm(c)'
        PROVE  got'[c] = Piece(h, 0, Smaller(Len(h), req))
    <3>1. all(answer) = Piece(h, 0, upTo) /\ Len(all(answer)) = upTo
      BY <1>3, <1>6, <1>12, <2>3, PieceSeq
    <3>2. CASE req < upTo
      <4>1. UpTo(all(answer), req) = SubSeq(all(answer), 1, req)
        BY <1>2, <3>1, <3>2 DEF UpTo
      <4>2. SubSeq(Piece(h, 0, upTo), 1, req) = Piece(h, 0, req)
        BY <1>2, <1>3, <1>6, <3>2, PieceOfFirst
      <4>3. Smaller(Len(h), req) = req
        BY <1>2, <1>3, <1>6, <3>2 DEF Smaller
      <4> QED
        BY <2>1, <3>1, <4>1, <4>2, <4>3
    <3>3. CASE ~(req < upTo)
      <4>1. UpTo(all(answer), req) = all(answer)
        BY <1>2, <1>6, <3>1, <3>3 DEF UpTo
      <4>2. upTo = req \/ upTo = Len(h)
        BY <1>2, <1>3, <1>6, <1>7, <1>11, <1>16, <2>3, <3>1, <3>3 DEF Enough
      <4>3. Smaller(Len(h), req) = upTo
        BY <1>2, <1>3, <1>6, <3>3, <4>2 DEF Smaller
      <4> QED
        BY <2>1, <3>1, <4>1, <4>3
    <3> QED
      BY <3>2, <3>3
  <2>4. Listing(c)'
    BY <1>5, <1>8, <2>1, <2>2, <2>3 DEF Listing, Ended
  <2> QED
    BY <1>1, <1>13, <1>14, <2>4, ListOfOthers
<1>17. CASE Resolves(answer) /\ ~ends(answer)
  <2>1. got'[c] = all(answer) /\ next'[c] = upTo /\ at'[c] = "page" /\ report' = report
    BY <1>7, <1>17, ContinueSays DEF ListInv, Continue
  <2>2. Listing(c)'
    BY <1>5, <1>6, <1>8, <1>10, <1>12, <2>1 DEF Listing, Ended
  <2> QED
    BY <1>1, <1>13, <1>14, <2>2, ListOfOthers
<1> QED
  BY <1>15, <1>16, <1>17

LEMMA BoxList ==
    ASSUME ListInv, NEW b \in Seq(Message), BoxChanges(b)
    PROVE  ListInv'
<1>1. /\ box' = b
      /\ boxMoved' = [c \in Calls |-> boxMoved[c] \/ at[c] # "new"]
      /\ UNCHANGED <<scene, at, report, fault, got, next, walk>>
  BY DEF BoxChanges, callVars, folderVars
<1>2. ASSUME NEW c \in Calls PROVE Listing(c)'
  <2>1. Listing(c)
    BY DEF ListInv
  <2>2. Fitting(c)' = Fitting(c) /\ requestedCount(c)' = requestedCount(c) /\ Lists(c)' = Lists(c)
    BY <1>1 DEF Fitting, requestedCount, Lists, Handler, ToolFor, asked
  <2>3. at[c] # "new" => ~Calm(c)'
    BY <1>1 DEF Calm
  <2> QED
    BY <1>1, <2>1, <2>2, <2>3 DEF Listing
<1> QED
  BY <1>1, <1>2 DEF ListInv

LEMMA NextList ==
    ASSUME AccessInv, TruthInv, ListInv, [Next]_vars
    PROVE  ListInv'
<1> DEFINE Same == UNCHANGED <<scene, at, report, fault, box, got, next, boxMoved, walk>>
<1>0. ASSUME Same PROVE ListInv'
  <2>1. ASSUME NEW d \in Calls PROVE Listing(d)'
    BY <1>0, ListingStays DEF ListInv
  <2> QED
    BY <1>0, <2>1 DEF ListInv
<1>1. CASE UNCHANGED vars
  BY <1>0, <1>1 DEF vars, callVars, mailVars, folderVars
<1>2. ASSUME NEW c \in Calls, NewCall(c) PROVE ListInv'
  <2>1. Continue(c, "auth") /\ at[c] = "new" /\ UNCHANGED <<scene, fault, box, boxMoved, got, next, walk>>
    BY <1>2 DEF NewCall, Call, mailVars, folderVars
  <2>2. Goes(c)
    BY <2>1 DEF Goes, Follows
  <2>3. at'[c] = "auth"
    BY <2>1, ContinueSays
  <2> QED
    BY <2>1, <2>2, <2>3, ListAside DEF Ended, Alone
<1>3. ASSUME NEW c \in Calls, CallStep(c) PROVE ListInv'
  <2>1. CASE at[c] = "page"
    <3>1. FetchPage(c)
      <4>1. PlacedAt(c, "page") /\ Handler(c).flow = "list"
        BY <2>1, InCallFacts DEF PlacedAt
      <4> QED
        BY <1>3, <2>1 DEF CallStep, ItemStep, MailStep, ReadMetadata, DownloadAttachment, CreateSession, UploadChunk,
           TurnDown, NoToken, ItemLook, ItemAct, FolderStep, Authenticated, ListChildren, PostFolder, Reach,
           MoveNext, ListRules, PostRule, Reorder
    <3> QED
      BY <3>1, PageList
  <2>2. CASE at[c] # "page"
    BY <1>3, <2>2, CallAside
  <2> QED
    BY <2>1, <2>2
<1>4. ASSUME NEW s \in Servers, Dies(s) PROVE ListInv'
  <2>1. /\ at' = [c \in Calls |-> IF InCall(c) /\ Host(c) = s THEN "gone" ELSE at[c]]
        /\ UNCHANGED <<scene, report, fault, box, got, next, boxMoved, walk>>
    BY <1>4 DEF Dies, mailVars, folderVars
  <2>2. ASSUME NEW c \in Calls PROVE Listing(c)'
    <3>1. Listing(c)
      BY DEF ListInv
    <3>2. CASE at'[c] = at[c]
      BY <2>1, <3>1, <3>2, ListingStays
    <3>3. CASE at'[c] # at[c]
      <4>1. at'[c] = "gone" /\ at[c] # "done"
        BY <2>1, <3>3 DEF InCall
      <4>2. Fitting(c)' = Fitting(c)
        BY <2>1 DEF Fitting, asked
      <4> QED
        BY <2>1, <3>1, <4>1, <4>2 DEF Listing, Ended
    <3> QED
      BY <3>2, <3>3
  <2> QED
    BY <2>1, <2>2 DEF ListInv
<1>5. ASSUME NEW s \in Servers, LogStep(s) \/ LogFault(s) PROVE ListInv'
  BY <1>0, <1>5 DEF LogStep, LogFault, callVars, mailVars, folderVars
<1>6. ASSUME Other PROVE ListInv'
  <2>1. CASE \E b \in scene.boxes : BoxChanges(b)
    <3>1. \A b \in scene.boxes : b \in Seq(Message)
      BY MailAssumption DEF AccessInv
    <3> QED
      BY <2>1, <3>1, BoxList
  <2>2. CASE ~ \E b \in scene.boxes : BoxChanges(b)
    BY <1>0, <1>6, <2>2 DEF Other, OwnerArranges, OwnerDeletes, FileChanges, callVars, mailVars, folderVars, Shift
  <2> QED
    BY <2>1, <2>2
<1> QED
  BY <1>1, <1>2, <1>3, <1>4, <1>5, <1>6 DEF Next

LEMMA ListedIsAsked == ASSUME AccessInv, ListInv PROVE ListsWhatWasAsked
<1>1. SUFFICES ASSUME NEW c \in Calls, report[c] = "ok", Lists(c)
      PROVE  /\ \A i \in DOMAIN got[c] : Wanted(asked(c).search, got[c][i].has)
             /\ Len(got[c]) <= requestedCount(c)
             /\ ~boxMoved[c] /\ ~fault[c] /\ shifts[c] = 0 =>
                  LET hits == Only(box, {m \in Range(box) : m.folder = walk[c].found /\ Wanted(asked(c).search, m.has)})
                  IN  got[c] = SubSeq(hits, 1, Smaller(Len(hits), requestedCount(c)))
  BY DEF ListsWhatWasAsked
<1>2. Listing(c) /\ at[c] = "done"
  BY <1>1 DEF ListInv, Listing
<1>3. ASSUME NEW i \in DOMAIN got[c] PROVE Wanted(asked(c).search, got[c][i].has)
  <2>1. got[c][i] \in Fitting(c)
    BY <1>2, <1>3, ElementType DEF Listing
  <2> QED
    BY <2>1 DEF Fitting
<1>4. ASSUME ~boxMoved[c], ~fault[c]
      PROVE  got[c] = SubSeq(Hits(c), 1, Smaller(Len(Hits(c)), requestedCount(c)))
  <2> DEFINE h == Hits(c)
             k == Smaller(Len(h), requestedCount(c))
  <2>1. got[c] = Piece(h, 0, k)
    BY <1>1, <1>2, <1>4 DEF Listing, Calm
  <2>2. h \in Seq(Fitting(c)) /\ Len(h) \in Nat
    <3>1. h \in Seq(Fitting(c))
      BY HitsFit DEF ListInv
    <3> QED
      BY <3>1
  <2>3. requestedCount(c) \in Nat
    BY <1>2, InCallFacts, CountPositive
  <2> HIDE DEF h
  <2>4. k \in Nat /\ k <= Len(h)
    BY <2>2, <2>3 DEF Smaller
  <2> HIDE DEF k
  <2>5. SubSeq(h, 0 + 1, k) = Piece(h, 0, k)
    BY <2>2, <2>4, PageIsPiece
  <2> QED
    BY <2>1, <2>5 DEF h, k
<1>5. Hits(c) = Only(box, {m \in Range(box) : m.folder = walk[c].found /\ Wanted(asked(c).search, m.has)})
  <2>1. \A m : Matched(buildSearchParams(asked(c).search), m.has) <=> Wanted(asked(c).search, m.has)
    BY SearchIsWanted, Zenon
  <2> QED
    BY <2>1 DEF Hits, Params
<1>6. Len(got[c]) <= requestedCount(c)
  BY <1>1, <1>2 DEF Listing
<1> QED
  BY <1>3, <1>4, <1>5, <1>6, Zenon

\* A list or a search that reports success gives the newest messages that were
\* asked for, as many as asked for, however many pages that takes; and if
\* messages come and go meanwhile, still none that was not asked for.
THEOREM ListsAsked == Spec => []ListsWhatWasAsked
<1>1. AccessInv /\ TruthInv /\ ListInv /\ [Next]_vars => ListInv'
  BY NextList
<1>2. AccessInv /\ ListInv => ListsWhatWasAsked
  BY ListedIsAsked
<1>3. AccessInv /\ TruthInv /\ [Next]_vars => TruthInv'
  BY NextTruth
<1> QED
  BY InitList, InitTruth, AccessInvariant, <1>1, <1>2, <1>3, PTL DEF Spec

-----------------------------------------------------------------------------
\* Trees of folders, and what one change makes of them

FolderTree == [FolderIds -> [name : Names \cup {""}, parent : FolderIds \cup {Root}]]

IsTree(t) == t \in FolderTree /\ Forest(t)

\* The children of the members of D are in D.
Closed(t, D) == \A h \in Present(t) : t[h].parent \in D => h \in D

\* A folder is there, under any name, in any folder but those below it; or the
\* folders of a closed set are not.
Arranges(B, T) ==
    \E g \in FolderIds, n \in Names, p \in Present(B) \cup {Root} :
        p \notin Subtree(B, g) /\ T = [B EXCEPT ![g] = [name |-> n, parent |-> p]]

Prunes(B, T) ==
    \E D \in SUBSET FolderIds : Closed(B, D) /\ T = [g \in FolderIds |-> IF g \in D THEN NoFolder ELSE B[g]]

Shifted(B, T) == Arranges(B, T) \/ Prunes(B, T)

LEMMA Unshifted ==
    ASSUME NEW t \in FolderTree
    PROVE  Shifted(t, t)
<1>1. t = [g \in FolderIds |-> IF g \in {} THEN NoFolder ELSE t[g]]
  BY DEF FolderTree
<1>2. Closed(t, {}) /\ {} \in SUBSET FolderIds
  BY DEF Closed
<1> QED
  BY <1>1, <1>2, Zenon DEF Shifted, Prunes

\* A folder and what is below it are the least closed set with the folder.
LEMMA SubtreeFacts ==
    ASSUME NEW t, NEW f \in FolderIds
    PROVE  /\ f \in Subtree(t, f) /\ Subtree(t, f) \subseteq FolderIds
           /\ Closed(t, Subtree(t, f))
           /\ \A S \in SUBSET FolderIds : f \in S /\ Closed(t, S) => Subtree(t, f) \subseteq S
BY DEF Subtree, Closed, Present

LEMMA ArrangedTree ==
    ASSUME NEW B, IsTree(B), NEW T, Arranges(B, T)
    PROVE  IsTree(T)
<1>1. PICK g \in FolderIds, n \in Names, p \in Present(B) \cup {Root} :
          p \notin Subtree(B, g) /\ T = [B EXCEPT ![g] = [name |-> n, parent |-> p]]
  BY DEF Arranges
<1>2. B \in FolderTree /\ Forest(B)
  BY DEF IsTree
<1>3. n \in Names \cup {""} /\ n # "" /\ p \in FolderIds \cup {Root}
  BY <1>1 DEF Names, Present
<1>4. T \in FolderTree /\ T[g] = [name |-> n, parent |-> p] /\ \A h \in FolderIds : h # g => T[h] = B[h]
  BY <1>1, <1>2, <1>3 DEF FolderTree
<1>5. T[g] # NoFolder
  <2>1. [name |-> n, parent |-> p] # NoFolder
    BY <1>3 DEF NoFolder
  <2> QED
    BY <1>4, <2>1, Zenon
<1>6. Present(T) = Present(B) \cup {g}
  BY <1>4, <1>5 DEF Present
<1> DEFINE Sg == Subtree(B, g)
<1>7. g \in Sg /\ Sg \subseteq FolderIds /\ Closed(B, Sg)
  BY SubtreeFacts
<1>8. Closed(T, Sg)
  BY <1>1, <1>4, <1>6, <1>7 DEF Closed, Present
<1> HIDE DEF Sg
<1>9. ASSUME NEW f \in Present(T)
      PROVE  T[f].parent \in (Present(T) \cup {Root}) \ Subtree(T, f)
  <2>1. f \in FolderIds
    BY <1>9 DEF Present
  <2>2. CASE f = g
    <3>1. Subtree(T, f) \subseteq Sg
      BY <1>7, <1>8, <2>1, <2>2, SubtreeFacts
    <3>2. T[f].parent = p
      BY <1>4, <2>2
    <3> QED
      BY <1>1, <1>6, <3>1, <3>2 DEF Sg
  <2>3. CASE f # g
    <3> DEFINE q == B[f].parent
               Sf == Subtree(B, f)
    <3>1. f \in Present(B) /\ T[f].parent = q
      BY <1>4, <1>6, <1>9, <2>1, <2>3
    <3>2. q \in (Present(B) \cup {Root}) \ Sf
      BY <1>2, <3>1 DEF Forest
    <3>3. f \in Sf /\ Sf \subseteq FolderIds /\ Closed(B, Sf)
      BY <2>1, SubtreeFacts
    <3> HIDE DEF Sf, q
    <3>4. CASE p \notin Sf
      <4>1. Closed(T, Sf)
        BY <1>4, <1>6, <3>3, <3>4 DEF Closed, Present
      <4>2. Subtree(T, f) \subseteq Sf
        BY <2>1, <3>3, <4>1, SubtreeFacts
      <4> QED
        BY <1>6, <3>1, <3>2, <4>2
    <3>5. CASE p \in Sf
      <4>1. ASSUME q \in Sg PROVE FALSE
        <5>1. f \in Sg
          BY <1>7, <3>1, <4>1 DEF Closed, q
        <5>2. Sf \subseteq Sg
          BY <1>7, <2>1, <5>1, SubtreeFacts DEF Sf
        <5> QED
          BY <1>1, <3>5, <5>2 DEF Sg
      <4>2. Closed(T, Sf \cup Sg)
        BY <1>4, <1>6, <1>7, <3>3 DEF Closed, Present
      <4>3. Subtree(T, f) \subseteq Sf \cup Sg
        BY <1>7, <2>1, <3>3, <4>2, SubtreeFacts
      <4> QED
        BY <1>6, <3>1, <3>2, <4>1, <4>3
    <3> QED
      BY <3>4, <3>5
  <2> QED
    BY <2>2, <2>3
<1> QED
  BY <1>4, <1>9 DEF IsTree, Forest

LEMMA PrunedTree ==
    ASSUME NEW B, IsTree(B), NEW T, Prunes(B, T)
    PROVE  IsTree(T)
<1>1. PICK D \in SUBSET FolderIds : Closed(B, D) /\ T = [g \in FolderIds |-> IF g \in D THEN NoFolder ELSE B[g]]
  BY DEF Prunes
<1>2. B \in FolderTree /\ Forest(B)
  BY DEF IsTree
<1>3. NoFolder \in [name : Names \cup {""}, parent : FolderIds \cup {Root}]
  BY DEF NoFolder
<1>4. T \in FolderTree
  BY <1>1, <1>2, <1>3 DEF FolderTree
<1>5. \A f \in FolderIds : T[f] = IF f \in D THEN NoFolder ELSE B[f]
  BY <1>1
<1>6. Present(T) = Present(B) \ D
  BY <1>5 DEF Present
<1>7. ASSUME NEW f \in Present(T)
      PROVE  T[f].parent \in (Present(T) \cup {Root}) \ Subtree(T, f)
  <2> DEFINE q == B[f].parent
             Sf == Subtree(B, f)
  <2>1. f \in FolderIds /\ f \in Present(B) /\ f \notin D /\ T[f].parent = q
    BY <1>5, <1>6, <1>7 DEF Present
  <2>2. q \in (Present(B) \cup {Root}) \ Sf
    BY <1>2, <2>1 DEF Forest
  <2>3. f \in Sf /\ Sf \subseteq FolderIds /\ Closed(B, Sf)
    BY <2>1, SubtreeFacts
  <2>4. q \notin D
    BY <1>1, <2>1 DEF Closed
  <2> HIDE DEF Sf, q
  <2>5. Closed(T, Sf)
    BY <1>5, <1>6, <2>3 DEF Closed, Present
  <2>6. Subtree(T, f) \subseteq Sf
    BY <2>1, <2>3, <2>5, SubtreeFacts
  <2> QED
    BY <1>6, <2>1, <2>2, <2>4, <2>6
<1> QED
  BY <1>4, <1>7 DEF IsTree, Forest

LEMMA ShiftedTree ==
    ASSUME NEW B, IsTree(B), NEW T, Shifted(B, T)
    PROVE  IsTree(T)
BY ArrangedTree, PrunedTree DEF Shifted

-----------------------------------------------------------------------------
\* Resolving a path

\* The folders of a path, level by level.
LEMMA PathLevels ==
    ASSUME NEW t, NEW path, Len(path) \in Nat
    PROVE  \E ids :
              /\ ids[0] = {Root}
              /\ \A i \in 1 .. Len(path) :
                    ids[i] = {f \in Present(t) : t[f].parent \in ids[i - 1] /\ t[f].name = path[i]}
              /\ PathIds(t, path) = ids[Len(path)]
<1> DEFINE n == Len(path)
           level(i, above) == {f \in Present(t) : t[f].parent \in above /\ t[f].name = path[i]}
           X == {{Root}} \cup SUBSET FolderIds
           Is(h) == h = [i \in 0 .. n |-> IF i = 0 THEN {Root} ELSE level(i, h[i - 1])]
           it == CHOOSE h : Is(h)
<1>0. \A i, x : level(i, x) \in X
  BY DEF Present
<1>1. PICK nxt : nxt = [p \in Nat \X X |-> level(p[1], p[2])]
  OBVIOUS
<1>2. \A i \in Nat : \A x \in X : nxt[<<i, x>>] = level(i, x)
  BY <1>1, Zenon
<1>3. PICK first \in X : first = {Root}
  OBVIOUS
<1>4. n \in Nat
  OBVIOUS
<1> HIDE DEF X, n, level
<1>5. \A i \in Nat : \A x \in X : nxt[<<i, x>>] \in X
  BY <1>2, <1>0, Zenon
<1>6. PICK f : Iterates(f, X, first, nxt, n)
  BY <1>3, <1>4, <1>5, Iterated, Zenon
<1>7. PICK h : h = [i \in 0 .. n |-> f[i]]
  OBVIOUS
<1>8. Is(h)
  <2>1. ASSUME NEW i \in 0 .. n
        PROVE  h[i] = IF i = 0 THEN first ELSE level(i, h[i - 1])
    <3>1. i # 0 => i \in 1 .. n /\ i \in Nat /\ i - 1 \in 0 .. n
      BY <1>4
    <3>2. CASE i = 0
      BY <1>6, <1>7, <3>2 DEF Iterates
    <3>3. CASE i # 0
      <4>1. h[i] = nxt[<<i, f[i - 1]>>] /\ f[i - 1] \in X /\ h[i - 1] = f[i - 1]
        BY <1>6, <1>7, <3>1, <3>3 DEF Iterates
      <4>2. h[i] = level(i, h[i - 1])
        BY <1>2, <3>1, <3>3, <4>1, Zenon
      <4> QED
        BY <3>3, <4>2, Zenon
    <3> QED
      BY <3>2, <3>3
  <2> QED
    BY <1>3, <1>7, <2>1, Zenon
<1>9. Is(it)
  BY <1>8, Zenon
<1>10. PathIds(t, path) = it[n]
  BY Zenon DEF PathIds, n, level
<1> HIDE DEF it
<1>11. it[0] = {Root} /\ \A i \in 1 .. n : it[i] = level(i, it[i - 1])
  <2>1. \A i \in 0 .. n : it[i] = IF i = 0 THEN {Root} ELSE level(i, it[i - 1])
    BY <1>9, Zenon
  <2>2. 0 \in 0 .. n /\ \A i \in 1 .. n : i \in 0 .. n /\ i # 0
    BY <1>4
  <2> QED
    BY <2>1, <2>2, Zenon
<1> QED
  BY <1>10, <1>11, Zenon DEF n, level

\* What is listed is whole: each record is of a folder at the top, or inside
\* one that is listed too.
Enclosed(listed) ==
    /\ \A r \in listed : r.id \in FolderIds
    /\ \A r \in listed : r.parent = Root \/ \E x \in listed : x.id = r.parent

\* The candidates for each segment, and what they resolve to.
Levelled(cands, listed, path) ==
    /\ cands[0] = {}
    /\ \A i \in 1 .. Len(path) :
          cands[i] = IF i = 1 THEN TopNamed(listed, path[1])
                     ELSE {r \in listed : r.name = path[i] /\ r.parent \in {x.id : x \in cands[i - 1]}}
    /\ resolvePathSegments(listed, path) =
          IF Cardinality(cands[Len(path)]) = 1 THEN {r.id : r \in cands[Len(path)]} ELSE {}

\* What the walk has enclosed narrows them to folders one inside the other.
Narrow(cands, listed, path) ==
    /\ cands[0] = {}
    /\ \A i \in 1 .. Len(path) : \A r \in cands[i] :
          /\ r \in listed /\ r.name = path[i]
          /\ i = 1 => r.parent = Root
          /\ i # 1 => \E x \in cands[i - 1] : r.parent = x.id
    /\ \A id \in resolvePathSegments(listed, path) : \E r \in cands[Len(path)] : id = r.id

LEMMA CandidateLevels ==
    ASSUME NEW listed, NEW path, Len(path) \in Nat
    PROVE  \E cands : Levelled(cands, listed, path)
<1> DEFINE n == Len(path)
           level(i, above) ==
              IF i = 1 THEN TopNamed(listed, path[1])
              ELSE {r \in listed : r.name = path[i] /\ r.parent \in {x.id : x \in above}}
           X == SUBSET listed
           Is(h) == h = [i \in 0 .. n |-> IF i = 0 THEN {} ELSE level(i, h[i - 1])]
           it == CHOOSE h : Is(h)
<1>0. \A i, x : level(i, x) \in X
  <2>1. TopNamed(listed, path[1]) \in X
    BY DEF TopNamed
  <2>2. \A i, x : {r \in listed : r.name = path[i] /\ r.parent \in {y.id : y \in x}} \in X
    OBVIOUS
  <2> QED
    BY <2>1, <2>2
<1>1. PICK nxt : nxt = [p \in Nat \X X |-> level(p[1], p[2])]
  OBVIOUS
<1>2. \A i \in Nat : \A x \in X : nxt[<<i, x>>] = level(i, x)
  BY <1>1, Zenon
<1>3. PICK first \in X : first = {}
  OBVIOUS
<1>4. n \in Nat
  OBVIOUS
<1> HIDE DEF X, n, level
<1>5. \A i \in Nat : \A x \in X : nxt[<<i, x>>] \in X
  BY <1>2, <1>0, Zenon
<1>6. PICK f : Iterates(f, X, first, nxt, n)
  BY <1>3, <1>4, <1>5, Iterated, Zenon
<1>7. PICK h : h = [i \in 0 .. n |-> f[i]]
  OBVIOUS
<1>8. Is(h)
  <2>1. ASSUME NEW i \in 0 .. n
        PROVE  h[i] = IF i = 0 THEN first ELSE level(i, h[i - 1])
    <3>1. i # 0 => i \in 1 .. n /\ i \in Nat /\ i - 1 \in 0 .. n
      BY <1>4
    <3>2. CASE i = 0
      BY <1>6, <1>7, <3>2 DEF Iterates
    <3>3. CASE i # 0
      <4>1. h[i] = nxt[<<i, f[i - 1]>>] /\ f[i - 1] \in X /\ h[i - 1] = f[i - 1]
        BY <1>6, <1>7, <3>1, <3>3 DEF Iterates
      <4>2. h[i] = level(i, h[i - 1])
        BY <1>2, <3>1, <3>3, <4>1, Zenon
      <4> QED
        BY <3>3, <4>2, Zenon
    <3> QED
      BY <3>2, <3>3
  <2> QED
    BY <1>3, <1>7, <2>1, Zenon
<1>9. Is(it)
  BY <1>8, Zenon
<1>10. resolvePathSegments(listed, path) = IF Cardinality(it[n]) = 1 THEN {r.id : r \in it[n]} ELSE {}
  BY Zenon DEF resolvePathSegments, n, level
<1> HIDE DEF it
<1>11. it[0] = {} /\ \A i \in 1 .. n : it[i] = level(i, it[i - 1])
  <2>1. \A i \in 0 .. n : it[i] = IF i = 0 THEN {} ELSE level(i, it[i - 1])
    BY <1>9, Zenon
  <2>2. 0 \in 0 .. n /\ \A i \in 1 .. n : i \in 0 .. n /\ i # 0
    BY <1>4
  <2> QED
    BY <2>1, <2>2, Zenon
<1> QED
  BY <1>10, <1>11, Zenon DEF n, level, Levelled

LEMMA Candidates ==
    ASSUME NEW listed, NEW path, Len(path) \in Nat, Enclosed(listed)
    PROVE  \E cands : Narrow(cands, listed, path)
<1> DEFINE n == Len(path)
<1>1. PICK it : Levelled(it, listed, path)
  BY CandidateLevels, Zenon
<1>2. ASSUME NEW i \in 1 .. n, NEW r \in it[i]
      PROVE  /\ r \in listed /\ r.name = path[i]
             /\ i = 1 => r.parent = Root
             /\ i # 1 => \E x \in it[i - 1] : r.parent = x.id
  <2>2. CASE i = 1
    <3>1. r \in TopNamed(listed, path[1])
      BY <1>1, <1>2, <2>2, Zenon DEF Levelled
    <3> QED
      BY <2>2, <3>1 DEF TopNamed, Enclosed
  <2>3. CASE i # 1
    <3>1. r \in {x \in listed : x.name = path[i] /\ x.parent \in {y.id : y \in it[i - 1]}}
      BY <1>1, <1>2, <2>3, Zenon DEF Levelled
    <3> QED
      BY <2>3, <3>1
  <2> QED
    BY <2>2, <2>3
<1>3. it[0] = {} /\ \A id \in resolvePathSegments(listed, path) : \E r \in it[n] : id = r.id
  BY <1>1 DEF Levelled
<1> QED
  BY <1>2, <1>3, Zenon DEF n, Narrow

\* A record is what a listing of the tree t says of a folder.
ReadIn(r, t) == r.id \in Present(t) /\ t[r.id].name = r.name /\ t[r.id].parent = r.parent

\* If every record is of one tree or of what one change has made of it, what a
\* path resolves to has the path in one of the two: a folder that was moved
\* meanwhile, and what is below it, in that in which the folder was read.
LEMMA ResolvedNamed ==
    ASSUME NEW B, IsTree(B), NEW T, Shifted(B, T),
           NEW listed, Enclosed(listed), \A r \in listed : ReadIn(r, B) \/ ReadIn(r, T),
           NEW path, Len(path) \in Nat
    PROVE  resolvePathSegments(listed, path) \subseteq PathIds(B, path) \cup PathIds(T, path)
<1> DEFINE n == Len(path)
<1>1. PICK b : /\ b[0] = {Root}
               /\ \A i \in 1 .. n : b[i] = {f \in Present(B) : B[f].parent \in b[i - 1] /\ B[f].name = path[i]}
               /\ PathIds(B, path) = b[n]
  BY PathLevels, Zenon
<1>2. PICK t : /\ t[0] = {Root}
               /\ \A i \in 1 .. n : t[i] = {f \in Present(T) : T[f].parent \in t[i - 1] /\ T[f].name = path[i]}
               /\ PathIds(T, path) = t[n]
  BY PathLevels, Zenon
<1>0. PICK cands : Narrow(cands, listed, path)
  BY Candidates, Zenon
<1>3. /\ \A i \in 1 .. n : \A r \in cands[i] :
            /\ r \in listed /\ r.name = path[i]
            /\ i = 1 => r.parent = Root
            /\ i # 1 => \E x \in cands[i - 1] : r.parent = x.id
      /\ cands[0] = {}
      /\ \A id \in resolvePathSegments(listed, path) : \E r \in cands[n] : id = r.id
  BY <1>0, Zenon DEF Narrow
<1>4. SUFFICES \A i \in 1 .. n : \A r \in cands[i] : r.id \in b[i] \cup t[i]
  <2>1. n = 0 \/ n \in 1 .. n
    OBVIOUS
  <2> HIDE DEF n
  <2> QED
    BY <1>1, <1>2, <1>3, <1>4, <2>1
<1>5. CASE Prunes(B, T)
  <2>1. PICK D \in SUBSET FolderIds : T = [g \in FolderIds |-> IF g \in D THEN NoFolder ELSE B[g]]
    BY <1>5 DEF Prunes
  <2>2. \A r \in listed : ReadIn(r, B)
    BY <2>1 DEF ReadIn, Present
  <2> DEFINE bad == {i \in 1 .. n : \E r \in cands[i] : r.id \notin b[i]}
  <2>3. ASSUME bad # {} PROVE FALSE
    <3>1. PICK i \in bad : \A k \in bad : i <= k
      <4>1. bad \subseteq Nat
        OBVIOUS
      <4> QED
        BY <2>3, <4>1, Least, Zenon
    <3>2. i \in 1 .. n
      OBVIOUS
    <3>3. PICK r \in cands[i] : r.id \notin b[i]
      OBVIOUS
    <3>4. r \in listed /\ r.name = path[i]
      BY <1>3, <3>2
    <3>5. ReadIn(r, B)
      BY <2>2, <3>4
    <3>6. r.parent \in b[i - 1]
      <4>1. CASE i = 1
        BY <1>1, <1>3, <3>2, <3>3, <4>1
      <4>2. CASE i # 1
        <5>1. i - 1 \in 1 .. n /\ i - 1 \notin bad
          BY <3>1, <3>2, <4>2
        <5>2. PICK x \in cands[i - 1] : r.parent = x.id
          BY <1>3, <3>2, <3>3, <4>2
        <5> QED
          BY <5>1, <5>2
      <4> QED
        BY <4>1, <4>2
    <3>7. r.id \in b[i]
      BY <1>1, <3>2, <3>4, <3>5, <3>6 DEF ReadIn
    <3> QED
      BY <3>3, <3>7
  <2> QED
    BY <2>3
<1>6. CASE Arranges(B, T)
  <2>1. PICK g \in FolderIds, m \in Names, p \in Present(B) \cup {Root} :
            p \notin Subtree(B, g) /\ T = [B EXCEPT ![g] = [name |-> m, parent |-> p]]
    BY <1>6 DEF Arranges
  <2>2. B \in FolderTree /\ Forest(B)
    BY DEF IsTree
  <2>3. T[g].parent = p /\ \A f \in FolderIds : f # g => T[f] = B[f]
    BY <2>1, <2>2 DEF FolderTree
  <2> DEFINE S == Subtree(B, g)
  <2>4. g \in S /\ S \subseteq FolderIds /\ Closed(B, S) /\ p \notin S
    BY <2>1, SubtreeFacts
  <2>5. g \in Present(B) => B[g].parent \notin S
    BY <2>2 DEF Forest
  <2> HIDE DEF S
  <2> DEFINE Has(q, i) == \/ q \in b[i] /\ q \in t[i]
                          \/ q \in S /\ (q \in b[i] \/ q \in t[i])
             bad == {i \in 1 .. n : \E r \in cands[i] : ~Has(r.id, i)}
  <2>6. ASSUME bad # {} PROVE FALSE
    <3>1. PICK i \in bad : \A k \in bad : i <= k
      <4>1. bad \subseteq Nat
        OBVIOUS
      <4> QED
        BY <2>6, <4>1, Least, Zenon
    <3>2. i \in 1 .. n
      OBVIOUS
    <3>3. PICK r \in cands[i] : ~Has(r.id, i)
      OBVIOUS
    <3>4. r \in listed /\ r.name = path[i]
      BY <1>3, <3>2
    <3>5. ReadIn(r, B) \/ ReadIn(r, T)
      BY <3>4
    <3>6. Has(r.parent, i - 1)
      <4>1. CASE i = 1
        BY <1>1, <1>2, <1>3, <3>2, <3>3, <4>1
      <4>2. CASE i # 1
        <5>1. i - 1 \in 1 .. n /\ i - 1 \notin bad
          BY <3>1, <3>2, <4>2
        <5>2. PICK x \in cands[i - 1] : r.parent = x.id
          BY <1>3, <3>2, <3>3, <4>2
        <5>3. Has(x.id, i - 1)
          BY <5>1, <5>2
        <5> HIDE DEF Has
        <5> QED
          BY <5>2, <5>3
      <4> QED
        BY <4>1, <4>2
    <3>7. ReadIn(r, B) /\ r.parent \in b[i - 1] => r.id \in b[i]
      BY <1>1, <3>2, <3>4 DEF ReadIn
    <3>8. ReadIn(r, T) /\ r.parent \in t[i - 1] => r.id \in t[i]
      BY <1>2, <3>2, <3>4 DEF ReadIn
    <3>9. r.id \in FolderIds
      BY <3>4 DEF Enclosed
    <3>10. CASE r.id = g
      <4>1. r.parent \notin S
        BY <2>3, <2>4, <2>5, <3>5, <3>10 DEF ReadIn
      <4> QED
        BY <2>4, <3>3, <3>5, <3>6, <3>7, <3>8, <3>10, <4>1
    <3>11. CASE r.id # g
      <4>1. ReadIn(r, B) /\ ReadIn(r, T)
        BY <2>3, <3>5, <3>9, <3>11 DEF ReadIn, Present
      <4>2. r.parent \in S => r.id \in S
        BY <2>4, <4>1 DEF ReadIn, Closed
      <4> QED
        BY <3>3, <3>6, <3>7, <3>8, <4>1, <4>2
    <3> QED
      BY <3>10, <3>11
  <2> QED
    BY <2>6
<1> QED
  BY <1>5, <1>6 DEF Shifted

-----------------------------------------------------------------------------
\* Acting on what was named

\* What a call has listed was read in a tree B, in which the call was under way,
\* or in what one change has made of it.
Survey(c, B) ==
    /\ IsTree(B) /\ Shifted(B, tree)
    /\ shifts[c] = 0 => B = tree
    /\ PathIds(B, PathOf(c)) \subseteq named[c]
    /\ \A r \in walk[c].listed : ReadIn(r, B) \/ ReadIn(r, tree)

Surveying(c) ==
    /\ walk[c] = [todo |-> walk[c].todo, listed |-> walk[c].listed, goal |-> walk[c].goal, found |-> Root]
    /\ Enclosed(walk[c].listed)
    /\ \A way \in walk[c].todo :
          way \in Seq(FolderIds) /\ (EndOf(way) = Root \/ \E x \in walk[c].listed : x.id = EndOf(way))
    /\ shifts[c] <= 1 => \E B : Survey(c, B)

\* ActsOnWhatWasNamed, of one change.
Landed(c, change) ==
    IF Walks(c) THEN change.does # "reorderRule" => change.on \in named[c]
    ELSE change.on = asked(c).name \/ TwiceEncoded(c)

Aimed(c) == at[c] \in {"post", "reach", "move"} /\ Handler(c).flow # "reorderRule"

Aims(c) ==
    /\ Walks(c) /\ InCall(c) /\ at[c] # "auth" => PathIds(tree, PathOf(c)) \subseteq named[c]
    /\ Walks(c) /\ at[c] \in {"rules", "walk"} => Surveying(c)
    /\ Aimed(c) /\ shifts[c] <= 1 => walk[c].found \in named[c]
    /\ Aimed(c) /\ Handler(c).flow \in {"renameFolder", "deleteFolder"} => walk[c].found \in FolderIds
    /\ shifts[c] <= 1 => \A i \in DOMAIN carried[c] : Landed(c, carried[c][i])

NamedInv ==
    /\ IsTree(tree)
    /\ named = [c \in Calls |-> named[c]]
    /\ \A c \in Calls : Aims(c)

LEMMA NothingNamed ==
    ASSUME NEW t
    PROVE  PathIds(t, <<>>) = {Root}
<1>1. Len(<<>>) = 0 /\ Len(<<>>) \in Nat
  OBVIOUS
<1>2. PICK ids : ids[0] = {Root} /\ PathIds(t, <<>>) = ids[Len(<<>>)]
  BY <1>1, PathLevels, Zenon
<1> QED
  BY <1>1, <1>2

\* What a path resolves to is listed.
LEMMA ResolvedListed ==
    ASSUME NEW listed, Enclosed(listed), NEW path, Len(path) \in Nat, NEW id \in resolvePathSegments(listed, path)
    PROVE  id \in FolderIds
<1>1. PICK cands : Narrow(cands, listed, path)
  BY Candidates, Zenon
<1>2. PICK r \in cands[Len(path)] : id = r.id
  BY <1>1, Zenon DEF Narrow
<1>3. Len(path) # 0
  BY <1>1, <1>2 DEF Narrow
<1>4. Len(path) \in 1 .. Len(path)
  BY <1>3
<1>5. r \in listed
  BY <1>1, <1>2, <1>4 DEF Narrow
<1> QED
  BY <1>2, <1>5 DEF Enclosed

\* A request for the thing named reaches it, or its name was encoded twice.
LEMMA TargetNamed ==
    ASSUME NEW c, Handler(c).flow \in {"item", "upload"}
    PROVE  Target(c) = asked(c).name \/ TwiceEncoded(c)
<1>1. CASE asked(c).name \notin Odd
  BY <1>1 DEF Target, Named, OnTheWire, encodeURIComponent, Segment, Reaches
<1>2. CASE asked(c).name \in Odd /\ Handler(c).encoded
  BY <1>2 DEF TwiceEncoded
<1>3. CASE asked(c).name \in Odd /\ ~Handler(c).encoded
  BY <1>3 DEF Target, Named, OnTheWire, encodeURIComponent, Segment, Reaches
<1> QED
  BY <1>1, <1>2, <1>3

-----------------------------------------------------------------------------
\* The other calls

\* The tree stays as it is.
LEMMA AimsStay ==
    ASSUME RuleInv, NEW d \in Calls, Aims(d), scene' = scene, Counted,
           at'[d] \in {at[d], "gone"}, carried'[d] = carried[d], walk'[d] = walk[d], named'[d] = named[d], tree' = tree
    PROVE  Aims(d)'
<1>1. Handler(d)' = Handler(d) /\ asked(d)' = asked(d) /\ Walks(d)' = Walks(d) /\ PathOf(d)' = PathOf(d)
      /\ TwiceEncoded(d)' = TwiceEncoded(d)
  BY DEF Handler, ToolFor, Walks, PathOf, asked, TwiceEncoded
<1>0. shifts[d] \in Nat /\ shifts'[d] \in {shifts[d], shifts[d] + 1}
  BY DEF RuleInv, GoesLast, Counted
<1>2. shifts'[d] <= 1 => shifts[d] <= 1
  BY <1>0
<1>3. shifts'[d] = 0 => shifts[d] = 0
  BY <1>0
<1>4. ASSUME NEW B, Survey(d, B) PROVE Survey(d, B)'
  BY <1>1, <1>3, <1>4 DEF Survey
<1>5. Surveying(d) => Surveying(d)'
  BY <1>2, <1>4 DEF Surveying
<1>6. \A change : Landed(d, change) => Landed(d, change)'
  BY <1>1 DEF Landed
<1> QED
  BY <1>1, <1>2, <1>5, <1>6 DEF Aims, Aimed, InCall

\* The tree is changed by another.
LEMMA AimsShift ==
    ASSUME RuleInv, NEW d \in Calls, Aims(d), scene' = scene, IsTree(tree), Shifted(tree, tree'), NEW own, d \notin own,
           Shift(tree', own), at'[d] = at[d], carried'[d] = carried[d], walk'[d] = walk[d]
    PROVE  Aims(d)'
<1>1. Handler(d)' = Handler(d) /\ asked(d)' = asked(d) /\ Walks(d)' = Walks(d) /\ PathOf(d)' = PathOf(d)
      /\ TwiceEncoded(d)' = TwiceEncoded(d)
  BY DEF Handler, ToolFor, Walks, PathOf, asked, TwiceEncoded
<1>2. /\ named'[d] = IF InCall(d) /\ Walks(d) THEN named[d] \cup PathIds(tree', PathOf(d)) ELSE named[d]
      /\ shifts'[d] = IF at[d] # "new" /\ Walks(d) THEN shifts[d] + 1 ELSE shifts[d]
  BY DEF Shift
<1>3. shifts[d] \in Nat /\ named[d] \subseteq named'[d]
  BY <1>2 DEF RuleInv, GoesLast
<1>4. shifts'[d] <= 1 => shifts[d] <= 1
  BY <1>2, <1>3
<1>5. ASSUME Walks(d), at[d] \in {"rules", "walk"} PROVE Surveying(d)'
  <2>1. Surveying(d) /\ InCall(d)
    BY <1>5 DEF Aims, InCall
  <2>2. shifts'[d] = shifts[d] + 1
    BY <1>2, <1>5
  <2>3. ASSUME shifts'[d] <= 1 PROVE \E B : Survey(d, B)'
    <3>1. shifts[d] = 0 /\ shifts'[d] # 0
      BY <1>3, <2>2, <2>3
    <3>2. PICK B : Survey(d, B)
      BY <2>1, <3>1 DEF Surveying
    <3>3. B = tree
      BY <3>1, <3>2 DEF Survey
    <3>4. /\ PathIds(B, PathOf(d)) \subseteq named[d]
          /\ \A r \in walk[d].listed : ReadIn(r, B)
      BY <3>2, <3>3 DEF Survey
    <3>5. IsTree(B) /\ Shifted(B, tree')
      BY <3>3
    <3> QED
      BY <1>1, <1>3, <3>1, <3>4, <3>5 DEF Survey
  <2> QED
    BY <2>1, <2>3 DEF Surveying
<1>6. \A change : Landed(d, change) => Landed(d, change)'
  BY <1>1, <1>3 DEF Landed
<1> QED
  BY <1>1, <1>2, <1>3, <1>4, <1>5, <1>6 DEF Aims, Aimed, InCall

-----------------------------------------------------------------------------
\* A step of one call that leaves the tree

LEMMA NamedStep ==
    ASSUME AccessInv, ListInv, RuleInv, NamedInv, NEW c \in Calls, scene' = scene, Goes(c), tree' = tree, Counted,
           Alone(walk, walk', c), Alone(named, named', c), Alone(carried, carried', c), Aims(c)'
    PROVE  NamedInv'
<1>1. Alone(at, at', c)
  BY StageAndReport
<1>2. named' = [d \in Calls |-> named'[d]]
  BY OneChanges DEF NamedInv
<1>3. ASSUME NEW d \in Calls, d # c PROVE Aims(d)'
  <2>1. \A f, g : f = [e \in Calls |-> f[e]] /\ Alone(f, g, c) => g[d] = f[d]
    BY <1>3, OneChanges
  <2>2. at'[d] = at[d] /\ walk'[d] = walk[d] /\ named'[d] = named[d] /\ carried'[d] = carried[d]
    BY <1>1, <2>1 DEF AccessInv, ListInv, NamedInv
  <2>3. Aims(d)
    BY DEF NamedInv
  <2> QED
    BY <2>2, <2>3, AimsStay
<1>4. IsTree(tree')
  BY DEF NamedInv
<1> QED
  BY <1>2, <1>3, <1>4 DEF NamedInv

\* A change more that lands where it should.
LEMMA LandedMore ==
    ASSUME AccessInv, NEW c \in Calls, scene' = scene, named[c] \subseteq named'[c],
           \A i \in DOMAIN carried[c] : Landed(c, carried[c][i]),
           NEW change, Did(c, change), Landed(c, change)
    PROVE  \A i \in DOMAIN carried'[c] : Landed(c, carried[c][i])'
<1>1. Walks(c)' = Walks(c) /\ asked(c)' = asked(c) /\ TwiceEncoded(c)' = TwiceEncoded(c)
  BY DEF Walks, Handler, ToolFor, asked, TwiceEncoded
<1>2. PICK S : carried[c] \in Seq(S)
  BY DEF AccessInv, CarriedMeant
<1>3. carried'[c] = Append(carried[c], change)
  BY DEF Did, AccessInv
<1>4. carried[c] \in Seq(S \cup {change})
  BY <1>2
<1>5. ASSUME NEW i \in DOMAIN carried'[c]
      PROVE  carried'[c][i] = change \/ (i \in DOMAIN carried[c] /\ carried'[c][i] = carried[c][i])
  BY <1>3, <1>4, <1>5, AppendProperties
<1>6. ASSUME NEW i \in DOMAIN carried'[c] PROVE Landed(c, carried'[c][i])
  BY <1>5, <1>6
<1> QED
  BY <1>1, <1>6 DEF Landed

\* The call does not walk on, and may act on what it has found.
LEMMA OwnStep ==
    ASSUME AccessInv, ListInv, RuleInv, NamedInv, NEW c \in Calls, Goes(c), at[c] \notin Ended \cup {"new"},
           UNCHANGED <<scene, tree, named>>, Counted, shifts'[c] = shifts[c],
           Alone(walk, walk', c),
           walk'[c] = walk[c] \/ (at'[c] = "post" /\ Handler(c).flow = "reorderRule"),
           at[c] = "auth" => at'[c] \in Ended,
           at'[c] \in {"rules", "walk"} => at[c] \in {"rules", "walk"},
           at'[c] \in {"post", "reach", "move"} =>
               at[c] \in {"post", "reach", "move"} \/ Handler(c).flow = "reorderRule",
           carried' = carried \/ \E change : Did(c, change) /\ (shifts[c] <= 1 => Landed(c, change))
    PROVE  NamedInv'
<1>1. Handler(c)' = Handler(c) /\ asked(c)' = asked(c) /\ Walks(c)' = Walks(c) /\ PathOf(c)' = PathOf(c)
      /\ TwiceEncoded(c)' = TwiceEncoded(c)
  BY DEF Handler, ToolFor, Walks, PathOf, asked, TwiceEncoded
<1>2. Aims(c)
  BY DEF NamedInv
<1>3. InCall(c)
  BY DEF InCall, Ended
<1>4. Walks(c) /\ InCall(c)' /\ at'[c] # "auth" => PathIds(tree, PathOf(c)) \subseteq named[c]
  BY <1>2, <1>3 DEF Aims, InCall, Ended
<1>5. ASSUME Walks(c), at'[c] \in {"rules", "walk"} PROVE Surveying(c)'
  <2>1. Surveying(c)
    BY <1>2, <1>5 DEF Aims
  <2>2. walk'[c] = walk[c]
    BY <1>5
  <2>3. ASSUME NEW B, Survey(c, B) PROVE Survey(c, B)'
    BY <1>1, <2>2, <2>3 DEF Survey
  <2> QED
    BY <2>1, <2>2, <2>3 DEF Surveying
<1>6. ASSUME Aimed(c)' PROVE Aimed(c) /\ walk'[c] = walk[c]
  BY <1>1, <1>6 DEF Aimed
<1>7. ASSUME shifts[c] <= 1 PROVE \A i \in DOMAIN carried'[c] : Landed(c, carried[c][i])'
  <2>1. \A i \in DOMAIN carried[c] : Landed(c, carried[c][i])
    BY <1>2, <1>7 DEF Aims
  <2>2. CASE carried' = carried
    BY <1>1, <2>1, <2>2 DEF Landed
  <2>3. CASE carried' # carried
    BY <1>7, <2>1, <2>3, LandedMore
  <2> QED
    BY <2>2, <2>3
<1>8. Aims(c)'
  BY <1>1, <1>2, <1>4, <1>5, <1>6, <1>7 DEF Aims
<1>9. Alone(named, named', c) /\ Alone(carried, carried', c)
  BY DEF Alone, Did
<1> QED
  BY <1>8, <1>9, NamedStep

\* A step that neither walks nor has found a folder to act on.
LEMMA ApartNamed ==
    ASSUME AccessInv, TruthInv, ListInv, RuleInv, NamedInv, NEW c \in Calls, CallStep(c),
           ItemStep(c) \/ MailStep(c) \/ CreateSession(c) \/ UploadChunk(c)
    PROVE  NamedInv'
<1>1. Goes(c) /\ at[c] \notin Ended \cup {"new"} /\ scene' = scene
  BY CallGoes
<1>2. UNCHANGED folderVars
  BY DEF ItemStep, MailStep, FetchPage, ReadMetadata, DownloadAttachment, CreateSession, UploadChunk
<1>3. at[c] \in {"auth", "look", "act", "page", "metadata", "download", "session", "chunk"}
  BY DEF ItemStep, TurnDown, NoToken, ItemLook, ItemAct, MailStep, FetchPage, ReadMetadata, DownloadAttachment,
     CreateSession, UploadChunk
<1>4. /\ at[c] = "auth" => at'[c] = "done"
      /\ at'[c] \notin {"rules", "walk", "post", "reach", "move"}
  <2>1. CASE TurnDown(c) \/ NoToken(c)
    <3>1. Settle(c, "error")
      BY <2>1 DEF TurnDown, NoToken
    <3> QED
      BY <3>1, SettleSays
  <2>2. CASE ItemLook(c) \/ ItemAct(c) \/ MailStep(c) \/ CreateSession(c)
    <3>1. \/ \E answer : Rejected(c, answer)
          \/ \E r : Settle(c, r)
          \/ \E s \in {"act", "page", "download", "chunk"} : Continue(c, s)
      BY <2>2 DEF ItemLook, ItemAct, MailStep, FetchPage, ReadMetadata, DownloadAttachment, CreateSession
    <3>2. at[c] # "auth"
      BY <2>2 DEF ItemLook, ItemAct, MailStep, FetchPage, ReadMetadata, DownloadAttachment, CreateSession
    <3> QED
      BY <3>1, <3>2, RejectedSays, SettleSays, ContinueSays
  <2>3. CASE UploadChunk(c)
    <3>1. at[c] = "chunk"
      BY <2>3 DEF UploadChunk
    <3>2. \/ \E r : Settle(c, r)
          \/ \E s : Follows(s, "chunk") /\ Continue(c, s) /\ s \in {"stuck", "chunk"}
      <4>1. \A found \in BOOLEAN : Replies(found) \subseteq Answers
        BY <3>1, InCallFacts, AnswersKnown
      <4>2. PICK answer \in Answers :
              CASE NeverSettles(answer) -> Continue(c, "stuck") /\ UNCHANGED offset
                [] OTHER ->
                     \/ /\ answer \in {"refused", "unauthorized", "lost"}
                        /\ Settle(c, "error")
                        /\ UNCHANGED offset
                     \/ /\ answer \in {"ok", "bare", "garbled", "lost"}
                        /\ offset' = [offset EXCEPT ![c] = chunkEnd(offset[c], fileSize(c))]
                        /\ IF ~(chunkEnd(offset[c], fileSize(c)) = fileSize(c)) THEN Continue(c, "chunk")
                           ELSE Settle(c, IF answer = "ok" THEN "ok" ELSE "error")
        BY <2>3, <4>1, Zenon DEF UploadChunk
      <4> QED
        BY <4>2 DEF Answers, NeverSettles, Follows
    <3> QED
      BY <3>1, <3>2, SettleSays, ContinueSays
  <2> QED
    BY <2>1, <2>2, <2>3 DEF ItemStep
<1>5. \/ carried' = carried
      \/ Handler(c).flow \in {"item", "upload"} /\ \E deed : Did(c, [does |-> deed, on |-> Target(c)])
  <2>1. at[c] = "act" => Handler(c).flow = "item"
    BY InCallFacts DEF PlacedAt
  <2>2. at[c] = "chunk" => Handler(c).flow = "upload"
    BY InCallFacts DEF PlacedAt
  <2> QED
    BY <2>1, <2>2 DEF ItemStep, TurnDown, NoToken, ItemLook, ItemAct, MailStep, FetchPage, ReadMetadata,
       DownloadAttachment, CreateSession, UploadChunk
<1>6. ASSUME Handler(c).flow \in {"item", "upload"}, NEW deed
      PROVE  Landed(c, [does |-> deed, on |-> Target(c)])
  BY <1>6, TargetNamed DEF Landed, Walks
<1>7. carried' = carried \/ \E change : Did(c, change) /\ (shifts[c] <= 1 => Landed(c, change))
  BY <1>5, <1>6
<1>8. UNCHANGED <<tree, named, walk, shifts>> /\ Alone(walk, walk', c)
  BY <1>2 DEF folderVars, Alone
<1> QED
  BY <1>1, <1>4, <1>7, <1>8, SameShifts, OwnStep DEF Ended

\* A step that acts on what the walk has found.
LEMMA ActingNamed ==
    ASSUME AccessInv, TruthInv, ListInv, RuleInv, NamedInv, NEW c \in Calls, CallStep(c),
           Reach(c) \/ MoveNext(c) \/ PostRule(c) \/ Reorder(c)
    PROVE  NamedInv'
<1>1. Goes(c) /\ at[c] \notin Ended \cup {"new"} /\ scene' = scene
  BY CallGoes
<1>2. UNCHANGED <<tree, named, walk>>
  BY DEF Reach, MoveNext, PostRule, Reorder, folderVars
<1>3. at[c] \in {"post", "reach", "move"}
  BY DEF Reach, MoveNext, PostRule, Reorder
<1>4. at'[c] \notin {"rules", "walk"}
  <2>1. \/ \E answer : Rejected(c, answer)
        \/ \E r : Settle(c, r)
        \/ \E s \in {"move", "stuck"} : Continue(c, s)
    BY DEF Reach, MoveNext, PostRule, Reorder
  <2> QED
    BY <2>1, RejectedSays, SettleSays, ContinueSays
<1>5. shifts' = shifts \/ RulesShift(c)
  BY DEF Reach, MoveNext, PostRule, Reorder, folderVars
<1>6. Counted /\ shifts'[c] = shifts[c]
  BY <1>5, SameShifts, RulesShiftCounts DEF RulesShift, RuleInv
<1>7. carried' = carried \/ \E change : Did(c, change) /\ (shifts[c] <= 1 => Landed(c, change))
  <2>1. CASE Reach(c)
    BY <2>1 DEF Reach
  <2>2. CASE MoveNext(c) \/ PostRule(c)
    <3>1. at[c] \in {"move", "post"} /\ Handler(c).flow \in {"moveEmails", "createRule"}
      BY <2>2, InCallFacts DEF MoveNext, PostRule, PlacedAt
    <3>2. shifts[c] <= 1 => walk[c].found \in named[c]
      BY <3>1 DEF NamedInv, Aims, Aimed
    <3>3. \/ carried' = carried
          \/ Did(c, [does |-> "move", on |-> walk[c].found])
          \/ Did(c, [does |-> "createRule", on |-> walk[c].found, behind |-> FromNumber(rules, sequence[c])])
      BY <2>2 DEF MoveNext, PostRule
    <3>4. ASSUME NEW change, change.on = walk[c].found, shifts[c] <= 1 PROVE Landed(c, change)
      BY <3>1, <3>2, <3>4 DEF Landed, Walks
    <3>5. /\ [does |-> "move", on |-> walk[c].found].on = walk[c].found
          /\ [does |-> "createRule", on |-> walk[c].found, behind |-> FromNumber(rules, sequence[c])].on = walk[c].found
      OBVIOUS
    <3> QED
      BY <3>3, <3>4, <3>5
  <2>3. CASE Reorder(c)
    <3>1. Handler(c).flow = "reorderRule"
      BY <2>3 DEF Reorder
    <3>2. carried' = carried \/ \E reached : Did(c, [does |-> "reorderRule", on |-> reached])
      BY <2>3 DEF Reorder
    <3>3. ASSUME NEW reached PROVE Landed(c, [does |-> "reorderRule", on |-> reached])
      BY <3>1 DEF Landed, Walks
    <3> QED
      BY <3>2, <3>3
  <2> QED
    BY <2>1, <2>2, <2>3
<1> QED
  BY <1>1, <1>2, <1>3, <1>4, <1>6, <1>7, OwnStep DEF Alone

-----------------------------------------------------------------------------
\* The walk

\* At the start, or at the start of the second, nothing is listed.
LEMMA FreshSurvey ==
    ASSUME NEW c \in Calls, NEW goal, IsTree(tree)', walk'[c] = [todo |-> {<<>>}, listed |-> {}, goal |-> goal, found |-> Root],
           (PathIds(tree, PathOf(c)) \subseteq named[c])'
    PROVE  Surveying(c)'
<1>1. PICK B : B = tree'
  OBVIOUS
<1>2. Shifted(B, B)
  BY <1>1, Unshifted DEF IsTree
<1>3. Shifted(B, tree)'
  BY <1>1, <1>2
<1>4. (PathIds(B, PathOf(c)) \subseteq named[c])'
  BY <1>1
<1>5. IsTree(B)
  BY <1>1
<1>6. Survey(c, B)'
  BY <1>1, <1>3, <1>4, <1>5 DEF Survey
<1>7. Enclosed({})
  BY DEF Enclosed
<1>8. <<>> \in Seq(FolderIds) /\ EndOf(<<>>) = Root
  BY EmptySeq DEF EndOf
<1>9. /\ walk'[c].todo = {<<>>} /\ walk'[c].listed = {} /\ walk'[c].goal = goal
      /\ walk'[c] = [todo |-> walk'[c].todo, listed |-> walk'[c].listed, goal |-> walk'[c].goal, found |-> Root]
  OBVIOUS
<1>10. Enclosed(walk[c].listed)'
  BY <1>7, <1>9
<1>11. (\A way \in walk[c].todo :
           way \in Seq(FolderIds) /\ (EndOf(way) = Root \/ \E x \in walk[c].listed : x.id = EndOf(way)))'
  BY <1>8, <1>9
<1>12. (\E X : Survey(c, X))'
  BY <1>6, Zenon
<1> QED
  BY <1>9, <1>10, <1>11, <1>12, Zenon DEF Surveying

LEMMA AuthenticatedNamed ==
    ASSUME AccessInv, TruthInv, ListInv, RuleInv, NamedInv, NEW c \in Calls, CallStep(c), Authenticated(c)
    PROVE  NamedInv'
<1>1. Goes(c) /\ scene' = scene
  BY CallGoes
<1>2. /\ at[c] = "auth" /\ Continue(c, Entry(c))
      /\ \E goal : walk' = [walk EXCEPT ![c] = [todo |-> {<<>>}, listed |-> {}, goal |-> goal, found |-> Root]]
      /\ named' = IF Walks(c) THEN [named EXCEPT ![c] = PathIds(tree, PathOf(c))] ELSE named
      /\ UNCHANGED <<tree, carried, shifts>>
  BY DEF Authenticated, StartWalk
<1>3. PICK goal : walk'[c] = [todo |-> {<<>>}, listed |-> {}, goal |-> goal, found |-> Root]
  BY <1>2 DEF ListInv
<1>4. Walks(c) => named'[c] = PathIds(tree, PathOf(c))
  BY <1>2 DEF NamedInv
<1>5. at'[c] = Entry(c)
  BY <1>2, ContinueSays
<1>6. carried'[c] = <<>>
  BY <1>2 DEF TruthInv, Truthful, Carries, Ended
<1>7. Handler(c)' = Handler(c) /\ asked(c)' = asked(c) /\ Walks(c)' = Walks(c) /\ PathOf(c)' = PathOf(c)
  BY <1>1 DEF Handler, ToolFor, Walks, PathOf, asked
<1>8. Walks(c)' => (PathIds(tree, PathOf(c)) \subseteq named[c])'
  BY <1>2, <1>4, <1>7
<1>9. IsTree(tree)'
  BY <1>2 DEF NamedInv
<1>10. Walks(c)' => Surveying(c)'
  BY <1>3, <1>8, <1>9, FreshSurvey
<1>11. ASSUME Aimed(c)'
       PROVE  walk'[c].found \in named'[c] /\ Handler(c).flow = "createRule"
  <2>1. at'[c] \in {"post", "reach", "move"}
    BY <1>11 DEF Aimed
  <2>2. Handler(c).flow = "createRule" /\ asked(c).folder = <<>>
    BY <1>5, <2>1 DEF Entry
  <2>3. PathOf(c) = <<>> /\ Walks(c)
    BY <2>2 DEF PathOf, Walks
  <2> QED
    BY <1>3, <1>4, <2>2, <2>3, NothingNamed
<1>12. Aims(c)'
  BY <1>6, <1>7, <1>8, <1>10, <1>11 DEF Aims
<1>13. Alone(walk, walk', c) /\ Alone(named, named', c) /\ Alone(carried, carried', c)
  BY <1>2 DEF Alone
<1> QED
  BY <1>1, <1>2, <1>12, <1>13, SameShifts, NamedStep

\* The call has found what it acts on next.
LEMMA FoundNamed ==
    ASSUME AccessInv, ListInv, RuleInv, NamedInv, NEW c \in Calls, Goes(c), at[c] \notin Ended \cup {"new", "auth"},
           UNCHANGED <<scene, tree, named, shifts, carried>>, Alone(walk, walk', c),
           at'[c] \in {"post", "reach", "page"},
           shifts[c] <= 1 => walk'[c].found \in named[c],
           Handler(c).flow \in {"renameFolder", "deleteFolder"} => walk'[c].found \in FolderIds
    PROVE  NamedInv'
<1>1. Handler(c)' = Handler(c) /\ asked(c)' = asked(c) /\ Walks(c)' = Walks(c) /\ PathOf(c)' = PathOf(c)
      /\ TwiceEncoded(c)' = TwiceEncoded(c)
  BY DEF Handler, ToolFor, Walks, PathOf, asked, TwiceEncoded
<1>2. Aims(c) /\ InCall(c)
  BY DEF NamedInv, InCall, Ended
<1>3. shifts'[c] <= 1 => \A i \in DOMAIN carried'[c] : Landed(c, carried[c][i])'
  BY <1>1, <1>2 DEF Aims, Landed
<1>4. Walks(c) => PathIds(tree, PathOf(c)) \subseteq named[c]
  BY <1>2 DEF Aims
<1>5. Aims(c)'
  BY <1>1, <1>3, <1>4 DEF Aims, Aimed
<1>6. Alone(named, named', c) /\ Alone(carried, carried', c)
  BY DEF Alone
<1> QED
  BY <1>5, <1>6, SameShifts, NamedStep

LEMMA ListRulesNamed ==
    ASSUME AccessInv, TruthInv, ListInv, RuleInv, NamedInv, NEW c \in Calls, CallStep(c), ListRules(c)
    PROVE  NamedInv'
<1>1. Goes(c) /\ at[c] \notin Ended \cup {"new"} /\ scene' = scene
  BY CallGoes
<1>2. at[c] = "rules" /\ UNCHANGED <<carried, tree, named, shifts>>
  BY DEF ListRules
<1>3. Handler(c).flow \in {"listRules", "createRule", "reorderRule"} /\ Walks(c)
  BY <1>2, InCallFacts DEF PlacedAt, Walks
<1>4. FolderStep(c)
  BY DEF FolderStep
<1>5. Alone(walk, walk', c)
  BY <1>4, WalkAlone
<1>6. \/ walk' = walk /\ ((\E r : Settle(c, r)) \/ Continue(c, "stuck") \/ Continue(c, "walk"))
      \/ walk' = walk /\ Handler(c).flow = "createRule" /\ asked(c).folder = <<>> /\ Continue(c, "post")
      \/ Handler(c).flow = "reorderRule" /\ Continue(c, "post")
  BY <1>3 DEF ListRules
<1>7. CASE walk' = walk /\ Handler(c).flow = "createRule" /\ asked(c).folder = <<>> /\ Continue(c, "post")
  <2>1. Aims(c) /\ Surveying(c) /\ InCall(c)
    BY <1>2, <1>3 DEF NamedInv, Aims, InCall
  <2>2. PathOf(c) = <<>>
    BY <1>7 DEF PathOf
  <2>3. PathIds(tree, <<>>) \subseteq named[c]
    BY <1>2, <1>3, <2>1, <2>2 DEF Aims
  <2>4. Root \in named[c] /\ walk[c].found = Root
    BY <2>1, <2>3, NothingNamed DEF Surveying
  <2>5. at'[c] = "post"
    BY <1>7, ContinueSays
  <2> QED
    BY <1>1, <1>2, <1>5, <1>7, <2>4, <2>5, FoundNamed
<1>8. CASE walk' = walk /\ ((\E r : Settle(c, r)) \/ Continue(c, "stuck") \/ Continue(c, "walk"))
  <2>1. at'[c] \in {"done", "stuck", "walk"}
    BY <1>8, SettleSays, ContinueSays
  <2> QED
    BY <1>1, <1>2, <1>5, <1>8, <2>1, SameShifts, OwnStep
<1>9. CASE Handler(c).flow = "reorderRule" /\ Continue(c, "post")
  <2>1. at'[c] = "post"
    BY <1>9, ContinueSays
  <2> QED
    BY <1>1, <1>2, <1>5, <1>9, <2>1, SameShifts, OwnStep
<1> QED
  BY <1>6, <1>7, <1>8, <1>9

\* What the walk lists of a folder of the tree.
Children(t, way) ==
    {[id |-> f, name |-> t[f].name, parent |-> EndOf(way), way |-> way] : f \in ChildrenIn(t, EndOf(way))}

LEMMA MoreListed ==
    ASSUME NEW c \in Calls, Surveying(c), NEW way \in walk[c].todo
    PROVE  /\ Enclosed(walk[c].listed \cup Children(tree, way))
           /\ \A f \in ChildrenIn(tree, EndOf(way)) :
                /\ Append(way, f) \in Seq(FolderIds) /\ EndOf(Append(way, f)) = f
                /\ \E x \in Children(tree, way) : x.id = f
           /\ \A r \in Children(tree, way) : ReadIn(r, tree)
<1>1. Enclosed(walk[c].listed)
  BY DEF Surveying
<1>2. way \in Seq(FolderIds) /\ (EndOf(way) = Root \/ \E x \in walk[c].listed : x.id = EndOf(way))
  BY DEF Surveying
<1>3. \A r \in Children(tree, way) :
         \E f \in ChildrenIn(tree, EndOf(way)) : r.id = f /\ r.name = tree[f].name /\ r.parent = EndOf(way)
  BY DEF Children
<1>4. \A f \in ChildrenIn(tree, EndOf(way)) : f \in FolderIds /\ f \in Present(tree) /\ tree[f].parent = EndOf(way)
  BY DEF ChildrenIn, Present
<1>5. \A r \in Children(tree, way) : r.id \in FolderIds /\ r.parent = EndOf(way)
  BY <1>3, <1>4
<1>6. Enclosed(walk[c].listed \cup Children(tree, way))
  BY <1>1, <1>2, <1>5 DEF Enclosed
<1>7. ASSUME NEW f \in ChildrenIn(tree, EndOf(way))
      PROVE  /\ Append(way, f) \in Seq(FolderIds) /\ EndOf(Append(way, f)) = f
             /\ \E x \in Children(tree, way) : x.id = f
  <2>1. f \in FolderIds
    BY <1>4, <1>7
  <2>2. PICK w \in Seq(FolderIds) : w = way
    BY <1>2
  <2>3. /\ Append(w, f) \in Seq(FolderIds) /\ Append(w, f) # <<>>
        /\ Len(Append(w, f)) = Len(w) + 1 /\ Append(w, f)[Len(w) + 1] = f
    BY <2>1, AppendProperties
  <2>4. EndOf(Append(w, f)) = f
    <3>1. PICK x : x = Append(w, f)
      OBVIOUS
    <3>2. x # <<>> /\ x[Len(x)] = f
      BY <2>3, <3>1, Zenon
    <3>3. EndOf(x) = f
      BY <3>2 DEF EndOf, Last
    <3> QED
      BY <3>1, <3>3
  <2>5. \E x \in Children(tree, way) : x.id = f
    <3>1. PICK r : r = [id |-> f, name |-> tree[f].name, parent |-> EndOf(way), way |-> way]
      OBVIOUS
    <3>2. r \in Children(tree, way)
      BY <3>1, Zenon DEF Children
    <3>3. r.id = f
      BY <3>1
    <3> QED
      BY <3>2, <3>3
  <2> QED
    BY <2>2, <2>3, <2>4, <2>5
<1>8. \A r \in Children(tree, way) : ReadIn(r, tree)
  BY <1>3, <1>4 DEF ReadIn
<1> QED
  BY <1>6, <1>7, <1>8

\* What a path resolves to had it at some moment of the call, if at most one
\* change fell into the walk.
LEMMA ResolvedAims ==
    ASSUME AccessInv, NamedInv, NEW c \in Calls, at[c] \in {"rules", "walk"}, Walks(c), NEW way \in walk[c].todo,
           NEW rows \in {{}, Children(tree, way)},
           NEW id \in resolvePathSegments(walk[c].listed \cup rows, PathOf(c))
    PROVE  id \in FolderIds /\ (shifts[c] <= 1 => id \in named[c])
<1> DEFINE listed == walk[c].listed \cup rows
<1>1. Surveying(c) /\ PathIds(tree, PathOf(c)) \subseteq named[c]
  BY DEF NamedInv, Aims, InCall
<1>2. Len(PathOf(c)) \in Nat
  <2>1. c \in DOMAIN scene.asked /\ scene \in Scenes
    BY InCallFacts
  <2>2. asked(c).folder \in Seq(Names) /\ asked(c).parent \in Seq(Names)
    BY <2>1, FolderAssumption DEF asked
  <2> QED
    BY <2>2 DEF PathOf
<1>3. Enclosed(listed) /\ \A r \in rows : ReadIn(r, tree)
  <2>1. CASE rows = {}
    BY <1>1, <2>1 DEF Surveying
  <2>2. CASE rows = Children(tree, way)
    BY <1>1, <2>2, MoreListed
  <2> QED
    BY <2>1, <2>2
<1>4. id \in FolderIds
  BY <1>2, <1>3, ResolvedListed
<1>5. ASSUME shifts[c] <= 1 PROVE id \in named[c]
  <2>1. PICK B : Survey(c, B)
    BY <1>1, <1>5 DEF Surveying
  <2>2. /\ IsTree(B) /\ Shifted(B, tree) /\ PathIds(B, PathOf(c)) \subseteq named[c]
        /\ \A r \in listed : ReadIn(r, B) \/ ReadIn(r, tree)
    BY <1>3, <2>1 DEF Survey
  <2>3. id \in PathIds(B, PathOf(c)) \cup PathIds(tree, PathOf(c))
    BY <1>2, <1>3, <2>2, ResolvedNamed, Zenon
  <2> QED
    BY <1>1, <2>2, <2>3
<1> QED
  BY <1>4, <1>5

\* Every folder has been listed.
LEMMA ResolvedStep ==
    ASSUME AccessInv, TruthInv, ListInv, RuleInv, NamedInv, NEW c \in Calls, Goes(c), at[c] = "walk",
           UNCHANGED <<scene, tree, named, shifts, carried>>, Alone(walk, walk', c), NEW way \in walk[c].todo,
           NEW rows \in {{}, Children(tree, way)}, Resolved(c, walk[c].listed \cup rows)
    PROVE  NamedInv'
<1> DEFINE listed == walk[c].listed \cup rows
           ids(path) == resolvePathSegments(listed, path)
           hit(path) == CHOOSE id \in ids(path) : TRUE
<1>1. Handler(c).flow \in Walking /\ Walks(c)
  BY InCallFacts DEF PlacedAt, Walks, Walking
<1>2. at[c] \notin Ended \cup {"new", "auth"}
  BY DEF Ended
<1>3. ASSUME NEW id, NEW stage \in {"post", "reach", "page"}, Found(c, id, stage),
             shifts[c] <= 1 => id \in named[c],
             Handler(c).flow \in {"renameFolder", "deleteFolder"} => id \in FolderIds
      PROVE  NamedInv'
  <2>1. walk'[c].found = id /\ at'[c] = stage
    BY <1>3, ContinueSays DEF Found, ListInv
  <2> QED
    BY <1>2, <1>3, <2>1, FoundNamed
<1>4. ASSUME ids(PathOf(c)) # {} PROVE hit(PathOf(c)) \in FolderIds /\ (shifts[c] <= 1 => hit(PathOf(c)) \in named[c])
  <2>1. hit(PathOf(c)) \in ids(PathOf(c))
    BY <1>4
  <2> QED
    BY <1>1, <2>1, ResolvedAims
<1>5. ASSUME walk' = walk, NEW r, Settle(c, r) PROVE NamedInv'
  <2>1. at'[c] = "done"
    BY <1>5, SettleSays
  <2> QED
    BY <1>2, <1>5, <2>1, SameShifts, OwnStep
<1>6. CASE Handler(c).flow = "listFolders"
  BY <1>5, <1>6 DEF Resolved
<1>7. CASE Handler(c).flow = "createFolder" /\ walk[c].goal = "exists"
  <2>1. \/ walk' = walk /\ Settle(c, "refusal")
        \/ asked(c).parent = <<>> /\ Found(c, Root, "post")
        \/ StartWalk(c, "parent") /\ Continue(c, "walk")
    BY <1>7 DEF Resolved
  <2>2. CASE asked(c).parent = <<>> /\ Found(c, Root, "post")
    <3>1. PathIds(tree, PathOf(c)) \subseteq named[c]
      BY <1>1, <1>2 DEF NamedInv, Aims, InCall, Ended
    <3>2. PathOf(c) = <<>>
      BY <1>7, <2>2 DEF PathOf
    <3>3. Root \in named[c]
      BY <3>1, <3>2, NothingNamed
    <3> QED
      BY <1>3, <1>7, <2>2, <3>3
  <2>3. CASE StartWalk(c, "parent") /\ Continue(c, "walk")
    <3>1. walk'[c] = [todo |-> {<<>>}, listed |-> {}, goal |-> "parent", found |-> Root] /\ at'[c] = "walk"
      BY <2>3, ContinueSays DEF StartWalk, ListInv
    <3>2. Handler(c)' = Handler(c) /\ asked(c)' = asked(c) /\ Walks(c)' = Walks(c) /\ PathOf(c)' = PathOf(c)
          /\ TwiceEncoded(c)' = TwiceEncoded(c)
      BY DEF Handler, ToolFor, Walks, PathOf, asked, TwiceEncoded
    <3>3. Aims(c) /\ IsTree(tree)
      BY DEF NamedInv
    <3>4. PathIds(tree, PathOf(c)) \subseteq named[c]
      BY <1>1, <1>2, <3>3 DEF Aims, InCall, Ended
    <3>5. (PathIds(tree, PathOf(c)) \subseteq named[c])' /\ IsTree(tree)'
      BY <3>2, <3>3, <3>4
    <3>6. Surveying(c)'
      BY <3>1, <3>5, FreshSurvey
    <3>7. shifts'[c] <= 1 => \A i \in DOMAIN carried'[c] : Landed(c, carried[c][i])'
      BY <3>2, <3>3 DEF Aims, Landed
    <3>8. Aims(c)'
      BY <3>1, <3>5, <3>6, <3>7 DEF Aims, Aimed
    <3>9. Alone(named, named', c) /\ Alone(carried, carried', c)
      BY DEF Alone
    <3> QED
      BY <3>8, <3>9, SameShifts, NamedStep
  <2> QED
    BY <1>5, <2>1, <2>2, <2>3
<1>8. CASE Handler(c).flow = "createRule" \/ (Handler(c).flow = "createFolder" /\ walk[c].goal # "exists")
  <2>1. \/ walk' = walk /\ Settle(c, "refusal")
        \/ ids(PathOf(c)) # {} /\ Found(c, hit(PathOf(c)), "post")
    BY <1>8 DEF Resolved
  <2> HIDE DEF hit, ids
  <2> QED
    BY <1>3, <1>4, <1>5, <1>8, <2>1
<1>9. CASE Handler(c).flow \in {"renameFolder", "deleteFolder", "moveEmails", "list"}
  <2>1. PathOf(c) = asked(c).folder
    BY <1>9 DEF PathOf
  <2>2. \/ walk' = walk /\ (Settle(c, "error") \/ Settle(c, "preview"))
        \/ /\ ids(PathOf(c)) # {}
           /\ \E stage \in {"post", "reach", "page"} : Found(c, hit(PathOf(c)), stage)
    BY <1>9, <2>1 DEF Resolved
  <2> HIDE DEF hit, ids
  <2> QED
    BY <1>3, <1>4, <1>5, <2>2
<1> QED
  BY <1>1, <1>6, <1>7, <1>8, <1>9 DEF Walking

LEMMA ListChildrenNamed ==
    ASSUME AccessInv, TruthInv, ListInv, RuleInv, NamedInv, NEW c \in Calls, CallStep(c), FolderStep(c),
           NEW way \in walk[c].todo, ListChildren(c, way)
    PROVE  NamedInv'
<1> DEFINE rowsOf(kids) == {[id |-> f, name |-> tree[f].name, parent |-> EndOf(way), way |-> way] : f \in kids}
           todoOf(kids) == (walk[c].todo \ {way})
                             \cup {Append(way, f) : f \in {k \in kids : ChildrenIn(tree, k) # {}}}
<1>1. Goes(c) /\ UNCHANGED <<scene, tree, named, shifts, carried>> /\ at[c] = "walk"
  BY CallGoes DEF ListChildren
<1>2. Handler(c).flow \in Walking /\ Walks(c)
  BY <1>1, InCallFacts DEF PlacedAt, Walks, Walking
<1>3. Alone(walk, walk', c)
  BY WalkAlone
<1>4. Aims(c) /\ Surveying(c)
  BY <1>1, <1>2 DEF NamedInv, Aims
<1>9. PICK kids \in {{}, ChildrenIn(tree, EndOf(way))} :
        \/ Resolved(c, walk[c].listed \cup rowsOf(kids))
        \/ walk' = [walk EXCEPT ![c].todo = todoOf(kids), ![c].listed = walk[c].listed \cup rowsOf(kids)]
             /\ Continue(c, "walk")
        \/ walk' = walk /\ (Continue(c, "stuck") \/ \E r : Settle(c, r))
  BY DEF ListChildren
<1> DEFINE rows   == rowsOf(kids)
           listed == walk[c].listed \cup rows
           todo   == todoOf(kids)
<1>10. rows \in {{}, Children(tree, way)}
  BY DEF Children
<1>5. \/ Resolved(c, listed)
      \/ walk' = [walk EXCEPT ![c].todo = todo, ![c].listed = listed] /\ Continue(c, "walk")
      \/ walk' = walk /\ (Continue(c, "stuck") \/ \E r : Settle(c, r))
  BY <1>9
<1>6. CASE walk' = walk /\ (Continue(c, "stuck") \/ \E r : Settle(c, r))
  <2>1. at'[c] \in {"done", "stuck"}
    BY <1>6, SettleSays, ContinueSays
  <2> QED
    BY <1>1, <1>3, <1>6, <2>1, SameShifts, OwnStep DEF Ended
<1>7. CASE walk' = [walk EXCEPT ![c].todo = todo, ![c].listed = listed] /\ Continue(c, "walk")
  <2>1. at'[c] = "walk"
    BY <1>7, ContinueSays
  <2>2. walk'[c] = [todo |-> todo, listed |-> listed, goal |-> walk[c].goal, found |-> Root]
    <3>1. walk[c] = [todo |-> walk[c].todo, listed |-> walk[c].listed, goal |-> walk[c].goal, found |-> Root]
      BY <1>4 DEF Surveying
    <3>2. walk'[c] = [[walk[c] EXCEPT !.todo = todo] EXCEPT !.listed = listed]
      BY <1>7 DEF ListInv
    <3>3. PICK t, r, g : walk[c] = [todo |-> t, listed |-> r, goal |-> g, found |-> Root] /\ g = walk[c].goal
      BY <3>1, Zenon
    <3> HIDE DEF todo, listed
    <3>4. \A x : [[todo |-> t, listed |-> r, goal |-> g, found |-> Root] EXCEPT !.todo = x]
                   = [todo |-> x, listed |-> r, goal |-> g, found |-> Root]
      OBVIOUS
    <3>5. \A x, y : [[todo |-> x, listed |-> r, goal |-> g, found |-> Root] EXCEPT !.listed = y]
                      = [todo |-> x, listed |-> y, goal |-> g, found |-> Root]
      OBVIOUS
    <3> QED
      BY <3>2, <3>3, <3>4, <3>5, Zenon
  <2>3. /\ Enclosed(listed)
        /\ \A f \in kids :
             /\ Append(way, f) \in Seq(FolderIds) /\ EndOf(Append(way, f)) = f
             /\ \E x \in rows : x.id = f
        /\ \A r \in rows : ReadIn(r, tree)
    <3>1. CASE kids = {}
      BY <1>4, <3>1 DEF Surveying
    <3>2. CASE kids = ChildrenIn(tree, EndOf(way))
      <4>1. rows = Children(tree, way)
        BY <3>2 DEF Children
      <4> HIDE DEF rows
      <4> QED
        BY <1>4, <3>2, <4>1, MoreListed
    <3> QED
      BY <3>1, <3>2
  <2>4. \A w \in todo : w \in Seq(FolderIds) /\ (EndOf(w) = Root \/ \E x \in listed : x.id = EndOf(w))
    BY <1>4, <2>3 DEF Surveying
  <2>5. PICK L : L = listed
    OBVIOUS
  <2>6. \A r \in L : r \in walk[c].listed \/ ReadIn(r, tree)
    BY <2>3, <2>5
  <2>7. PICK T : T = todo
    OBVIOUS
  <2> HIDE DEF todo, listed
  <2>8. walk'[c].listed = L /\ walk'[c].todo = T
        /\ walk'[c] = [todo |-> walk'[c].todo, listed |-> walk'[c].listed, goal |-> walk'[c].goal, found |-> Root]
    BY <2>2, <2>5, <2>7
  <2>9. Handler(c)' = Handler(c) /\ asked(c)' = asked(c) /\ Walks(c)' = Walks(c) /\ PathOf(c)' = PathOf(c)
        /\ TwiceEncoded(c)' = TwiceEncoded(c)
    BY <1>1 DEF Handler, ToolFor, Walks, PathOf, asked, TwiceEncoded
  <2>10. ASSUME NEW B, Survey(c, B) PROVE Survey(c, B)'
    BY <1>1, <2>6, <2>8, <2>9, <2>10 DEF Survey
  <2>11. Surveying(c)'
    BY <1>1, <1>4, <2>3, <2>4, <2>5, <2>7, <2>8, <2>10 DEF Surveying
  <2>12. PathIds(tree, PathOf(c)) \subseteq named[c]
    BY <1>1, <1>2, <1>4 DEF Aims, InCall
  <2>13. shifts'[c] <= 1 => \A i \in DOMAIN carried'[c] : Landed(c, carried[c][i])'
    BY <1>1, <1>4, <2>9 DEF Aims, Landed
  <2>14. Aims(c)'
    BY <1>1, <2>1, <2>9, <2>11, <2>12, <2>13 DEF Aims, Aimed
  <2>15. Alone(named, named', c) /\ Alone(carried, carried', c)
    BY <1>1 DEF Alone
  <2> QED
    BY <1>1, <1>3, <2>14, <2>15, SameShifts, NamedStep
<1>8. CASE Resolved(c, listed)
  <2> HIDE DEF rows
  <2> QED
    BY <1>1, <1>3, <1>8, <1>10, ResolvedStep
<1> QED
  BY <1>5, <1>6, <1>7, <1>8

-----------------------------------------------------------------------------
\* The changes of the tree

LEMMA CreateShifts ==
    ASSUME IsTree(tree), IdsLeft, NEW name \in Names, NEW p, There(p)
    PROVE  Shifted(tree, [tree EXCEPT ![Fresh] = [name |-> name, parent |-> p]])
<1>1. Fresh \in FolderIds /\ Fresh \notin Present(tree)
  BY DEF IdsLeft, Fresh, Used
<1>2. p \in Present(tree) \cup {Root}
  BY DEF There
<1>3. Closed(tree, {Fresh})
  <2>1. ASSUME NEW h \in Present(tree) PROVE tree[h].parent # Fresh
    BY <1>1, FolderAssumption DEF IsTree, Forest
  <2> QED
    BY <2>1 DEF Closed
<1>4. Subtree(tree, Fresh) \subseteq {Fresh}
  BY <1>1, <1>3, SubtreeFacts
<1>5. p # Fresh
  BY <1>1, <1>2, FolderAssumption
<1> QED
  BY <1>1, <1>2, <1>4, <1>5 DEF Shifted, Arranges

LEMMA RenameShifts ==
    ASSUME IsTree(tree), NEW f \in FolderIds, There(f), NEW name \in Names
    PROVE  Shifted(tree, [tree EXCEPT ![f] = [name |-> name, parent |-> tree[f].parent]])
<1>1. f \in Present(tree)
  BY FolderAssumption DEF There
<1>2. tree[f].parent \in (Present(tree) \cup {Root}) \ Subtree(tree, f)
  BY <1>1 DEF IsTree, Forest
<1> QED
  BY <1>2 DEF Shifted, Arranges

LEMMA DeleteShifts ==
    ASSUME NEW f \in FolderIds
    PROVE  Shifted(tree, [g \in FolderIds |-> IF g \in Subtree(tree, f) THEN NoFolder ELSE tree[g]])
BY SubtreeFacts DEF Shifted, Prunes

\* What the step of a folder tool makes of the tree.
LEMMA PostFolderShifts ==
    ASSUME AccessInv, NamedInv, NEW c \in Calls, CallStep(c), PostFolder(c)
    PROVE  \/ UNCHANGED <<tree, named, shifts, carried>>
           \/ /\ Shift(tree', {c}) /\ Shifted(tree, tree')
              /\ Did(c, [does |-> Handler(c).flow, on |-> walk[c].found])
<1> DEFINE flow   == Handler(c).flow
           found  == walk[c].found
           change == [does |-> flow, on |-> found]
           ready  == CASE flow = "createFolder" -> There(found) /\ ~Taken(asked(c).folder[1], found)
                       [] flow = "renameFolder" -> There(found) /\ ~Taken(asked(c).newName, tree[found].parent)
                       [] flow = "deleteFolder" -> There(found)
           t      == CASE flow = "createFolder" -> Creates(c)
                       [] flow = "renameFolder" -> Renames(c)
                       [] flow = "deleteFolder" -> Deletes(c)
<1>1. /\ scene' = scene /\ walk' = walk /\ at[c] = "post"
      /\ flow \in {"createFolder", "renameFolder", "deleteFolder"} /\ (flow = "createFolder" => IdsLeft)
  BY CallGoes DEF PostFolder
<1>2. PICK answer \in Replies(ready), done \in BOOLEAN :
        /\ done \in MayHaveDone(answer)
        /\ IF done THEN Shift(t, {c}) /\ Did(c, change) ELSE UNCHANGED <<tree, named, shifts, carried>>
  BY Zenon DEF PostFolder
<1>3. CASE ~done
  BY <1>2, <1>3
<1>4. CASE done
  <2>1. ready
    BY <1>2, <1>4 DEF Replies, MayHaveDone
  <2>2. Aims(c) /\ IsTree(tree)
    BY DEF NamedInv
  <2>3. asked(c).newName \in Names /\ (flow = "createFolder" => asked(c).folder[1] \in Names)
    <3>1. c \in DOMAIN scene.asked /\ scene \in Scenes
      BY <1>1, InCallFacts
    <3>2. /\ asked(c).newName \in Names /\ asked(c).folder \in Seq(Names)
          /\ flow = "createFolder" => asked(c).folder # <<>>
      BY <3>1, FolderAssumption DEF asked, Handler, ToolFor
    <3> QED
      BY <3>2
  <2>4. Shifted(tree, t)
    <3>1. CASE flow = "createFolder"
      <4>1. There(found) /\ t = Creates(c)
        BY <2>1, <3>1
      <4>2. t = [tree EXCEPT ![Fresh] = [name |-> asked(c).folder[1], parent |-> found]]
        BY <4>1 DEF Creates
      <4>3. IdsLeft
        BY <1>1, <3>1
      <4> HIDE DEF t
      <4> QED
        BY <2>2, <2>3, <3>1, <4>1, <4>2, <4>3, CreateShifts
    <3>2. CASE flow = "renameFolder"
      <4>1. There(found) /\ found \in FolderIds
        BY <1>1, <2>1, <2>2, <3>2 DEF Aims, Aimed
      <4>2. t = [tree EXCEPT ![found] = [name |-> asked(c).newName, parent |-> tree[found].parent]]
        BY <3>2 DEF Renames
      <4> HIDE DEF t
      <4> QED
        BY <2>2, <2>3, <4>1, <4>2, RenameShifts
    <3>3. CASE flow = "deleteFolder"
      <4>1. found \in FolderIds
        BY <1>1, <2>2, <3>3 DEF Aims, Aimed
      <4>2. t = [g \in FolderIds |-> IF g \in Subtree(tree, found) THEN NoFolder ELSE tree[g]]
        BY <3>3 DEF Deletes
      <4> HIDE DEF t
      <4> QED
        BY <4>1, <4>2, DeleteShifts
    <3> QED
      BY <1>1, <3>1, <3>2, <3>3
  <2>5. Shift(t, {c}) /\ Did(c, change)
    BY <1>2, <1>4
  <2>6. tree' = t
    BY <2>5 DEF Shift
  <2> HIDE DEF t, change
  <2>7. Shift(tree', {c}) /\ Shifted(tree, tree') /\ Did(c, change)
    BY <2>4, <2>5, <2>6
  <2> QED
    BY <2>7 DEF change
<1> QED
  BY <1>3, <1>4

LEMMA PostFolderNamed ==
    ASSUME AccessInv, TruthInv, ListInv, RuleInv, NamedInv, NEW c \in Calls, CallStep(c), PostFolder(c)
    PROVE  NamedInv'
<1> DEFINE change == [does |-> Handler(c).flow, on |-> walk[c].found]
<1>1. Goes(c) /\ scene' = scene /\ walk' = walk /\ at[c] = "post"
      /\ Handler(c).flow \in {"createFolder", "renameFolder", "deleteFolder"}
  BY CallGoes DEF PostFolder
<1>2. (\E answer : Rejected(c, answer)) \/ \E r : Settle(c, r)
  BY DEF PostFolder
<1>3. at'[c] \in {"done", "stuck"}
  BY <1>2, RejectedSays, SettleSays
<1>4. CASE UNCHANGED <<tree, named, shifts, carried>>
  BY <1>1, <1>3, <1>4, SameShifts, OwnStep DEF Alone, Ended
<1>5. CASE Shift(tree', {c}) /\ Shifted(tree, tree') /\ Did(c, change)
  <2>1. Aims(c) /\ IsTree(tree)
    BY DEF NamedInv
  <2>2. IsTree(tree')
    BY <1>5, <2>1, ShiftedTree
  <2>3. named' = [d \in Calls |-> named'[d]] /\ named[c] \subseteq named'[c] /\ shifts'[c] = shifts[c]
    BY <1>5 DEF Shift
  <2>4. ASSUME NEW d \in Calls, d # c PROVE Aims(d)'
    <3>1. Alone(at, at', c) /\ Alone(carried, carried', c)
      BY <1>1, <1>5, StageAndReport DEF Alone, Did
    <3>2. at'[d] = at[d] /\ carried'[d] = carried[d] /\ walk'[d] = walk[d]
      BY <1>1, <2>4, <3>1, OneChanges DEF AccessInv
    <3>3. Aims(d) /\ d \notin {c}
      BY <2>4 DEF NamedInv
    <3> QED
      BY <1>1, <1>5, <2>1, <3>2, <3>3, AimsShift
  <2>5. Aims(c)'
    <3>1. ASSUME shifts'[c] <= 1 PROVE \A i \in DOMAIN carried'[c] : Landed(c, carried[c][i])'
      <4>1. walk[c].found \in named[c] /\ \A i \in DOMAIN carried[c] : Landed(c, carried[c][i])
        BY <1>1, <2>1, <2>3, <3>1 DEF Aims, Aimed
      <4>2. Landed(c, change)
        BY <1>1, <4>1 DEF Landed, Walks
      <4> HIDE DEF change
      <4> QED
        BY <1>1, <1>5, <2>3, <4>1, <4>2, LandedMore
    <3> QED
      BY <1>3, <3>1 DEF Aims, Aimed, InCall
  <2> QED
    BY <2>2, <2>3, <2>4, <2>5 DEF NamedInv
<1> QED
  BY <1>4, <1>5, PostFolderShifts

-----------------------------------------------------------------------------
\* The owner, and steps of no call

\* What the owner makes of the tree.
LEMMA OwnerShifts ==
    ASSUME AccessInv,
           \/ \E m \in scene.moves : OwnerArranges(m[1], m[2], m[3])
           \/ \E f \in scene.deletes : OwnerDeletes(f)
    PROVE  Shift(tree', {}) /\ Shifted(tree, tree')
<1>1. ASSUME NEW m \in scene.moves, OwnerArranges(m[1], m[2], m[3]) PROVE Shift(tree', {}) /\ Shifted(tree, tree')
  <2>1. m[1] \in FolderIds /\ m[2] \in Names
    BY FolderAssumption DEF AccessInv
  <2>2. Arranged(m[1], m[2], m[3]) /\ Shift([tree EXCEPT ![m[1]] = [name |-> m[2], parent |-> m[3]]], {})
    BY <1>1 DEF OwnerArranges
  <2>3. tree' = [tree EXCEPT ![m[1]] = [name |-> m[2], parent |-> m[3]]] /\ Shift(tree', {})
    BY <2>2 DEF Shift
  <2>4. m[3] \in Present(tree) \cup {Root} /\ m[3] \notin Subtree(tree, m[1])
    BY <2>2 DEF Arranged, There
  <2> QED
    BY <2>1, <2>3, <2>4 DEF Shifted, Arranges
<1>2. ASSUME NEW f \in scene.deletes, OwnerDeletes(f) PROVE Shift(tree', {}) /\ Shifted(tree, tree')
  <2>1. f \in FolderIds /\ Shift([g \in FolderIds |-> IF g \in Subtree(tree, f) THEN NoFolder ELSE tree[g]], {})
    BY <1>2 DEF OwnerDeletes, Present
  <2>2. tree' = [g \in FolderIds |-> IF g \in Subtree(tree, f) THEN NoFolder ELSE tree[g]] /\ Shift(tree', {})
    BY <2>1 DEF Shift
  <2> QED
    BY <2>1, <2>2, DeleteShifts
<1> QED
  BY <1>1, <1>2

LEMMA OwnerNamed ==
    ASSUME AccessInv, RuleInv, NamedInv, UNCHANGED <<scene, at, carried, walk>>, Shifted(tree, tree'), Shift(tree', {})
    PROVE  NamedInv'
<1>1. IsTree(tree)
  BY DEF NamedInv
<1>2. IsTree(tree')
  BY <1>1, ShiftedTree
<1>3. ASSUME NEW d \in Calls PROVE Aims(d)'
  BY <1>1, AimsShift DEF NamedInv
<1>4. named' = [d \in Calls |-> named'[d]]
  BY DEF Shift
<1> QED
  BY <1>2, <1>3, <1>4 DEF NamedInv

LEMMA NothingNamedBy ==
    ASSUME RuleInv, NamedInv, UNCHANGED <<scene, carried, tree, walk, named>>, Counted,
           \A d \in Calls : at'[d] \in {at[d], "gone"}
    PROVE  NamedInv'
<1>1. ASSUME NEW d \in Calls PROVE Aims(d)'
  BY AimsStay DEF NamedInv
<1> QED
  BY <1>1 DEF NamedInv

LEMMA InitNamed == Init => NamedInv
<1> SUFFICES ASSUME Init PROVE NamedInv
  OBVIOUS
<1>1. /\ at = [c \in Calls |-> "new"] /\ carried = [c \in Calls |-> <<>>] /\ named = [c \in Calls |-> {}]
      /\ scene \in Scenes /\ tree = scene.tree
  BY DEF Init, FolderInit
<1>2. IsTree(tree)
  BY <1>1, FolderAssumption DEF IsTree, FolderTree, Names
<1>3. ASSUME NEW c \in Calls PROVE Aims(c)
  BY <1>1 DEF Aims, Aimed, InCall
<1> QED
  BY <1>1, <1>2, <1>3 DEF NamedInv

LEMMA NextNamed ==
    ASSUME AccessInv, TruthInv, ListInv, RuleInv, NamedInv, [Next]_vars
    PROVE  NamedInv'
<1>1. CASE UNCHANGED vars
  BY <1>1, SameShifts, NothingNamedBy DEF vars, callVars, folderVars
<1>2. ASSUME NEW c \in Calls, NewCall(c) PROVE NamedInv'
  <2>1. Continue(c, "auth") /\ at[c] = "new" /\ UNCHANGED <<scene, carried, tree, walk, named, shifts>>
    BY <1>2 DEF NewCall, Call, folderVars
  <2>2. Goes(c)
    BY <2>1 DEF Goes, Follows
  <2>3. at'[c] = "auth"
    BY <2>1, ContinueSays
  <2>4. Handler(c)' = Handler(c) /\ asked(c)' = asked(c) /\ Walks(c)' = Walks(c) /\ TwiceEncoded(c)' = TwiceEncoded(c)
    BY <2>1 DEF Handler, ToolFor, Walks, asked, TwiceEncoded
  <2>5. Aims(c)
    BY DEF NamedInv
  <2>6. Aims(c)'
    BY <2>1, <2>3, <2>4, <2>5 DEF Aims, Aimed, Landed
  <2> QED
    BY <2>1, <2>2, <2>6, SameShifts, NamedStep DEF Alone
<1>3. ASSUME NEW c \in Calls, CallStep(c) PROVE NamedInv'
  BY <1>3, ApartNamed, ActingNamed, AuthenticatedNamed, ListRulesNamed, ListChildrenNamed, PostFolderNamed
     DEF CallStep, FolderStep
<1>4. ASSUME NEW s \in Servers, Dies(s) PROVE NamedInv'
  <2>1. \A c \in Calls : at'[c] \in {at[c], "gone"}
    BY <1>4 DEF Dies
  <2>2. UNCHANGED <<scene, carried, tree, walk, named, shifts>>
    BY <1>4 DEF Dies, folderVars
  <2> QED
    BY <2>1, <2>2, SameShifts, NothingNamedBy
<1>5. ASSUME NEW s \in Servers, LogStep(s) \/ LogFault(s) PROVE NamedInv'
  <2>1. UNCHANGED <<scene, at, carried, tree, walk, named, shifts>>
    BY <1>5 DEF LogStep, LogFault, callVars, folderVars
  <2> QED
    BY <2>1, SameShifts, NothingNamedBy
<1>6. ASSUME \/ \E m \in scene.moves : OwnerArranges(m[1], m[2], m[3])
             \/ \E f \in scene.deletes : OwnerDeletes(f)
      PROVE  NamedInv'
  <2>1. UNCHANGED <<scene, at, carried, walk>>
    BY <1>6 DEF OwnerArranges, OwnerDeletes, callVars
  <2> QED
    BY <1>6, <2>1, OwnerShifts, OwnerNamed
<1>7. ASSUME Other PROVE NamedInv'
  <2>1. CASE \/ \E b \in scene.boxes : BoxChanges(b)
             \/ \E f \in scene.files : FileChanges(f)
    <3>1. UNCHANGED <<scene, at, carried, tree, walk, named, shifts>>
      BY <2>1 DEF BoxChanges, FileChanges, callVars, folderVars
    <3> QED
      BY <3>1, SameShifts, NothingNamedBy
  <2> QED
    BY <1>6, <1>7, <2>1 DEF Other
<1> QED
  BY <1>1, <1>2, <1>3, <1>4, <1>5, <1>7 DEF Next

\* A change is made to the thing that was named: a folder that had the given path
\* at some moment of the call, if at most one change by others fell into it, for
\* any tree, any depth of path and any order in which the walk lists the folders.
THEOREM ActsOnNamed == Spec => []ActsOnWhatWasNamed
<1>1. AccessInv /\ TruthInv /\ [Next]_vars => TruthInv'
  BY NextTruth
<1>2. AccessInv /\ TruthInv /\ ListInv /\ [Next]_vars => ListInv'
  BY NextList
<1>3. AccessInv /\ TruthInv /\ RuleInv /\ [Next]_vars => RuleInv'
  BY NextRules
<1>4. AccessInv /\ TruthInv /\ ListInv /\ RuleInv /\ NamedInv /\ [Next]_vars => NamedInv'
  BY NextNamed
<1>5. NamedInv => ActsOnWhatWasNamed
  BY DEF NamedInv, Aims, Landed, ActsOnWhatWasNamed
<1> QED
  BY InitTruth, InitList, InitRules, InitNamed, AccessInvariant, <1>1, <1>2, <1>3, <1>4, <1>5, PTL DEF Spec

-----------------------------------------------------------------------------
\* Why calls fail

\* Why a call fails, while no one else changes what it reads: HasCause and what
\* FailsForCause leaves out, of a folder only for the calls that look for one.
Reason(c) ==
    \/ fault[c] \/ TurnedDown(c) \/ shifts[c] # 0
    \/ TwiceEncoded(c) \/ RuleTwiceEncoded(c) \/ QueryInPath(c)
    \/ Walks(c) /\ ~OneFolder(c)
    \/ Handler(c).flow = "reorderRule" /\ \A i \in DOMAIN rules : rules[i].name # asked(c).name

\* A walk of a tree that does not change meanwhile: every folder is listed once,
\* and that of which the children are not all listed is still to do, once.
Undisturbed(t, todo, listed) ==
    /\ \A r, x \in listed : r.id = x.id => r = x
    /\ \A v, w \in todo : EndOf(v) = EndOf(w) => v = w
    /\ \A v \in todo, r \in listed : r.parent # EndOf(v)
    /\ \A p \in {Root} \cup {r.id : r \in listed} :
         (\E v \in todo : EndOf(v) = p) \/ (\A f \in ChildrenIn(t, p) : \E r \in listed : r.id = f)

\* The path a walk is about to resolve.
Sought(c) ==
    IF Handler(c).flow = "createFolder" /\ walk[c].goal = "exists" THEN asked(c).folder ELSE PathOf(c)

\* What a call stands on at each stage.
Stands(c) ==
    /\ at[c] = "look" => LooksFirst(c)
    /\ InCall(c) /\ at[c] # "auth" => ~TurnedDown(c)
    /\ at[c] \in {"rules", "walk"} /\ Walks(c) /\ shifts[c] = 0 /\ ~fault[c] =>
          Undisturbed(tree, walk[c].todo, walk[c].listed)
    /\ at[c] = "walk" /\ Handler(c).flow \notin {"listFolders", "renameFolder", "deleteFolder", "moveEmails"} =>
          Sought(c) # <<>>
    /\ at[c] \in {"walk", "reach", "move"} /\ Handler(c).flow = "moveEmails" =>
          batch[c] \in Seq(Range(asked(c).ids)) /\ batch[c] # <<>>
    /\ at[c] \notin Ended /\ (at[c] = "chunk" => ~fault[c]) => offset[c] = received[c]

Founded(c) == Stands(c) /\ (Failed(c) => at[c] = "done" /\ Reason(c))

CauseInv ==
    /\ IsFiniteSet(Present(tree))
    /\ offset = [c \in Calls |-> offset[c]]
    /\ batch = [c \in Calls |-> batch[c]]
    /\ \A c \in Calls : Founded(c)

-----------------------------------------------------------------------------
\* Resolving a path in a tree that has been listed whole

\* A walk of a tree that does not change, with nothing left to do, resolves every
\* path that is the path of one folder.
LEMMA WholeResolves ==
    ASSUME NEW t, IsFiniteSet(Present(t)), NEW listed, Enclosed(listed), \A r \in listed : ReadIn(r, t),
           Undisturbed(t, {}, listed), NEW path, Len(path) \in Nat, Len(path) # 0,
           Cardinality(PathIds(t, path)) = 1
    PROVE  resolvePathSegments(listed, path) # {}
<1> DEFINE n == Len(path)
<1>1. PICK ids : /\ ids[0] = {Root}
                 /\ \A i \in 1 .. n : ids[i] = {f \in Present(t) : t[f].parent \in ids[i - 1] /\ t[f].name = path[i]}
                 /\ PathIds(t, path) = ids[n]
  BY PathLevels, Zenon
<1>2. PICK cands : Levelled(cands, listed, path)
  BY CandidateLevels, Zenon
<1>3. /\ cands[1] = TopNamed(listed, path[1])
      /\ \A i \in 1 .. n : i # 1 =>
            cands[i] = {r \in listed : r.name = path[i] /\ r.parent \in {x.id : x \in cands[i - 1]}}
      /\ resolvePathSegments(listed, path) = IF Cardinality(cands[n]) = 1 THEN {r.id : r \in cands[n]} ELSE {}
  <2>1. 1 \in 1 .. n
    OBVIOUS
  <2> QED
    BY <1>2, <2>1, Zenon DEF Levelled, n
<1>4. n \in 1 .. n /\ n \in Nat /\ 1 \in 1 .. n
  OBVIOUS
<1> HIDE DEF n
<1>5. \A r \in listed : /\ r.id \in FolderIds /\ r.id # Root
                        /\ r.id \in Present(t) /\ t[r.id].name = r.name /\ t[r.id].parent = r.parent
                        /\ r.parent = Root \/ \E x \in listed : x.id = r.parent
  BY FolderAssumption DEF Enclosed, ReadIn
<1> DEFINE Listed == {r.id : r \in listed}
           exact(i) == cands[i] = {r \in listed : r.id \in ids[i]} /\ ids[i] \subseteq Listed
<1>6. \A p \in {Root} \cup Listed : \A f \in Present(t) : t[f].parent = p => f \in Listed
  BY DEF Undisturbed, ChildrenIn
<1>7. ASSUME NEW i \in 1 .. n, ids[i - 1] \subseteq {Root} \cup Listed PROVE ids[i] \subseteq Listed
  BY <1>1, <1>6, <1>7
<1>8. exact(1)
  <2>1. ids[1] = {f \in Present(t) : t[f].parent \in {Root} /\ t[f].name = path[1]}
    <3>1. 1 - 1 = 0
      OBVIOUS
    <3> QED
      BY <1>1, <1>4, <3>1, Zenon
  <2>2. \A r \in listed : r.id \in ids[1] <=> (r.parent = Root /\ r.name = path[1])
    BY <1>5, <2>1
  <2>3. \A r \in listed : r.parent \notin Listed <=> r.parent = Root
    BY <1>5
  <2>4. cands[1] = {r \in listed : r.name = path[1] /\ r.parent \notin Listed}
    BY <1>3, Zenon DEF TopNamed
  <2> HIDE DEF Listed
  <2>5. cands[1] = {r \in listed : r.id \in ids[1]}
    BY <2>2, <2>3, <2>4
  <2>6. ids[1] \subseteq Listed
    BY <1>6, <2>1
  <2> QED
    BY <2>5, <2>6
<1>9. ASSUME NEW i \in 1 .. n, i # 1, exact(i - 1) PROVE exact(i)
  <2>1. ids[i] \subseteq Listed
    BY <1>7, <1>9
  <2>2. \A r \in listed : r.id \in ids[i] <=> (r.parent \in ids[i - 1] /\ r.name = path[i])
    BY <1>1, <1>5
  <2>3. {x.id : x \in cands[i - 1]} = ids[i - 1]
    BY <1>9
  <2>4. cands[i] = {r \in listed : r.name = path[i] /\ r.parent \in ids[i - 1]}
    BY <1>3, <1>9, <2>3, Zenon
  <2> HIDE DEF Listed
  <2>5. cands[i] = {r \in listed : r.id \in ids[i]}
    BY <2>2, <2>4
  <2> QED
    BY <2>1, <2>5
<1>10. exact(n)
  <2> DEFINE bad == {i \in 1 .. n : ~exact(i)}
  <2> HIDE DEF exact
  <2>1. ASSUME bad # {} PROVE FALSE
    <3>1. PICK i \in bad : \A k \in bad : i <= k
      <4>1. bad \subseteq Nat
        OBVIOUS
      <4> QED
        BY <2>1, <4>1, Least, Zenon
    <3>2. i \in 1 .. n /\ ~exact(i)
      OBVIOUS
    <3>3. i # 1
      BY <1>8, <3>2
    <3>4. i - 1 \in 1 .. n /\ ~(i <= i - 1)
      BY <1>4, <3>2, <3>3
    <3>5. exact(i - 1)
      BY <3>1, <3>4
    <3> QED
      BY <1>9, <3>2, <3>3, <3>5
  <2> QED
    BY <1>4, <2>1
<1>11. IsFiniteSet(ids[n])
  <2>1. ids[n] \subseteq Present(t)
    BY <1>1, <1>4
  <2> QED
    BY <2>1, FS_Subset
<1>12. PICK f : ids[n] = {f}
  BY <1>1, <1>11, FS_Singleton
<1>13. PICK r \in listed : r.id = f
  BY <1>10, <1>12
<1>14. cands[n] = {r}
  <2>1. \A x \in listed : x.id = r.id => x = r
    BY DEF Undisturbed
  <2> QED
    BY <1>10, <1>12, <1>13, <2>1
<1>15. Cardinality(cands[n]) = 1
  BY <1>14, FS_Singleton, Zenon
<1>16. r.id \in {x.id : x \in cands[n]}
  BY <1>14
<1> QED
  BY <1>3, <1>15, <1>16

\* And it resolves no path that no folder has.
LEMMA WholeResolvesNone ==
    ASSUME NEW t, IsTree(t), IsFiniteSet(Present(t)), NEW listed, Enclosed(listed), \A r \in listed : ReadIn(r, t),
           NEW path, Len(path) \in Nat, Cardinality(PathIds(t, path)) = 0
    PROVE  resolvePathSegments(listed, path) = {}
<1>1. Shifted(t, t)
  BY Unshifted DEF IsTree
<1>2. resolvePathSegments(listed, path) \subseteq PathIds(t, path) \cup PathIds(t, path)
  BY <1>1, ResolvedNamed
<1>3. IsFiniteSet(PathIds(t, path))
  <2>1. PICK ids : /\ ids[0] = {Root}
                   /\ \A i \in 1 .. Len(path) :
                        ids[i] = {f \in Present(t) : t[f].parent \in ids[i - 1] /\ t[f].name = path[i]}
                   /\ PathIds(t, path) = ids[Len(path)]
    BY PathLevels, Zenon
  <2>2. Len(path) = 0 \/ Len(path) \in 1 .. Len(path)
    OBVIOUS
  <2>3. PathIds(t, path) \subseteq Present(t) \cup {Root}
    BY <2>1, <2>2
  <2>4. IsFiniteSet(Present(t) \cup {Root})
    BY FS_AddElement
  <2> QED
    BY <2>3, <2>4, FS_Subset
<1>4. PathIds(t, path) = {}
  BY <1>3, FS_EmptySet
<1> QED
  BY <1>2, <1>4

-----------------------------------------------------------------------------
\* A step and the other calls

LEMMA ScenesFixed ==
    ASSUME NEW d, scene' = scene
    PROVE  /\ asked(d)' = asked(d) /\ Handler(d)' = Handler(d) /\ Walks(d)' = Walks(d) /\ PathOf(d)' = PathOf(d)
           /\ TurnedDown(d)' = TurnedDown(d) /\ TwiceEncoded(d)' = TwiceEncoded(d)
           /\ QueryInPath(d)' = QueryInPath(d) /\ LooksFirst(d)' = LooksFirst(d)
BY DEF asked, Handler, ToolFor, Walks, PathOf, TurnedDown, TwiceEncoded, QueryInPath, Previews, LooksFirst

\* What happens elsewhere in the mailbox is counted for a call that walks.
Noted(d) ==
    \/ UNCHANGED <<tree, rules>>
    \/ Walks(d) /\ at[d] # "new" => shifts'[d] # 0

LEMMA FoundedStays ==
    ASSUME RuleInv, NEW d \in Calls, Founded(d), scene' = scene, Counted, Noted(d),
           at'[d] = at[d] \/ (InCall(d) /\ at'[d] = "gone"),
           report'[d] = report[d], fault'[d] = fault[d], walk'[d] = walk[d], batch'[d] = batch[d],
           offset'[d] = offset[d], received'[d] = received[d]
    PROVE  Founded(d)'
<1>1. /\ asked(d)' = asked(d) /\ Handler(d)' = Handler(d) /\ Walks(d)' = Walks(d) /\ PathOf(d)' = PathOf(d)
      /\ TurnedDown(d)' = TurnedDown(d) /\ TwiceEncoded(d)' = TwiceEncoded(d)
      /\ QueryInPath(d)' = QueryInPath(d) /\ LooksFirst(d)' = LooksFirst(d)
  BY ScenesFixed
<1>2. Sought(d)' = Sought(d) /\ RuleTwiceEncoded(d)' = RuleTwiceEncoded(d) /\ (Failed(d)' <=> Failed(d))
  BY <1>1 DEF Sought, RuleTwiceEncoded, Failed
<1>3. shifts[d] # 0 => shifts'[d] # 0
  BY DEF RuleInv, GoesLast, Counted
<1>4. Stands(d)'
  <2>1. Stands(d)
    BY DEF Founded
  <2>2. at'[d] \in {"rules", "walk"} /\ Walks(d) /\ shifts'[d] = 0 /\ ~fault'[d]
           => Undisturbed(tree', walk[d].todo, walk[d].listed)
    BY <1>3, <2>1 DEF Stands, Noted
  <2> QED
    BY <1>1, <1>2, <2>1, <2>2 DEF Stands, InCall, Ended
<1>5. ASSUME Failed(d)' PROVE at'[d] = "done" /\ Reason(d)'
  <2>1. at[d] = "done" /\ Reason(d)
    BY <1>2, <1>5 DEF Founded
  <2>2. at'[d] = "done"
    BY <2>1 DEF InCall
  <2>3. CASE UNCHANGED <<tree, rules>>
    <3>1. OneFolder(d)' <=> OneFolder(d)
      BY <1>1, <2>3 DEF OneFolder
    <3> QED
      BY <1>1, <1>2, <1>3, <2>1, <2>2, <2>3, <3>1 DEF Reason
  <2>4. CASE Walks(d) /\ at[d] # "new" => shifts'[d] # 0
    <3>1. CASE Walks(d)
      <4>1. shifts'[d] # 0
        BY <2>1, <2>4, <3>1
      <4> QED
        BY <2>2, <4>1 DEF Reason
    <3>2. CASE ~Walks(d)
      <4>1. Handler(d).flow # "reorderRule"
        BY <3>2 DEF Walks
      <4> QED
        BY <1>1, <1>2, <1>3, <2>1, <2>2, <3>2, <4>1 DEF Reason
    <3> QED
      BY <3>1, <3>2
  <2> QED
    BY <2>1, <2>3, <2>4 DEF Noted
<1> QED
  BY <1>4, <1>5 DEF Founded

\* A step of a call: if it ends in a failure there is a reason for it, and if it
\* goes on the call stands where it should.
LEMMA CauseStep ==
    ASSUME AccessInv, TruthInv, ListInv, RuleInv, CauseInv, NEW c \in Calls, scene' = scene, Goes(c),
           at[c] \notin Ended, Counted, IsFiniteSet(Present(tree')),
           Alone(fault, fault', c), Alone(walk, walk', c), Alone(batch, batch', c),
           Alone(offset, offset', c), Alone(received, received', c),
           \A d \in Calls : d # c => Noted(d),
           at'[c] = "done" /\ Failed(c)' => Reason(c)',
           at'[c] \notin Ended => Stands(c)'
    PROVE  CauseInv'
<1>1. Alone(at, at', c) /\ Alone(report, report', c)
  BY StageAndReport
<1>2. ASSUME NEW d \in Calls, d # c PROVE Founded(d)'
  <2>1. \A f, g : f = [e \in Calls |-> f[e]] /\ Alone(f, g, c) => g[d] = f[d]
    BY <1>2, OneChanges
  <2>2. /\ at'[d] = at[d] /\ report'[d] = report[d] /\ fault'[d] = fault[d] /\ walk'[d] = walk[d]
        /\ batch'[d] = batch[d] /\ offset'[d] = offset[d] /\ received'[d] = received[d]
    BY <1>1, <2>1 DEF AccessInv, TruthInv, ListInv, CauseInv
  <2>3. Founded(d) /\ Noted(d)
    BY <1>2 DEF CauseInv
  <2> QED
    BY <2>2, <2>3, FoundedStays
<1>3. Founded(c)'
  <2>1. ~Failed(c)
    BY DEF CauseInv, Founded, Ended
  <2>2. at'[c] # "done" => ~Failed(c)'
    <3>1. CASE \E r : Settle(c, r)
      BY <3>1, SettleSays
    <3>2. CASE \E s : Continue(c, s)
      BY <2>1, <3>2 DEF Continue, Failed
    <3> QED
      BY <3>1, <3>2 DEF Goes
  <2>3. at'[c] \in Ended => Stands(c)'
    BY DEF Stands, Ended, InCall
  <2> QED
    BY <2>2, <2>3 DEF Founded
<1>4. offset' = [d \in Calls |-> offset'[d]] /\ batch' = [d \in Calls |-> batch'[d]]
  BY OneChanges DEF CauseInv
<1> QED
  BY <1>2, <1>3, <1>4 DEF CauseInv

\* The same of a step that leaves the folders and rules.
LEMMA CauseAside ==
    ASSUME AccessInv, TruthInv, ListInv, RuleInv, CauseInv, NEW c \in Calls, scene' = scene, Goes(c),
           at[c] \notin Ended, UNCHANGED <<tree, rules, shifts>>,
           Alone(fault, fault', c), Alone(walk, walk', c), Alone(batch, batch', c),
           Alone(offset, offset', c), Alone(received, received', c),
           at'[c] = "done" /\ Failed(c)' => Reason(c)',
           at'[c] \notin Ended => Stands(c)'
    PROVE  CauseInv'
<1>1. Counted
  BY SameShifts
<1>2. \A d \in Calls : Noted(d)
  BY DEF Noted
<1>3. IsFiniteSet(Present(tree'))
  BY DEF CauseInv
<1> QED
  BY <1>1, <1>2, <1>3, CauseStep

\* A failure that comes of an answer to a request that named what it should.
LEMMA BlamedReason ==
    ASSUME TruthInv, NEW c \in Calls, NEW answer, NEW faithful, Blame(c, answer, faithful),
           answer # "ok", answer = "refused" => faithful
    PROVE  fault'[c] /\ Reason(c)'
BY DEF Blame, TruthInv, Reason

-----------------------------------------------------------------------------
\* The calls that name one thing, read mail, or upload

\* A call past its start that neither walks nor moves messages.
LEMMA StandsApart ==
    ASSUME NEW c \in Calls, Stands(c), InCall(c), at[c] # "auth", scene' = scene,
           at'[c] \notin {"look", "rules", "walk", "reach", "move"},
           at'[c] \notin Ended /\ (at'[c] = "chunk" => ~fault'[c]) => offset'[c] = received'[c]
    PROVE  Stands(c)'
<1>1. TurnedDown(c)' = TurnedDown(c)
  BY ScenesFixed
<1> QED
  BY <1>1 DEF Stands

LEMMA ReasonsGiven ==
    ASSUME NEW c \in Calls, scene' = scene, TurnedDown(c) \/ TwiceEncoded(c) \/ QueryInPath(c)
    PROVE  Reason(c)'
BY ScenesFixed DEF Reason

\* The read of a thing reaches it, or its path was put together wrong.
LEMMA LookNamed ==
    ASSUME AccessInv, NEW c \in Calls, at[c] = "look", LooksFirst(c)
    PROVE  \/ Reaches(OnTheWire(Named(c, Handler(c).select))) = asked(c).name
           \/ TwiceEncoded(c) \/ QueryInPath(c)
<1>1. /\ Handler(c).flow = "item"
      /\ Handler(c).select => Handler(c).look = "preview"
  BY InCallFacts, ToolFacts DEF PlacedAt
<1>2. CASE Handler(c).select
  BY <1>1, <1>2 DEF LooksFirst, QueryInPath
<1>3. CASE ~Handler(c).select /\ asked(c).name \notin Odd
  BY <1>3 DEF Named, OnTheWire, encodeURIComponent, Segment, Reaches
<1>4. CASE ~Handler(c).select /\ asked(c).name \in Odd /\ Handler(c).encoded
  BY <1>1, <1>4 DEF TwiceEncoded
<1>5. CASE ~Handler(c).select /\ asked(c).name \in Odd /\ ~Handler(c).encoded
  BY <1>5 DEF Named, OnTheWire, encodeURIComponent, Segment, Reaches
<1> QED
  BY <1>2, <1>3, <1>4, <1>5

LEMMA ItemCause ==
    ASSUME AccessInv, TruthInv, ListInv, RuleInv, CauseInv, NEW c \in Calls, CallStep(c), ItemStep(c)
    PROVE  CauseInv'
<1>1. Goes(c) /\ at[c] \notin Ended \cup {"new"} /\ scene' = scene /\ InCall(c)
  BY CallGoes DEF Ended, InCall
<1>2. UNCHANGED <<folderVars, uploadVars>>
  BY DEF ItemStep
<1>3. Stands(c) /\ ~Failed(c)
  BY <1>1 DEF CauseInv, Founded, Ended
<1>4. CASE TurnDown(c) \/ NoToken(c)
  <2>1. Settle(c, "error") /\ (TurnedDown(c) \/ fault' = [fault EXCEPT ![c] = TRUE])
        /\ (fault' = fault \/ fault' = [fault EXCEPT ![c] = TRUE])
    BY <1>4 DEF TurnDown, NoToken
  <2>2. at'[c] = "done"
    BY <2>1, SettleSays
  <2>3. Reason(c)'
    <3>1. CASE TurnedDown(c)
      BY <1>1, <3>1, ReasonsGiven
    <3>2. CASE fault' = [fault EXCEPT ![c] = TRUE]
      BY <3>2 DEF Reason, TruthInv
    <3> QED
      BY <2>1, <3>1, <3>2
  <2>4. Alone(fault, fault', c)
    BY <2>1 DEF Alone
  <2> QED
    BY <1>1, <1>2, <2>2, <2>3, <2>4, CauseAside DEF folderVars, uploadVars, Alone, Ended
<1>5. CASE ItemLook(c)
  <2> DEFINE reached == Reaches(OnTheWire(Named(c, Handler(c).select)))
  <2>1. at[c] = "look"
    BY <1>5 DEF ItemLook
  <2>2. PICK answer :
          /\ Blame(c, answer, reached = asked(c).name)
          /\ \/ ~Resolves(answer) /\ Rejected(c, answer)
             \/ answer = "bare" /\ Settle(c, "error")
             \/ Settle(c, "preview")
             \/ Continue(c, "act")
    BY <1>5 DEF ItemLook
  <2>3. reached = asked(c).name \/ TwiceEncoded(c) \/ QueryInPath(c)
    BY <1>3, <2>1, LookNamed DEF Stands
  <2> HIDE DEF reached
  <2>4. Alone(fault, fault', c)
    BY <2>2, BlameAlone
  <2>5. at'[c] \in {"done", "stuck", "act"}
    BY <2>2, RejectedSays, SettleSays, ContinueSays
  <2>6. ASSUME at'[c] = "done", Failed(c)' PROVE Reason(c)'
    <3>1. answer # "ok"
      BY <1>3, <2>2, <2>6, SettleSays, ContinueSays DEF Failed, Resolves
    <3>2. CASE reached = asked(c).name
      BY <2>2, <3>1, <3>2, BlamedReason
    <3> QED
      BY <1>1, <2>3, <3>2, ReasonsGiven
  <2>7. at'[c] \notin Ended => Stands(c)'
    BY <1>1, <1>2, <1>3, <2>1, <2>5, StandsApart DEF Stands, uploadVars, Ended
  <2> QED
    BY <1>1, <1>2, <2>4, <2>6, <2>7, CauseAside DEF folderVars, uploadVars, Alone
<1>6. CASE ItemAct(c)
  <2>1. at[c] = "act"
    BY <1>6 DEF ItemAct
  <2>2. PICK answer :
          /\ Blame(c, answer, Target(c) = asked(c).name)
          /\ \/ ~Resolves(answer) /\ Rejected(c, answer)
             \/ answer = "bare" /\ Settle(c, "error")
             \/ Settle(c, "ok")
    BY <1>6 DEF ItemAct
  <2>3. Target(c) = asked(c).name \/ TwiceEncoded(c)
    BY <2>1, InCallFacts, TargetNamed DEF PlacedAt
  <2>4. Alone(fault, fault', c)
    BY <2>2, BlameAlone
  <2>5. at'[c] \in {"done", "stuck"}
    BY <2>2, RejectedSays, SettleSays
  <2>6. ASSUME at'[c] = "done", Failed(c)' PROVE Reason(c)'
    <3>1. answer # "ok"
      BY <2>2, <2>6, SettleSays DEF Failed, Resolves
    <3>2. CASE Target(c) = asked(c).name
      BY <2>2, <3>1, <3>2, BlamedReason
    <3> QED
      BY <1>1, <2>3, <3>2, ReasonsGiven
  <2> QED
    BY <1>1, <1>2, <2>4, <2>5, <2>6, CauseAside DEF folderVars, uploadVars, Alone, Ended
<1> QED
  BY <1>4, <1>5, <1>6 DEF ItemStep

LEMMA MailCause ==
    ASSUME AccessInv, TruthInv, ListInv, RuleInv, CauseInv, NEW c \in Calls, CallStep(c),
           MailStep(c) /\ UNCHANGED uploadVars
    PROVE  CauseInv'
<1>1. Goes(c) /\ at[c] \notin Ended \cup {"new"} /\ scene' = scene /\ InCall(c)
  BY CallGoes DEF Ended, InCall
<1>2. UNCHANGED <<folderVars, uploadVars>> /\ at[c] \in {"page", "metadata", "download"}
  BY DEF MailStep, FetchPage, ReadMetadata, DownloadAttachment
<1>3. Stands(c) /\ ~Failed(c)
  BY <1>1 DEF CauseInv, Founded, Ended
<1>4. CASE FetchPage(c)
  <2>1. PICK answer :
          /\ Blame(c, answer, TRUE)
          /\ \/ ~Resolves(answer) /\ Rejected(c, answer)
             \/ Settle(c, "ok")
             \/ Continue(c, "page")
    BY <1>4 DEF FetchPage
  <2>2. Alone(fault, fault', c)
    BY <2>1, BlameAlone
  <2>3. at'[c] \in {"done", "stuck", "page"}
    BY <2>1, RejectedSays, SettleSays, ContinueSays
  <2>4. ASSUME at'[c] = "done", Failed(c)' PROVE Reason(c)'
    <3>1. answer # "ok"
      BY <2>1, <2>4, SettleSays, ContinueSays DEF Failed, Resolves
    <3> QED
      BY <2>1, <3>1, BlamedReason
  <2>5. at'[c] \notin Ended => Stands(c)'
    BY <1>1, <1>2, <1>3, <2>3, StandsApart DEF Stands, uploadVars, Ended
  <2> QED
    BY <1>1, <1>2, <2>2, <2>4, <2>5, CauseAside DEF folderVars, uploadVars, Alone
<1>5. CASE ReadMetadata(c) \/ DownloadAttachment(c)
  <2>1. PICK bad :
          /\ fault' = [fault EXCEPT ![c] = @ \/ bad]
          /\ IF bad THEN \E answer : Rejected(c, answer) ELSE Continue(c, "download") \/ Settle(c, "ok")
    <3>1. CASE ReadMetadata(c)
      <4>1. PICK answer :
              /\ fault' = [fault EXCEPT ![c] = @ \/ answer # "ok" \/ ~Downloadable(file)]
              /\ IF answer = "ok" /\ Downloadable(file) THEN Continue(c, "download") ELSE Rejected(c, answer)
        BY <3>1 DEF ReadMetadata
      <4>2. fault' = [fault EXCEPT ![c] = @ \/ (answer # "ok" \/ ~Downloadable(file))]
        BY <4>1
      <4> QED
        BY <4>1, <4>2
    <3>2. CASE DownloadAttachment(c)
      <4>1. PICK answer, whole :
              /\ fault' = [fault EXCEPT ![c] = @ \/ answer # "ok" \/ ~whole]
              /\ IF answer = "ok" /\ whole THEN Settle(c, "ok") ELSE Rejected(c, answer)
        BY <3>2 DEF DownloadAttachment
      <4>2. fault' = [fault EXCEPT ![c] = @ \/ (answer # "ok" \/ ~whole)]
        BY <4>1
      <4> QED
        BY <4>1, <4>2
    <3> QED
      BY <1>5, <3>1, <3>2
  <2>2. Alone(fault, fault', c)
    BY <2>1 DEF Alone
  <2>3. at'[c] \in {"done", "stuck", "download"}
    BY <2>1, RejectedSays, SettleSays, ContinueSays
  <2>4. ASSUME at'[c] = "done", Failed(c)' PROVE Reason(c)'
    <3>1. bad
      BY <2>1, <2>4, SettleSays, ContinueSays DEF Failed
    <3> QED
      BY <2>1, <3>1 DEF TruthInv, Reason
  <2>5. at'[c] \notin Ended => Stands(c)'
    BY <1>1, <1>2, <1>3, <2>3, StandsApart DEF Stands, uploadVars, Ended
  <2> QED
    BY <1>1, <1>2, <2>2, <2>4, <2>5, CauseAside DEF folderVars, uploadVars, Alone
<1> QED
  BY <1>4, <1>5 DEF MailStep

LEMMA SessionCause ==
    ASSUME AccessInv, TruthInv, ListInv, RuleInv, CauseInv, NEW c \in Calls, CallStep(c), CreateSession(c)
    PROVE  CauseInv'
<1>1. Goes(c) /\ at[c] \notin Ended \cup {"new"} /\ scene' = scene /\ InCall(c)
  BY CallGoes DEF Ended, InCall
<1>2. UNCHANGED <<folderVars, uploadVars>> /\ at[c] = "session"
  BY DEF CreateSession
<1>3. Stands(c) /\ ~Failed(c)
  BY <1>1 DEF CauseInv, Founded, Ended
<1>4. PICK answer :
        /\ Blame(c, answer, TRUE)
        /\ IF answer = "ok" THEN Continue(c, "chunk") ELSE Rejected(c, answer)
  BY DEF CreateSession
<1>5. Alone(fault, fault', c)
  BY <1>4, BlameAlone
<1>6. at'[c] \in {"done", "stuck", "chunk"}
  BY <1>4, RejectedSays, ContinueSays
<1>7. ASSUME at'[c] = "done", Failed(c)' PROVE Reason(c)'
  <2>1. answer # "ok"
    BY <1>4, <1>7, ContinueSays
  <2> QED
    BY <1>4, <2>1, BlamedReason
<1>8. at'[c] \notin Ended => Stands(c)'
  BY <1>1, <1>2, <1>3, <1>6, StandsApart DEF Stands, uploadVars, Ended
<1> QED
  BY <1>1, <1>2, <1>5, <1>7, <1>8, CauseAside DEF folderVars, uploadVars, Alone

\* The chunks follow on: the next one starts where Graph's bytes end.
LEMMA ChunkCause ==
    ASSUME AccessInv, TruthInv, ListInv, RuleInv, CauseInv, NEW c \in Calls, CallStep(c), UploadChunk(c)
    PROVE  CauseInv'
<1> DEFINE end == chunkEnd(offset[c], fileSize(c))
<1>1. Goes(c) /\ at[c] \notin Ended \cup {"new"} /\ scene' = scene /\ InCall(c)
  BY CallGoes DEF Ended, InCall
<1>2. UNCHANGED folderVars /\ at[c] = "chunk"
  BY DEF UploadChunk
<1>3. Stands(c) /\ ~Failed(c)
  BY <1>1 DEF CauseInv, Founded, Ended
<1>4. PICK answer, done :
        /\ answer \in Replies(offset[c] = received[c]) /\ done \in MayHaveDone(answer)
        /\ Blame(c, answer, offset[c] = received[c])
        /\ received' = IF done THEN [received EXCEPT ![c] = end] ELSE received
        /\ CASE NeverSettles(answer) -> Continue(c, "stuck") /\ UNCHANGED offset
             [] OTHER ->
                  \/ /\ answer \in {"refused", "unauthorized", "lost"}
                     /\ Settle(c, "error")
                     /\ UNCHANGED offset
                  \/ /\ answer \in {"ok", "bare", "garbled", "lost"}
                     /\ offset' = [offset EXCEPT ![c] = end]
                     /\ IF end # fileSize(c) THEN Continue(c, "chunk")
                        ELSE Settle(c, IF answer = "ok" THEN "ok" ELSE "error")
  BY Zenon DEF UploadChunk, chunkEnd
<1>5. answer \in Answers
  BY <1>2, <1>4, AnswersKnown, InCallFacts
<1>6. ~fault[c] => offset[c] = received[c]
  BY <1>1, <1>3 DEF Stands
<1> HIDE DEF end
<1>7. Alone(fault, fault', c) /\ Alone(received, received', c)
  BY <1>4, BlameAlone DEF Alone
<1>8. \/ answer \in {"refused", "unauthorized", "lost"} /\ at'[c] = "done" /\ offset' = offset
      \/ answer = "cut" /\ at'[c] = "stuck" /\ offset' = offset
      \/ (done \/ answer = "lost") /\ at'[c] = "chunk" /\ offset' = [offset EXCEPT ![c] = end]
      \/ at'[c] = "done" /\ report'[c] = (IF answer = "ok" THEN "ok" ELSE "error") /\ offset' = [offset EXCEPT ![c] = end]
  BY <1>4, <1>5, SettleSays, ContinueSays DEF Answers, NeverSettles, MayHaveDone
<1>9. Alone(offset, offset', c)
  BY <1>8 DEF Alone
<1>10. ASSUME at'[c] = "done", Failed(c)' PROVE Reason(c)'
  <2>1. answer # "ok"
    BY <1>8, <1>10 DEF Failed
  <2>2. fault'[c]
    BY <1>4, <1>6, <2>1 DEF Blame, TruthInv
  <2> QED
    BY <2>2 DEF Reason
<1>11. at'[c] \notin Ended => Stands(c)'
  <2>1. ASSUME at'[c] \notin Ended PROVE at'[c] = "chunk"
    BY <1>8, <2>1 DEF Ended
  <2>2. ASSUME at'[c] = "chunk", ~fault'[c] PROVE offset'[c] = received'[c]
    <3>1. answer # "lost"
      BY <1>4, <2>2 DEF Blame, TruthInv
    <3> QED
      BY <1>4, <1>8, <2>2, <3>1 DEF CauseInv, TruthInv
  <2> QED
    BY <1>1, <1>2, <1>3, <2>1, <2>2, StandsApart
<1> QED
  BY <1>1, <1>2, <1>7, <1>9, <1>10, <1>11, CauseAside DEF folderVars, Alone

-----------------------------------------------------------------------------
\* The start of a call, the rules, and the messages to move

LEMMA NothingListed ==
    ASSUME NEW t
    PROVE  Undisturbed(t, {<<>>}, {})
<1>1. EndOf(<<>>) = Root
  BY DEF EndOf
<1> QED
  BY <1>1 DEF Undisturbed

LEMMA AuthenticatedCause ==
    ASSUME AccessInv, TruthInv, ListInv, RuleInv, CauseInv, NEW c \in Calls, CallStep(c), UNCHANGED uploadVars,
           Authenticated(c)
    PROVE  CauseInv'
<1> DEFINE goal == IF Handler(c).flow = "createFolder" THEN "exists" ELSE "target"
<1>1. Goes(c) /\ at[c] \notin Ended \cup {"new"} /\ scene' = scene /\ InCall(c)
  BY CallGoes DEF Ended, InCall
<1>2. /\ at[c] = "auth" /\ ~TurnedDown(c) /\ Continue(c, Entry(c))
      /\ walk' = [walk EXCEPT ![c] = [todo |-> {<<>>}, listed |-> {}, goal |-> goal, found |-> Root]]
      /\ batch' = IF Handler(c).flow = "moveEmails" THEN [batch EXCEPT ![c] = asked(c).ids] ELSE batch
      /\ UNCHANGED <<tree, rules, shifts, fault>>
  BY DEF Authenticated, StartWalk
<1>3. Stands(c)
  BY <1>1 DEF CauseInv, Founded, Ended
<1>4. at'[c] = Entry(c) /\ PlacedAt(c, Entry(c))
  BY <1>2, ContinueSays, EntryPlaced
<1>5. walk'[c] = [todo |-> {<<>>}, listed |-> {}, goal |-> goal, found |-> Root]
  BY <1>2 DEF ListInv
<1>6. Handler(c).flow = "moveEmails" => batch'[c] = asked(c).ids
  BY <1>2 DEF CauseInv
<1>7. /\ asked(c)' = asked(c) /\ Handler(c)' = Handler(c) /\ Walks(c)' = Walks(c) /\ PathOf(c)' = PathOf(c)
      /\ TurnedDown(c)' = TurnedDown(c) /\ LooksFirst(c)' = LooksFirst(c)
  BY <1>1, ScenesFixed
<1>8. /\ Handler(c).flow = "createFolder" => asked(c).folder # <<>>
      /\ Handler(c).flow = "moveEmails" => asked(c).ids \in Seq(STRING) /\ asked(c).ids # <<>>
  <2>1. c \in DOMAIN scene.asked /\ scene \in Scenes /\ asked(c).complete
    BY <1>2, InCallFacts DEF TurnedDown
  <2> QED
    BY <2>1, FolderAssumption DEF asked, Handler, ToolFor
<1>9. Handler(c).flow = "moveEmails" => asked(c).ids \in Seq(Range(asked(c).ids))
  BY <1>8 DEF Range
<1>10. Entry(c) = "look" => LooksFirst(c)
  BY DEF Entry
<1>11. Entry(c) = "walk" /\ Handler(c).flow \in {"list", "createRule"} => PathOf(c) # <<>>
  BY DEF Entry, PathOf
<1>12. Stands(c)'
  <2>1. Undisturbed(tree, walk[c].todo, walk[c].listed)'
    BY <1>5, NothingListed
  <2>2. at'[c] = "walk" /\ Handler(c).flow \notin {"listFolders", "renameFolder", "deleteFolder", "moveEmails"} =>
           Sought(c)' # <<>>
    <3>1. Entry(c) = "walk" => Handler(c).flow \in Walking
      BY <1>4 DEF PlacedAt
    <3>2. walk'[c].goal = goal
      BY <1>5
    <3> QED
      BY <1>4, <1>7, <1>8, <1>11, <3>1, <3>2 DEF Sought, Walking
  <2>3. offset'[c] = received'[c]
    BY <1>2, <1>3 DEF Stands, uploadVars, Ended
  <2> QED
    BY <1>2, <1>4, <1>6, <1>7, <1>8, <1>9, <1>10, <2>1, <2>2, <2>3 DEF Stands
<1>13. at'[c] # "done"
  BY <1>4, EntryGoesOn
<1>14. Alone(walk, walk', c) /\ Alone(batch, batch', c)
  BY <1>2 DEF Alone
<1> QED
  BY <1>1, <1>2, <1>12, <1>13, <1>14, CauseAside DEF uploadVars, Alone

LEMMA ListRulesCause ==
    ASSUME AccessInv, TruthInv, ListInv, RuleInv, CauseInv, NEW c \in Calls, CallStep(c), UNCHANGED uploadVars,
           ListRules(c)
    PROVE  CauseInv'
<1>1. Goes(c) /\ at[c] \notin Ended \cup {"new"} /\ scene' = scene /\ InCall(c)
  BY CallGoes DEF Ended, InCall
<1>2. at[c] = "rules" /\ UNCHANGED <<tree, rules, shifts, batch>>
  BY DEF ListRules
<1>3. Handler(c).flow \in {"listRules", "createRule", "reorderRule"} /\ Walks(c)
  BY <1>2, InCallFacts DEF PlacedAt, Walks
<1>4. Stands(c)
  BY <1>1 DEF CauseInv, Founded, Ended
<1>5. PICK answer :
        /\ Blame(c, answer, TRUE)
        /\ \/ Continue(c, "stuck") /\ walk' = walk
           \/ /\ Handler(c).flow = "createRule" /\ walk' = walk
              /\ Continue(c, IF asked(c).folder # <<>> THEN "walk" ELSE "post")
           \/ Settle(c, "ok") /\ walk' = walk
           \/ ~Resolves(answer) /\ Settle(c, "error") /\ walk' = walk
           \/ /\ Handler(c).flow = "reorderRule" /\ Settle(c, "error") /\ walk' = walk
              /\ answer = "ok" => \A i \in DOMAIN rules : rules[i].name # asked(c).name
           \/ Continue(c, "post") /\ \E id : walk' = [walk EXCEPT ![c].goal = id]
  BY <1>3 DEF ListRules
<1>6. Alone(fault, fault', c) /\ Alone(walk, walk', c)
  BY <1>5, BlameAlone DEF Alone
<1>7. /\ asked(c)' = asked(c) /\ Handler(c)' = Handler(c) /\ Walks(c)' = Walks(c) /\ PathOf(c)' = PathOf(c)
      /\ TurnedDown(c)' = TurnedDown(c)
  BY <1>1, ScenesFixed
<1>8. ASSUME at'[c] = "done", Failed(c)' PROVE Reason(c)'
  <2>1. \/ answer # "ok"
        \/ Handler(c).flow = "reorderRule" /\ \A i \in DOMAIN rules : rules[i].name # asked(c).name
    BY <1>5, <1>8, SettleSays, ContinueSays DEF Failed, Resolves
  <2>2. CASE answer # "ok"
    BY <1>5, <2>2, BlamedReason
  <2>3. CASE Handler(c).flow = "reorderRule" /\ \A i \in DOMAIN rules : rules[i].name # asked(c).name
    BY <1>2, <1>7, <2>3 DEF Reason
  <2> QED
    BY <2>1, <2>2, <2>3
<1>9. ASSUME at'[c] \notin Ended PROVE Stands(c)'
  <2>1. \/ at'[c] = "post"
        \/ at'[c] = "walk" /\ Handler(c).flow = "createRule" /\ walk' = walk /\ asked(c).folder # <<>>
    BY <1>5, <1>9, SettleSays, ContinueSays DEF Ended
  <2>2. CASE at'[c] = "post"
    BY <1>1, <1>2, <1>4, <2>2, StandsApart DEF Stands, uploadVars, Ended
  <2>3. CASE at'[c] = "walk" /\ Handler(c).flow = "createRule" /\ walk' = walk /\ asked(c).folder # <<>>
    <3>1. Sought(c)' # <<>>
      BY <1>7, <2>3 DEF Sought, PathOf
    <3>2. fault[c] => fault'[c]
      BY <1>5, BlameGraver
    <3> QED
      BY <1>1, <1>2, <1>4, <1>7, <2>3, <3>1, <3>2 DEF Stands, uploadVars
  <2> QED
    BY <2>1, <2>2, <2>3
<1> QED
  BY <1>1, <1>2, <1>6, <1>8, <1>9, CauseAside DEF uploadVars, Alone

LEMMA ReachCause ==
    ASSUME AccessInv, TruthInv, ListInv, RuleInv, CauseInv, NEW c \in Calls, CallStep(c), UNCHANGED uploadVars, Reach(c)
    PROVE  CauseInv'
<1>1. Goes(c) /\ at[c] \notin Ended \cup {"new"} /\ scene' = scene /\ InCall(c)
  BY CallGoes DEF Ended, InCall
<1>2. at[c] = "reach" /\ UNCHANGED folderVars
  BY DEF Reach
<1>3. Stands(c)
  BY <1>1 DEF CauseInv, Founded, Ended
<1>4. PICK answer :
        /\ Blame(c, answer, TRUE)
        /\ IF Resolves(answer) THEN Continue(c, "move") ELSE Rejected(c, answer)
  BY DEF Reach
<1>5. Alone(fault, fault', c)
  BY <1>4, BlameAlone
<1>6. at'[c] \in {"done", "stuck", "move"}
  BY <1>4, RejectedSays, ContinueSays
<1>7. ASSUME at'[c] = "done" PROVE Reason(c)'
  <2>1. answer # "ok"
    BY <1>4, <1>7, ContinueSays DEF Resolves
  <2> QED
    BY <1>4, <2>1, BlamedReason
<1>8. at'[c] \notin Ended => Stands(c)'
  <2>1. asked(c)' = asked(c) /\ Handler(c)' = Handler(c) /\ TurnedDown(c)' = TurnedDown(c)
    BY <1>1, ScenesFixed
  <2> QED
    BY <1>1, <1>2, <1>3, <1>6, <2>1 DEF Stands, folderVars, uploadVars, Ended
<1> QED
  BY <1>1, <1>2, <1>5, <1>7, <1>8, CauseAside DEF folderVars, uploadVars, Alone

\* What is left of a batch is ids of the call, and moves on until none is.
LEMMA MoveCause ==
    ASSUME AccessInv, TruthInv, ListInv, RuleInv, CauseInv, NEW c \in Calls, CallStep(c), UNCHANGED uploadVars,
           MoveNext(c)
    PROVE  CauseInv'
<1> DEFINE reached == Reaches(OnTheWire(encodeURIComponent(Segment(Head(batch[c]), FALSE))))
<1>1. Goes(c) /\ at[c] \notin Ended \cup {"new"} /\ scene' = scene /\ InCall(c)
  BY CallGoes DEF Ended, InCall
<1>2. at[c] = "move" /\ UNCHANGED <<tree, rules, walk, shifts>>
  BY DEF MoveNext
<1>3. Stands(c) /\ Handler(c).flow = "moveEmails"
  BY <1>1, <1>2, InCallFacts DEF CauseInv, Founded, Ended, PlacedAt
<1>4. PICK answer :
        /\ Blame(c, answer, reached = Head(batch[c]))
        /\ moved' = IF Resolves(answer) THEN [moved EXCEPT ![c] = @ + 1] ELSE moved
        /\ batch' = [batch EXCEPT ![c] = Tail(@)]
        /\ \/ Continue(c, "stuck")
           \/ Len(batch[c]) > 1 /\ Continue(c, "move")
           \/ Settle(c, IF moved'[c] > 0 THEN "ok" ELSE "error")
  BY DEF MoveNext
<1>5. batch[c] \in Seq(Range(asked(c).ids)) /\ batch[c] # <<>>
  BY <1>2, <1>3 DEF Stands
<1>6. Head(batch[c]) \in Range(asked(c).ids)
  BY <1>5
<1>7. reached = Head(batch[c]) \/ TwiceEncoded(c)
  <2>1. CASE Head(batch[c]) \in Odd
    BY <1>3, <1>6, <2>1 DEF TwiceEncoded
  <2>2. CASE Head(batch[c]) \notin Odd
    BY <2>2 DEF OnTheWire, encodeURIComponent, Segment, Reaches
  <2> QED
    BY <2>1, <2>2
<1> HIDE DEF reached
<1>8. Alone(fault, fault', c) /\ Alone(batch, batch', c)
  BY <1>4, BlameAlone DEF Alone
<1>9. ASSUME at'[c] = "done", Failed(c)' PROVE Reason(c)'
  <2>1. ~(moved'[c] > 0)
    BY <1>4, <1>9, SettleSays, ContinueSays DEF Failed
  <2>2. moved[c] \in Nat /\ (Resolves(answer) => moved'[c] = moved[c] + 1)
    BY <1>4 DEF TruthInv, Truthful, Carries
  <2>3. answer # "ok"
    BY <2>1, <2>2 DEF Resolves
  <2>4. CASE reached = Head(batch[c])
    BY <1>4, <2>3, <2>4, BlamedReason
  <2> QED
    BY <1>1, <1>7, <2>4, ReasonsGiven
<1>10. ASSUME at'[c] \notin Ended PROVE Stands(c)'
  <2>1. at'[c] = "move" /\ Len(batch[c]) > 1
    BY <1>4, <1>10, SettleSays, ContinueSays DEF Ended
  <2>2. batch'[c] = Tail(batch[c])
    BY <1>4 DEF CauseInv
  <2>3. batch'[c] \in Seq(Range(asked(c).ids)) /\ batch'[c] # <<>>
    <3>1. Len(batch[c]) \in Nat \ {0} /\ (Len(batch[c]) # 1 => Tail(batch[c]) # <<>>)
      BY <1>5, TailLength, Zenon
    <3>2. Tail(batch[c]) \in Seq(Range(asked(c).ids))
      BY <1>5, HeadTailProperties, Zenon
    <3>3. \A n \in Nat : n > 1 => n # 1
      OBVIOUS
    <3> QED
      BY <2>1, <2>2, <3>1, <3>2, <3>3, Zenon
  <2>4. asked(c)' = asked(c) /\ Handler(c)' = Handler(c) /\ TurnedDown(c)' = TurnedDown(c)
    BY <1>1, ScenesFixed
  <2> QED
    BY <1>1, <1>2, <1>3, <2>1, <2>3, <2>4 DEF Stands, uploadVars, Ended
<1> QED
  BY <1>1, <1>2, <1>8, <1>9, <1>10, CauseAside DEF uploadVars, Alone

-----------------------------------------------------------------------------
\* The changes of rules and folders

\* The step that makes a change ends the call.
LEMMA PostCause ==
    ASSUME AccessInv, TruthInv, ListInv, RuleInv, CauseInv, NEW c \in Calls, CallStep(c),
           UNCHANGED <<walk, batch, offset, received>>, Counted, IsFiniteSet(Present(tree')),
           \A d \in Calls : d # c => Noted(d),
           NEW answer, NEW faithful, Blame(c, answer, faithful), Resolves(answer) \/ Rejected(c, answer),
           Resolves(answer) => Settle(c, "ok") \/ (answer # "ok" /\ Settle(c, "refusal")),
           faithful \/ Reason(c)'
    PROVE  CauseInv'
<1>1. Goes(c) /\ at[c] \notin Ended \cup {"new"} /\ scene' = scene
  BY CallGoes
<1>2. at'[c] \in {"done", "stuck"}
  BY RejectedSays, SettleSays
<1>3. ASSUME at'[c] = "done", Failed(c)' PROVE Reason(c)'
  <2>1. answer # "ok"
    BY <1>3, SettleSays DEF Failed, Resolves
  <2> QED
    BY <2>1, BlamedReason
<1> QED
  BY <1>1, <1>2, <1>3, BlameAlone, CauseStep DEF Ended, Alone

LEMMA RulesNoted ==
    ASSUME RuleInv, NEW c \in Calls, tree' = tree, RulesShift(c) \/ UNCHANGED <<rules, shifts>>
    PROVE  Counted /\ \A d \in Calls : d # c => Noted(d)
<1>1. CASE UNCHANGED <<rules, shifts>>
  BY <1>1, SameShifts DEF Noted
<1>2. CASE RulesShift(c)
  <2>1. \A d \in Calls : shifts[d] \in Nat
    BY DEF RuleInv, GoesLast
  <2> QED
    BY <1>2, <2>1, RulesShiftCounts DEF Noted
<1> QED
  BY <1>1, <1>2

LEMMA PostRuleCause ==
    ASSUME AccessInv, TruthInv, ListInv, RuleInv, CauseInv, NEW c \in Calls, CallStep(c), UNCHANGED uploadVars,
           PostRule(c)
    PROVE  CauseInv'
<1>1. UNCHANGED <<tree, walk, batch>> /\ (RulesShift(c) \/ UNCHANGED <<rules, shifts>>)
  BY DEF PostRule
<1>2. PICK answer :
        /\ Blame(c, answer, TRUE)
        /\ Resolves(answer) \/ Rejected(c, answer)
        /\ Resolves(answer) => Settle(c, "ok") \/ (answer # "ok" /\ Settle(c, "refusal"))
  BY DEF PostRule
<1>3. IsFiniteSet(Present(tree'))
  BY <1>1 DEF CauseInv
<1>4. Counted /\ \A d \in Calls : d # c => Noted(d)
  BY <1>1, RulesNoted
<1> QED
  BY <1>1, <1>2, <1>3, <1>4, PostCause DEF uploadVars

LEMMA ReorderCause ==
    ASSUME AccessInv, TruthInv, ListInv, RuleInv, CauseInv, NEW c \in Calls, CallStep(c), UNCHANGED uploadVars,
           Reorder(c)
    PROVE  CauseInv'
<1> DEFINE id      == walk[c].goal
           reached == Reaches(OnTheWire(encodeURIComponent(Segment(id, FALSE))))
<1>1. /\ Handler(c).flow = "reorderRule" /\ UNCHANGED <<scene, tree, walk, batch>>
      /\ RulesShift(c) \/ UNCHANGED <<rules, shifts>>
  BY DEF Reorder
<1>2. PICK answer :
        /\ Blame(c, answer, reached = id)
        /\ Resolves(answer) \/ Rejected(c, answer)
        /\ Resolves(answer) => Settle(c, "ok")
  BY DEF Reorder
<1>3. reached = id \/ Reason(c)'
  <2>1. CASE id \notin Odd
    BY <2>1 DEF OnTheWire, encodeURIComponent, Segment, Reaches
  <2>2. CASE id \in Odd
    <3>1. RuleTwiceEncoded(c)'
      BY <1>1, <2>2, ScenesFixed DEF RuleTwiceEncoded
    <3> QED
      BY <3>1 DEF Reason
  <2> QED
    BY <2>1, <2>2
<1>4. IsFiniteSet(Present(tree'))
  BY <1>1 DEF CauseInv
<1>5. Counted /\ \A d \in Calls : d # c => Noted(d)
  BY <1>1, RulesNoted
<1> HIDE DEF reached, id
<1> QED
  BY <1>1, <1>2, <1>3, <1>4, <1>5, PostCause DEF uploadVars

\* A change leaves finitely many folders.
LEMMA ShiftedFinite ==
    ASSUME NEW B, IsTree(B), NEW T, Shifted(B, T), IsFiniteSet(Present(B))
    PROVE  IsFiniteSet(Present(T))
<1>1. CASE Arranges(B, T)
  <2>1. PICK g \in FolderIds : \A f \in FolderIds : f # g => T[f] = B[f]
    BY <1>1 DEF Arranges, IsTree, FolderTree
  <2>2. Present(T) \subseteq Present(B) \cup {g}
    BY <2>1 DEF Present
  <2>3. IsFiniteSet(Present(B) \cup {g})
    BY FS_AddElement
  <2> QED
    BY <2>2, <2>3, FS_Subset
<1>2. CASE Prunes(B, T)
  <2>1. Present(T) \subseteq Present(B)
    BY <1>2 DEF Prunes, Present
  <2> QED
    BY <2>1, FS_Subset
<1> QED
  BY <1>1, <1>2 DEF Shifted

\* A change of the tree by other calls than those of `own` is counted.
LEMMA ShiftNoted ==
    ASSUME RuleInv, NEW t, NEW own, Shift(t, own)
    PROVE  Counted /\ \A d \in Calls : d \notin own => Noted(d)
<1>1. \A d \in Calls : shifts[d] \in Nat
  BY DEF RuleInv, GoesLast
<1>2. \A d \in Calls : d \notin own /\ Walks(d) /\ at[d] # "new" => shifts'[d] = shifts[d] + 1
  BY DEF Shift
<1>3. \A n \in Nat : n + 1 # 0
  OBVIOUS
<1> QED
  BY <1>1, <1>2, <1>3, ShiftCounts DEF Noted

LEMMA PostFolderCause ==
    ASSUME AccessInv, TruthInv, ListInv, RuleInv, NamedInv, CauseInv, NEW c \in Calls, CallStep(c), UNCHANGED uploadVars,
           PostFolder(c)
    PROVE  CauseInv'
<1>1. UNCHANGED <<rules, walk, batch>>
  BY DEF PostFolder
<1>2. PICK answer :
        /\ Blame(c, answer, TRUE)
        /\ Resolves(answer) \/ Rejected(c, answer)
        /\ Resolves(answer) => Settle(c, "ok") \/ (answer # "ok" /\ Settle(c, "refusal"))
  BY DEF PostFolder
<1>3. UNCHANGED <<tree, shifts>> \/ (Shift(tree', {c}) /\ Shifted(tree, tree'))
  BY PostFolderShifts
<1>4. IsFiniteSet(Present(tree'))
  BY <1>3, ShiftedFinite DEF CauseInv, NamedInv
<1>5. Counted /\ \A d \in Calls : d # c => Noted(d)
  <2>1. CASE UNCHANGED <<tree, shifts>>
    BY <1>1, <2>1, SameShifts DEF Noted
  <2>2. CASE Shift(tree', {c})
    BY <2>2, ShiftNoted
  <2> QED
    BY <1>3, <2>1, <2>2
<1> QED
  BY <1>1, <1>2, <1>4, <1>5, PostCause DEF uploadVars

-----------------------------------------------------------------------------
\* The walk

\* A listing of a folder's children, of a tree that does not change, leaves every
\* folder listed once or still to do.
LEMMA UndisturbedOn ==
    ASSUME NEW c \in Calls, Surveying(c), IsTree(tree), NEW way \in walk[c].todo,
           \A r \in walk[c].listed : ReadIn(r, tree),
           Undisturbed(tree, walk[c].todo, walk[c].listed)
    PROVE  Undisturbed(tree, (walk[c].todo \ {way}) \cup
                               {Append(way, f) : f \in {k \in ChildrenIn(tree, EndOf(way)) : ChildrenIn(tree, k) # {}}},
                       walk[c].listed \cup Children(tree, way))
<1> DEFINE p     == EndOf(way)
           kids  == ChildrenIn(tree, p)
           old   == walk[c].listed
           todo  == walk[c].todo \ {way}
           more  == {Append(way, f) : f \in {k \in kids : ChildrenIn(tree, k) # {}}}
           fresh == Children(tree, way)
<1>1. /\ \A r, x \in old : r.id = x.id => r = x
      /\ \A v, w \in walk[c].todo : EndOf(v) = EndOf(w) => v = w
      /\ \A v \in walk[c].todo, r \in old : r.parent # EndOf(v)
      /\ \A q \in {Root} \cup {r.id : r \in old} :
           (\E v \in walk[c].todo : EndOf(v) = q) \/ (\A f \in ChildrenIn(tree, q) : \E r \in old : r.id = f)
  BY DEF Undisturbed
<1>2. \A r \in fresh : r.id \in kids /\ r.parent = p /\ r.name = tree[r.id].name /\ r.way = way
  BY DEF Children
<1>3. \A r, x \in fresh : r.id = x.id => r = x
  BY DEF Children
<1>4. \A f \in kids : f \in Present(tree) /\ f \in FolderIds /\ tree[f].parent = p /\ f # Root
  BY FolderAssumption DEF ChildrenIn, Present
<1>5. \A f \in kids : EndOf(Append(way, f)) = f /\ \E x \in fresh : x.id = f
  BY MoreListed
<1>6. \A r \in old : r.id \in Present(tree) /\ tree[r.id].parent = r.parent /\ r.parent # p
  BY <1>1 DEF ReadIn
<1>7. \A f \in kids : \A r \in old : r.id # f
  BY <1>4, <1>6
<1>8. \A w \in todo : EndOf(w) # p /\ (EndOf(w) = Root \/ \E x \in old : x.id = EndOf(w))
  BY <1>1 DEF Surveying
<1>9. \A w \in more : EndOf(w) \in kids
  BY <1>5
<1>10. \A v, w \in more : EndOf(v) = EndOf(w) => v = w
  BY <1>5
<1>11. \A f \in kids : f # p
  <2>1. \A f \in kids : f \in Subtree(tree, f) /\ tree[f].parent \notin Subtree(tree, f)
    BY <1>4, SubtreeFacts DEF IsTree, Forest
  <2> QED
    BY <1>4, <2>1
<1>12. \A k \in kids : ChildrenIn(tree, k) # {} => Append(way, k) \in more
  OBVIOUS
<1>13. \A r \in old : r.parent \notin kids
  <2>1. ASSUME NEW r \in old, r.parent \in kids PROVE FALSE
    <3>1. r.parent = Root \/ \E x \in old : x.id = r.parent
      BY DEF Surveying, Enclosed
    <3> QED
      BY <1>4, <1>7, <2>1, <3>1
  <2> QED
    BY <2>1
<1>14. \A v \in more : v \in walk[c].todo => v # way
  BY <1>9, <1>11
<1> HIDE DEF p, kids, old, todo, more, fresh
<1>15. \A r, x \in old \cup fresh : r.id = x.id => r = x
  BY <1>1, <1>2, <1>3, <1>7
<1>16. \A v, w \in todo \cup more : EndOf(v) = EndOf(w) => v = w
  <2>1. \A v, w \in todo : EndOf(v) = EndOf(w) => v = w
    BY <1>1 DEF todo
  <2>2. \A v \in todo, w \in more : EndOf(v) # EndOf(w)
    BY <1>4, <1>7, <1>8, <1>9
  <2> QED
    BY <1>10, <2>1, <2>2
<1>17. \A v \in todo \cup more, r \in old \cup fresh : r.parent # EndOf(v)
  <2>1. \A v \in todo, r \in old : r.parent # EndOf(v)
    BY <1>1 DEF todo
  <2>2. \A v \in todo, r \in fresh : r.parent # EndOf(v)
    BY <1>2, <1>8
  <2>3. \A v \in more, r \in old : r.parent # EndOf(v)
    BY <1>9, <1>13
  <2>4. \A v \in more, r \in fresh : r.parent # EndOf(v)
    BY <1>2, <1>9, <1>11
  <2> QED
    BY <2>1, <2>2, <2>3, <2>4
<1>18. ASSUME NEW q \in {Root} \cup {r.id : r \in old \cup fresh}
       PROVE  \/ \E v \in todo \cup more : EndOf(v) = q
              \/ \A f \in ChildrenIn(tree, q) : \E r \in old \cup fresh : r.id = f
  <2>1. CASE q = p
    BY <1>5, <2>1 DEF kids
  <2>2. CASE q \in kids
    <3>1. CASE ChildrenIn(tree, q) = {}
      BY <3>1
    <3>2. CASE ChildrenIn(tree, q) # {}
      BY <1>5, <1>12, <2>2, <3>2
    <3> QED
      BY <3>1, <3>2
  <2>3. CASE q # p /\ q \notin kids
    <3>1. q \in {Root} \cup {r.id : r \in old}
      BY <1>2, <2>3
    <3>2. CASE \E v \in walk[c].todo : EndOf(v) = q
      BY <2>3, <3>2 DEF todo, p
    <3>3. CASE \A f \in ChildrenIn(tree, q) : \E r \in old : r.id = f
      BY <3>3
    <3> QED
      BY <1>1, <3>1, <3>2, <3>3
  <2> QED
    BY <2>1, <2>2, <2>3
<1> QED
  BY <1>15, <1>16, <1>17, <1>18 DEF Undisturbed, p, kids, old, todo, more, fresh

\* A walk in which no one else has changed anything has read the tree there is,
\* and, when nothing is left to do, all of it.
LEMMA WalkOfTree ==
    ASSUME AccessInv, NamedInv, CauseInv, NEW c \in Calls, at[c] = "walk", Walks(c), shifts[c] = 0, ~fault[c],
           NEW way \in walk[c].todo
    PROVE  /\ Surveying(c) /\ IsTree(tree) /\ IsFiniteSet(Present(tree))
           /\ \A r \in walk[c].listed : ReadIn(r, tree)
           /\ Undisturbed(tree, walk[c].todo, walk[c].listed)
<1>1. Surveying(c) /\ IsTree(tree)
  BY DEF NamedInv, Aims
<1>2. PICK B : Survey(c, B)
  BY <1>1 DEF Surveying
<1>3. \A r \in walk[c].listed : ReadIn(r, tree)
  BY <1>2 DEF Survey
<1>4. Undisturbed(tree, walk[c].todo, walk[c].listed) /\ IsFiniteSet(Present(tree))
  BY DEF CauseInv, Founded, Stands
<1> QED
  BY <1>1, <1>3, <1>4

LEMMA WholeWalk ==
    ASSUME AccessInv, NamedInv, CauseInv, NEW c \in Calls, at[c] = "walk", Walks(c), shifts[c] = 0, ~fault[c],
           NEW way \in walk[c].todo,
           (walk[c].todo \ {way})
             \cup {Append(way, f) : f \in {k \in ChildrenIn(tree, EndOf(way)) : ChildrenIn(tree, k) # {}}} = {},
           NEW path \in Seq(Names)
    PROVE  /\ path # <<>> /\ Cardinality(PathIds(tree, path)) = 1 =>
                resolvePathSegments(walk[c].listed \cup Children(tree, way), path) # {}
           /\ Cardinality(PathIds(tree, path)) = 0 =>
                resolvePathSegments(walk[c].listed \cup Children(tree, way), path) = {}
<1> DEFINE listed == walk[c].listed \cup Children(tree, way)
<1>1. /\ Surveying(c) /\ IsTree(tree) /\ IsFiniteSet(Present(tree))
      /\ \A r \in walk[c].listed : ReadIn(r, tree)
      /\ Undisturbed(tree, walk[c].todo, walk[c].listed)
  BY WalkOfTree
<1>2. Undisturbed(tree, {}, listed)
  BY <1>1, UndisturbedOn
<1>3. Enclosed(listed) /\ \A r \in listed : ReadIn(r, tree)
  BY <1>1, MoreListed
<1>4. Len(path) \in Nat /\ (path # <<>> => Len(path) # 0)
  BY EmptySeq
<1> HIDE DEF listed
<1>5. path # <<>> /\ Cardinality(PathIds(tree, path)) = 1 => resolvePathSegments(listed, path) # {}
  BY <1>1, <1>2, <1>3, <1>4, WholeResolves
<1>6. Cardinality(PathIds(tree, path)) = 0 => resolvePathSegments(listed, path) = {}
  BY <1>1, <1>3, <1>4, WholeResolvesNone
<1> QED
  BY <1>5, <1>6 DEF listed

LEMMA NotOneFolder ==
    ASSUME NEW c \in Calls, UNCHANGED <<scene, tree, shifts>>, Walks(c),
           shifts[c] = 0 /\ ~fault'[c] => ~OneFolder(c)
    PROVE  Reason(c)'
<1>1. Walks(c)' /\ (OneFolder(c)' <=> OneFolder(c))
  BY ScenesFixed DEF OneFolder
<1> QED
  BY <1>1 DEF Reason

\* What a handler makes of the whole list.
LEMMA ResolvedCause ==
    ASSUME AccessInv, TruthInv, ListInv, RuleInv, NamedInv, CauseInv, NEW c \in Calls, Goes(c), at[c] = "walk",
           UNCHANGED <<scene, tree, rules, shifts, batch, offset, received>>, Alone(walk, walk', c), Alone(fault, fault', c),
           NEW way \in walk[c].todo,
           NEW listed, Resolved(c, listed),
           \/ fault'[c]
           \/ /\ ~fault[c]
              /\ listed = walk[c].listed \cup Children(tree, way)
              /\ (walk[c].todo \ {way})
                   \cup {Append(way, f) : f \in {k \in ChildrenIn(tree, EndOf(way)) : ChildrenIn(tree, k) # {}}} = {}
    PROVE  CauseInv'
<1> DEFINE ids(path) == resolvePathSegments(listed, path)
           flow == Handler(c).flow
<1>1. flow \in Walking /\ Walks(c) /\ InCall(c) /\ at[c] \notin Ended
  BY InCallFacts DEF PlacedAt, Walks, Walking, InCall, Ended
<1>2. Stands(c) /\ ~TurnedDown(c)
  BY <1>1 DEF CauseInv, Founded, Stands
<1>3. asked(c).folder \in Seq(Names) /\ asked(c).parent \in Seq(Names)
  BY InCallFacts, FolderAssumption DEF asked
<1>4. /\ asked(c)' = asked(c) /\ Handler(c)' = Handler(c) /\ Walks(c)' = Walks(c) /\ PathOf(c)' = PathOf(c)
      /\ TurnedDown(c)' = TurnedDown(c)
  BY ScenesFixed
<1>5. ASSUME NEW path \in Seq(Names), shifts[c] = 0, ~fault'[c]
      PROVE  /\ path # <<>> /\ Cardinality(PathIds(tree, path)) = 1 => ids(path) # {}
             /\ Cardinality(PathIds(tree, path)) = 0 => ids(path) = {}
  BY <1>1, <1>5, WholeWalk
<1>6. offset'[c] = received'[c]
  BY <1>1, <1>2 DEF Stands
<1> HIDE DEF ids
<1>7. ASSUME NEW r, Settle(c, r), r \in {"ok", "preview"} \/ (shifts[c] = 0 /\ ~fault'[c] => ~OneFolder(c))
      PROVE  CauseInv'
  <2>1. at'[c] = "done" /\ report'[c] = r
    BY <1>7, SettleSays
  <2>2. Failed(c)' => Reason(c)'
    BY <1>1, <1>7, <2>1, NotOneFolder DEF Failed
  <2> QED
    BY <1>1, <2>1, <2>2, CauseAside DEF Alone, Ended
<1>8. ASSUME NEW id, NEW stage \in {"post", "reach", "page"}, Found(c, id, stage) PROVE CauseInv'
  <2>1. at'[c] = stage
    BY <1>8, ContinueSays DEF Found
  <2>2. Stands(c)'
    BY <1>2, <1>4, <1>6, <2>1 DEF Stands
  <2> QED
    BY <1>1, <2>1, <2>2, CauseAside DEF Alone
<1>9. CASE flow = "listFolders"
  <2>1. Settle(c, "ok")
    BY <1>9 DEF Resolved
  <2> QED
    BY <1>7, <2>1
<1>10. CASE flow = "createFolder" /\ walk[c].goal = "exists"
  <2>1. \/ ids(asked(c).folder) # {} /\ Settle(c, "refusal")
        \/ Found(c, Root, "post")
        \/ asked(c).parent # <<>> /\ StartWalk(c, "parent") /\ Continue(c, "walk")
    BY <1>10 DEF Resolved, ids
  <2>2. CASE ids(asked(c).folder) # {} /\ Settle(c, "refusal")
    <3>1. asked(c).folder # <<>>
      BY <1>2, <1>10 DEF Stands, Sought
    <3>2. shifts[c] = 0 /\ ~fault'[c] => ~OneFolder(c)
      BY <1>3, <1>5, <1>10, <2>2, <3>1 DEF OneFolder
    <3> QED
      BY <1>7, <2>2, <3>2
  <2>3. CASE asked(c).parent # <<>> /\ StartWalk(c, "parent") /\ Continue(c, "walk")
    <3>1. at'[c] = "walk" /\ walk'[c] = [todo |-> {<<>>}, listed |-> {}, goal |-> "parent", found |-> Root]
      BY <2>3, ContinueSays DEF StartWalk, ListInv
    <3>2. Undisturbed(tree, walk[c].todo, walk[c].listed)'
      BY <3>1, NothingListed
    <3>3. Sought(c)' # <<>>
      BY <1>4, <1>10, <2>3, <3>1 DEF Sought, PathOf
    <3>4. Stands(c)'
      BY <1>2, <1>4, <1>6, <1>10, <3>1, <3>2, <3>3 DEF Stands
    <3> QED
      BY <1>1, <3>1, <3>4, CauseAside DEF Alone
  <2> QED
    BY <1>8, <2>1, <2>2, <2>3
<1>11. CASE flow = "createRule" \/ (flow = "createFolder" /\ walk[c].goal # "exists")
  <2>1. \/ ids(PathOf(c)) = {} /\ Settle(c, "refusal")
        \/ \E id : Found(c, id, "post")
    BY <1>11 DEF Resolved, ids
  <2>2. CASE ids(PathOf(c)) = {} /\ Settle(c, "refusal")
    <3>1. PathOf(c) # <<>> /\ PathOf(c) \in Seq(Names)
      BY <1>2, <1>3, <1>11 DEF Stands, Sought, PathOf
    <3>2. ASSUME shifts[c] = 0, ~fault'[c] PROVE ~OneFolder(c)
      <4>1. Cardinality(PathIds(tree, PathOf(c))) # 1
        BY <1>5, <2>2, <3>1, <3>2
      <4> QED
        BY <1>11, <3>1, <4>1 DEF OneFolder, PathOf
    <3> QED
      BY <1>7, <2>2, <3>2
  <2> QED
    BY <1>8, <2>1, <2>2
<1>12. CASE flow \in {"renameFolder", "deleteFolder", "moveEmails", "list"}
  <2>1. \/ ids(asked(c).folder) = {} /\ Settle(c, "error")
        \/ Settle(c, "preview")
        \/ \E id : \E stage \in {"post", "reach", "page"} : Found(c, id, stage)
    BY <1>12 DEF Resolved, ids
  <2>2. CASE ids(asked(c).folder) = {} /\ Settle(c, "error")
    <3>1. flow = "list" => asked(c).folder # <<>>
      BY <1>2 DEF Stands, Sought, PathOf
    <3>2. ASSUME shifts[c] = 0, ~fault'[c] PROVE ~OneFolder(c)
      <4>1. CASE asked(c).folder = <<>>
        BY <1>12, <3>1, <4>1 DEF OneFolder
      <4>2. CASE asked(c).folder # <<>>
        <5>1. Cardinality(PathIds(tree, asked(c).folder)) # 1
          BY <1>3, <1>5, <2>2, <3>2, <4>2
        <5> QED
          BY <1>12, <4>2, <5>1 DEF OneFolder
      <4> QED
        BY <4>1, <4>2
    <3> QED
      BY <1>7, <2>2, <3>2
  <2> QED
    BY <1>7, <1>8, <2>1, <2>2
<1> QED
  BY <1>1, <1>9, <1>10, <1>11, <1>12 DEF Walking

LEMMA ListChildrenCause ==
    ASSUME AccessInv, TruthInv, ListInv, RuleInv, NamedInv, CauseInv, NEW c \in Calls, CallStep(c), FolderStep(c),
           UNCHANGED uploadVars, NEW way \in walk[c].todo, ListChildren(c, way)
    PROVE  CauseInv'
<1> DEFINE rowsOf(kids) == {[id |-> f, name |-> tree[f].name, parent |-> EndOf(way), way |-> way] : f \in kids}
           todoOf(kids) == (walk[c].todo \ {way})
                             \cup {Append(way, f) : f \in {k \in kids : ChildrenIn(tree, k) # {}}}
<1>1. Goes(c) /\ at[c] \notin Ended /\ UNCHANGED <<scene, tree, rules, shifts, batch>> /\ at[c] = "walk"
  BY CallGoes DEF ListChildren
<1>2. Handler(c).flow \in Walking /\ Walks(c) /\ InCall(c)
  BY <1>1, InCallFacts DEF PlacedAt, Walks, Walking, InCall
<1>8. PICK answer, kids :
        /\ kids = (IF answer = "ok" THEN ChildrenIn(tree, EndOf(way)) ELSE {})
        /\ Blame(c, answer, TRUE)
        /\ \/ todoOf(kids) = {} /\ Resolved(c, walk[c].listed \cup rowsOf(kids))
           \/ walk' = [walk EXCEPT ![c].todo = todoOf(kids), ![c].listed = walk[c].listed \cup rowsOf(kids)]
                /\ Continue(c, "walk")
           \/ answer # "ok" /\ walk' = walk /\ (Continue(c, "stuck") \/ \E r : Settle(c, r))
  BY DEF ListChildren, Resolves
<1> DEFINE listed == walk[c].listed \cup rowsOf(kids)
           todo   == todoOf(kids)
<1>3. \/ todo = {} /\ Resolved(c, listed)
      \/ walk' = [walk EXCEPT ![c].todo = todo, ![c].listed = listed] /\ Continue(c, "walk")
      \/ answer # "ok" /\ walk' = walk /\ (Continue(c, "stuck") \/ \E r : Settle(c, r))
  BY <1>8
<1>4. Alone(walk, walk', c) /\ Alone(fault, fault', c)
  BY <1>8, WalkAlone, BlameAlone
<1>9. ~fault'[c] => /\ ~fault[c] /\ kids = ChildrenIn(tree, EndOf(way))
                    /\ listed = walk[c].listed \cup Children(tree, way)
  <2>1. ~fault'[c] => ~fault[c] /\ answer = "ok"
    BY <1>8 DEF Blame, TruthInv
  <2> QED
    BY <1>8, <2>1 DEF Children
<1>5. CASE todo = {} /\ Resolved(c, listed)
  <2>1. PICK L : L = listed
    OBVIOUS
  <2>2. ~fault'[c] =>
           (walk[c].todo \ {way})
             \cup {Append(way, f) : f \in {k \in ChildrenIn(tree, EndOf(way)) : ChildrenIn(tree, k) # {}}} = {}
    BY <1>5, <1>9
  <2>3. Resolved(c, L) /\ (~fault'[c] => ~fault[c] /\ L = walk[c].listed \cup Children(tree, way))
    BY <1>5, <1>9, <2>1
  <2> HIDE DEF listed, todo
  <2> QED
    BY <1>1, <1>4, <2>2, <2>3, ResolvedCause DEF uploadVars
<1>6. CASE answer # "ok" /\ walk' = walk /\ (Continue(c, "stuck") \/ \E r : Settle(c, r))
  <2>1. at'[c] \in {"done", "stuck"}
    BY <1>6, SettleSays, ContinueSays
  <2>2. Reason(c)'
    BY <1>8, <1>6, BlamedReason
  <2> QED
    BY <1>1, <1>4, <2>1, <2>2, CauseAside DEF Alone, uploadVars, Ended
<1>7. CASE walk' = [walk EXCEPT ![c].todo = todo, ![c].listed = listed] /\ Continue(c, "walk")
  <2>1. at'[c] = "walk"
    BY <1>7, ContinueSays
  <2>2. Stands(c)
    BY <1>1 DEF CauseInv, Founded
  <2>3. walk'[c].todo = todo /\ walk'[c].listed = listed /\ walk'[c].goal = walk[c].goal
    <3>1. Surveying(c)
      BY <1>1, <1>2 DEF NamedInv, Aims
    <3>2. walk'[c] = [[walk[c] EXCEPT !.todo = todo] EXCEPT !.listed = listed]
      BY <1>7 DEF ListInv
    <3>3. PICK t, r, g : walk[c] = [todo |-> t, listed |-> r, goal |-> g, found |-> Root] /\ g = walk[c].goal
      BY <3>1, Zenon DEF Surveying
    <3> HIDE DEF todo, listed
    <3> QED
      BY <3>2, <3>3
  <2>4. shifts[c] = 0 /\ ~fault'[c] => Undisturbed(tree, todo, listed)
    <3>1. ASSUME shifts[c] = 0, ~fault'[c] PROVE Undisturbed(tree, todo, listed)
      <4>1. Undisturbed(tree, (walk[c].todo \ {way}) \cup
                {Append(way, f) : f \in {k \in ChildrenIn(tree, EndOf(way)) : ChildrenIn(tree, k) # {}}},
                walk[c].listed \cup Children(tree, way))
        BY <1>1, <1>2, <1>9, <3>1, WalkOfTree, UndisturbedOn
      <4> QED
        BY <1>9, <3>1, <4>1
    <3> QED
      BY <3>1
  <2> HIDE DEF todo, listed
  <2>5. /\ asked(c)' = asked(c) /\ Handler(c)' = Handler(c) /\ Walks(c)' = Walks(c) /\ PathOf(c)' = PathOf(c)
        /\ TurnedDown(c)' = TurnedDown(c)
    BY <1>1, ScenesFixed
  <2>6. Sought(c)' = Sought(c)
    BY <2>3, <2>5 DEF Sought
  <2>7. shifts'[c] = 0 /\ ~fault'[c] => Undisturbed(tree, walk[c].todo, walk[c].listed)'
    BY <1>1, <2>3, <2>4
  <2>8. Stands(c)'
    BY <1>1, <1>2, <2>1, <2>2, <2>5, <2>6, <2>7 DEF Stands, uploadVars
  <2> QED
    BY <1>1, <1>4, <2>1, <2>8, CauseAside DEF Alone, uploadVars
<1> QED
  BY <1>3, <1>5, <1>6, <1>7

-----------------------------------------------------------------------------
\* All steps

LEMMA CallCause ==
    ASSUME AccessInv, TruthInv, ListInv, RuleInv, NamedInv, CauseInv, NEW c \in Calls, CallStep(c)
    PROVE  CauseInv'
<1>1. CASE ItemStep(c)
  BY <1>1, ItemCause
<1>2. CASE FolderStep(c) /\ UNCHANGED uploadVars
  BY <1>2, AuthenticatedCause, ListChildrenCause, PostFolderCause, ReachCause, MoveCause, ListRulesCause,
     PostRuleCause, ReorderCause DEF FolderStep
<1>3. CASE MailStep(c) /\ UNCHANGED uploadVars
  BY <1>3, MailCause
<1>4. CASE CreateSession(c) \/ UploadChunk(c)
  BY <1>4, SessionCause, ChunkCause
<1> QED
  BY <1>1, <1>2, <1>3, <1>4 DEF CallStep

\* A step of no call that goes on.
LEMMA OthersCause ==
    ASSUME RuleInv, CauseInv, Counted, IsFiniteSet(Present(tree')), \A d \in Calls : Noted(d),
           UNCHANGED <<scene, report, fault, walk, batch, uploadVars>>,
           \A d \in Calls : at'[d] = at[d] \/ (InCall(d) /\ at'[d] = "gone")
    PROVE  CauseInv'
<1>1. ASSUME NEW d \in Calls PROVE Founded(d)'
  BY FoundedStays DEF CauseInv, uploadVars
<1> QED
  BY <1>1 DEF CauseInv, uploadVars

LEMMA NothingCause ==
    ASSUME RuleInv, CauseInv, UNCHANGED <<tree, rules, shifts>>,
           UNCHANGED <<scene, report, fault, walk, batch, uploadVars>>,
           \A d \in Calls : at'[d] = at[d] \/ (InCall(d) /\ at'[d] = "gone")
    PROVE  CauseInv'
<1>1. Counted /\ \A d \in Calls : Noted(d)
  BY SameShifts DEF Noted
<1>2. IsFiniteSet(Present(tree'))
  BY DEF CauseInv
<1> QED
  BY <1>1, <1>2, OthersCause

LEMMA InitCause == Init => CauseInv
<1> SUFFICES ASSUME Init PROVE CauseInv
  OBVIOUS
<1>1. /\ at = [c \in Calls |-> "new"] /\ report = [c \in Calls |-> "none"]
      /\ batch = [c \in Calls |-> <<>>] /\ offset = [c \in Calls |-> 0] /\ received = [c \in Calls |-> 0]
      /\ scene \in Scenes /\ tree = scene.tree
  BY DEF Init, FolderInit, UploadInit
<1>2. IsFiniteSet(Present(tree))
  BY <1>1, FolderAssumption
<1>3. ASSUME NEW c \in Calls PROVE Founded(c)
  BY <1>1 DEF Founded, Stands, Failed, InCall
<1> QED
  BY <1>1, <1>2, <1>3 DEF CauseInv

LEMMA NextCause ==
    ASSUME AccessInv, TruthInv, ListInv, RuleInv, NamedInv, CauseInv, [Next]_vars
    PROVE  CauseInv'
<1>1. CASE UNCHANGED vars
  BY <1>1, NothingCause DEF vars, callVars, folderVars
<1>2. ASSUME NEW c \in Calls, NewCall(c) PROVE CauseInv'
  <2>1. Continue(c, "auth") /\ at[c] = "new" /\ UNCHANGED <<scene, fault, folderVars, uploadVars>>
    BY <1>2 DEF NewCall, Call
  <2>2. Goes(c)
    BY <2>1 DEF Goes, Follows
  <2>3. at'[c] = "auth"
    BY <2>1, ContinueSays
  <2>4. Stands(c)
    BY DEF CauseInv, Founded
  <2>5. Stands(c)'
    BY <2>1, <2>3, <2>4 DEF Stands, uploadVars, Ended
  <2> QED
    BY <2>1, <2>2, <2>3, <2>5, CauseAside DEF Alone, folderVars, uploadVars, Ended
<1>3. ASSUME NEW c \in Calls, CallStep(c) PROVE CauseInv'
  BY <1>3, CallCause
<1>4. ASSUME NEW s \in Servers, Dies(s) PROVE CauseInv'
  <2>1. \A c \in Calls : at'[c] = at[c] \/ (InCall(c) /\ at'[c] = "gone")
    BY <1>4 DEF Dies
  <2>2. UNCHANGED <<scene, report, fault, tree, rules, shifts, walk, batch, uploadVars>>
    BY <1>4 DEF Dies, folderVars
  <2> QED
    BY <2>1, <2>2, NothingCause
<1>5. ASSUME NEW s \in Servers, LogStep(s) \/ LogFault(s) PROVE CauseInv'
  <2>1. UNCHANGED <<scene, at, report, fault, tree, rules, shifts, walk, batch, uploadVars>>
    BY <1>5 DEF LogStep, LogFault, callVars, folderVars
  <2> QED
    BY <2>1, NothingCause
<1>6. ASSUME \/ \E m \in scene.moves : OwnerArranges(m[1], m[2], m[3])
             \/ \E f \in scene.deletes : OwnerDeletes(f),
             UNCHANGED uploadVars
      PROVE  CauseInv'
  <2>1. UNCHANGED <<callVars, rules, walk, batch>>
    BY <1>6 DEF OwnerArranges, OwnerDeletes
  <2>2. Shift(tree', {}) /\ Shifted(tree, tree')
    BY <1>6, OwnerShifts
  <2>3. Counted /\ \A d \in Calls : Noted(d)
    BY <2>2, ShiftNoted
  <2>4. IsFiniteSet(Present(tree'))
    BY <2>2, ShiftedFinite DEF NamedInv, CauseInv
  <2> QED
    BY <1>6, <2>1, <2>3, <2>4, OthersCause DEF callVars
<1>7. ASSUME Other PROVE CauseInv'
  <2>1. CASE \/ \E b \in scene.boxes : BoxChanges(b) /\ UNCHANGED uploadVars
             \/ \E f \in scene.files : FileChanges(f) /\ UNCHANGED uploadVars
    <3>1. UNCHANGED <<scene, at, report, fault, tree, rules, shifts, walk, batch, uploadVars>>
      BY <2>1 DEF BoxChanges, FileChanges, callVars, folderVars
    <3> QED
      BY <3>1, NothingCause
  <2> QED
    BY <1>6, <1>7, <2>1 DEF Other
<1> QED
  BY <1>1, <1>2, <1>3, <1>4, <1>5, <1>7 DEF Next

LEMMA CauseFound == CauseInv => FailsForCause
<1> SUFFICES ASSUME CauseInv, NEW c \in Calls, Failed(c)
             PROVE  HasCause(c) \/ TwiceEncoded(c) \/ RuleTwiceEncoded(c) \/ QueryInPath(c)
  BY DEF FailsForCause
<1>1. Reason(c)
  BY DEF CauseInv, Founded
<1> QED
  BY <1>1 DEF Reason, HasCause

\* A call never fails by the way its requests were put together: whatever the
\* tree of folders, the rules, the batch and the size of the file, and however
\* the calls fall between each other, it fails for its arguments, for what it
\* found, for a failure it met or a change someone made meanwhile, or because its
\* name is encoded twice or its query is in the path (folder-utils.ts, upload-large.ts).
THEOREM FailuresHaveCauses == Spec => []FailsForCause
<1>1. AccessInv /\ TruthInv /\ [Next]_vars => TruthInv'
  BY NextTruth
<1>2. AccessInv /\ TruthInv /\ ListInv /\ [Next]_vars => ListInv'
  BY NextList
<1>3. AccessInv /\ TruthInv /\ RuleInv /\ [Next]_vars => RuleInv'
  BY NextRules
<1>4. AccessInv /\ TruthInv /\ ListInv /\ RuleInv /\ NamedInv /\ [Next]_vars => NamedInv'
  BY NextNamed
<1>5. AccessInv /\ TruthInv /\ ListInv /\ RuleInv /\ NamedInv /\ CauseInv /\ [Next]_vars => CauseInv'
  BY NextCause
<1> QED
  BY InitTruth, InitList, InitRules, InitNamed, InitCause, CauseFound, AccessInvariant,
     <1>1, <1>2, <1>3, <1>4, <1>5, PTL DEF Spec
=============================================================================
