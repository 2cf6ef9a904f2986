--------------------------- MODULE MCToolServers ---------------------------
EXTENDS ToolServers

-----------------------------------------------------------------------------
\* What a client asks, and a scene, unless said otherwise

NamesFolder == {"m365_email_folder_create", "m365_email_folder_delete", "m365_email_folder_rename",
                "m365_email_messages_move"}

Ask(tool) == [tool |-> tool, server |-> "a", name |-> "item", dry_run |-> "absent", by |-> "id",
              folder |-> IF tool \in NamesFolder THEN <<"B">> ELSE <<>>, parent |-> <<>>, newName |-> "C", ids |-> <<"item", "odd">>,
              sequence |-> 0, complete |-> TRUE, count |-> 0, size |-> 3,
              search |-> Search([t \in {} |-> Blank], {})]

\* A holds B and, below it, C; there is another B at the top.
Tree == (1 :> [name |-> "A", parent |-> Root]) @@ (2 :> [name |-> "B", parent |-> 1])
        @@ (3 :> [name |-> "B", parent |-> Root]) @@ [f \in FolderIds |-> NoFolder]

Rule(name, n) == [id |-> name, name |-> name, sequence |-> n]
Mail(words) == [folder |-> Root, has |-> words]
Report == [kind |-> "fileAttachment", name |-> "report", size |-> 2, bytes |-> 2]

Log(mode, rotates, maxLines, keep) == [mode |-> mode, rotates |-> rotates, maxLines |-> maxLines, keep |-> keep]

Trouble == Answers \ {"ok"}

Scene(calls) == [asked |-> calls, access |-> [s \in Servers |-> "destructive"],
                 audit |-> Log("writes", FALSE, 0, 0), trouble |-> {}, logTrouble |-> FALSE,
                 tree |-> Tree, rules |-> <<Rule("first", 100), Rule("item", 110)>>,
                 items |-> {"item", "odd"}, box |-> <<Mail({}), Mail({}), Mail({})>>, file |-> Report,
                 others |-> 0, moves |-> {}, deletes |-> {}, boxes |-> {}, files |-> {}, deaths |-> FALSE]

-----------------------------------------------------------------------------
\* One call of any tool, with every failure; and under every access level

FolderAsks(tool) ==
    LET a == Ask(tool)
    IN  CASE tool = "m365_email_folder_create" ->
               {[a EXCEPT !.folder = <<"C">>, !.parent = p] : p \in {<<>>, <<"A">>, <<"A", "B">>, <<"D">>}}
               \cup {[a EXCEPT !.folder = <<"B">>]}
          [] tool \in {"m365_email_folder_delete", "m365_email_folder_rename", "m365_email_messages_move"} ->
               {[a EXCEPT !.folder = p, !.dry_run = d] :
                   p \in {<<>>, <<"B">>, <<"A", "B">>, <<"C">>}, d \in {"absent", "false"}}
          [] tool = "m365_email_rule_create" ->
               {[a EXCEPT !.sequence = n, !.folder = p, !.name = "new"] :
                   n \in {0, 7}, p \in {<<>>, <<"A", "B">>, <<"C">>}}
          [] tool = "m365_email_messages_list" -> {a, [a EXCEPT !.folder = <<"A", "B">>]}
          [] OTHER -> {}

ItemAsks(tool) ==
    LET a == [Ask(tool) EXCEPT !.sequence = 105]
    IN  {[a EXCEPT !.name = n, !.dry_run = d, !.by = b] :
            n \in {"item", "odd", "gone"},
            d \in IF ToolOf(tool).dryRun THEN {"absent", "true", "false"} ELSE {"absent"},
            b \in IF tool = "m365_onedrive_item_share" THEN {"id", "path"} ELSE {"id"}}

AsksOf(tool) ==
    {[Ask(tool) EXCEPT !.complete = FALSE]}
    \cup (IF FolderAsks(tool) = {} THEN ItemAsks(tool) ELSE FolderAsks(tool))

OneCall ==
    {[Scene(1 :> a) EXCEPT !.trouble = Trouble] :
        a \in UNION {AsksOf(t) : t \in ToolNames}}
    \cup {[Scene(1 :> Ask(t)) EXCEPT !.access["a"] = l, !.audit.mode = "all", !.deaths = TRUE] :
        t \in ToolNames, l \in {"read", "write"}}

-----------------------------------------------------------------------------
\* Folders and rules in motion: two calls, of two servers, and the owner

Rename(p, n) == [Ask("m365_email_folder_rename") EXCEPT !.folder = p, !.newName = n]
Delete(p)    == [Ask("m365_email_folder_delete") EXCEPT !.folder = p, !.dry_run = "false"]
Create(n, p) == [Ask("m365_email_folder_create") EXCEPT !.folder = <<n>>, !.parent = p]
MoveTo(p)    == [Ask("m365_email_messages_move") EXCEPT !.folder = p, !.ids = <<"item">>]
Filing(n, p) == [Ask("m365_email_rule_create") EXCEPT !.name = n, !.folder = p]
Reordering(n, k) == [Ask("m365_email_rules_reorder") EXCEPT !.name = n, !.sequence = k]

On(s, a) == [a EXCEPT !.server = s]
Two(a, b) == Scene((1 :> a) @@ (2 :> On("b", b)))

\* The only B is inside A: a path of one segment does not name it.
Nested ==
    {[Scene(1 :> a) EXCEPT !.tree[3] = NoFolder] :
        a \in {Rename(<<"B">>, "C"), Delete(<<"B">>), MoveTo(<<"B">>), Filing("new", <<"B">>), Create("B", <<>>)}}

\* The owner renames A, moves B out of it or into it, and deletes.
OwnerAtWork(sc, n) ==
    [sc EXCEPT !.others = n, !.deletes = {2},
               !.moves = {<<1, "D", Root>>, <<2, "C", Root>>, <<3, "C", 1>>, <<4, "B", 3>>}]

Moving ==
    {OwnerAtWork(Scene(1 :> a), 2) :
        a \in {Rename(<<"A", "B">>, "C"), Delete(<<"A", "B">>), Create("C", <<"A", "B">>),
               MoveTo(<<"A", "B">>), Filing("new", <<"A", "B">>)}}
    \cup {[OwnerAtWork(Scene(1 :> [Ask("m365_email_messages_list") EXCEPT !.folder = <<"A", "B">>]), 1)
            EXCEPT !.trouble = {"lost"}]}

Pairs ==
    {Two(p[1], p[2]) :
        p \in {<<Create("C", <<>>), Create("C", <<>>)>>,
               <<Rename(<<"A", "B">>, "C"), Delete(<<"A">>)>>,
               <<Filing("one", <<>>), Filing("two", <<>>)>>,
               <<Filing("one", <<>>), Reordering("item", 120)>>,
               <<MoveTo(<<"A", "B">>), Rename(<<"A">>, "D")>>}}

\* Three at the same rules.
Crowd ==
    {Scene((1 :> Filing("one", <<>>)) @@ (2 :> On("b", Filing("two", <<>>))) @@ (3 :> On("b", a))) :
        a \in {Filing("three", <<>>), Reordering("item", 120)}}

-----------------------------------------------------------------------------
\* Reads of several requests

Listing(n) == [Ask("m365_email_messages_list") EXCEPT !.count = n]
Searching(text, filters, n) ==
    [Ask("m365_email_messages_search") EXCEPT !.search = Search(text, filters), !.count = n]

Mixed == <<Mail({"x", "f"}), Mail({"hasAttachments", "x"}), Mail({"y"}), Mail({"x", "f", "hasAttachments"}),
           Mail({"y", "f", "hasAttachments"})>>

Searches ==
    {Searching(t, fs, n) :
        t \in {[k \in {} |-> Blank], ("from" :> Words({"f"})), ("query" :> Words({"x", "y"})),
               ("query" :> Words({"x", "y"})) @@ ("from" :> Words({"f"})),
               ("subject" :> Hollow), ("subject" :> Hollow) @@ ("from" :> Words({"f"}))},
        fs \in {{}, {"hasAttachments"}}, n \in {1, 2, 4}}

Reads ==
    {[Scene(1 :> a) EXCEPT !.box = Mixed, !.trouble = {"garbled", "cut"}, !.others = 1,
                           !.boxes = {Tail(Mixed), <<Mail({"f"})>> \o Mixed}] :
        a \in Searches \cup {Listing(n) : n \in 0 .. 5}}

Files == {Report, [Report EXCEPT !.name = "other"], [Report EXCEPT !.size = 9, !.bytes = 9],
          [Report EXCEPT !.size = 3], [Report EXCEPT !.bytes = 3], [Report EXCEPT !.kind = "itemAttachment"]}

Downloads ==
    {[Scene(1 :> Ask("m365_email_attachment_get")) EXCEPT !.file = f, !.files = Files, !.others = 2] : f \in Files}

Uploading ==
    {[Scene(1 :> [Ask("m365_onedrive_item_upload_large") EXCEPT !.size = n, !.name = x])
        EXCEPT !.trouble = t, !.deaths = TRUE] :
        n \in 1 .. 5, x \in {"item", "odd", "new"}, t \in {{}, Trouble}}

-----------------------------------------------------------------------------
\* Two servers and their log

Accepting(s) == On(s, Ask("m365_calendar_event_accept"))

Three(s) == Scene((1 :> Accepting("a")) @@ (2 :> Accepting("a")) @@ (3 :> Accepting(s)))

\* Every configuration without failures; with them, one server and keep 2, or
\* two servers and a limit of one line.
Logging ==
    {[Three(s) EXCEPT !.audit = l] :
        s \in Servers,
        l \in {Log("writes", TRUE, m, k) : m \in 0 .. 1, k \in 0 .. 2} \cup {Log("off", FALSE, 0, 0)}}
    \cup {[Three("a") EXCEPT !.audit = Log("writes", TRUE, 0, 2), !.logTrouble = TRUE, !.trouble = {"refused"}],
          [Three("b") EXCEPT !.audit = Log("writes", TRUE, 1, 1), !.deaths = TRUE]}

\* The preview of a delete, and nothing else.
Preview == {Scene(1 :> Ask("m365_email_message_delete"))}

MCScenes == OneCall \cup Nested \cup Moving \cup Pairs \cup Crowd \cup Reads \cup Downloads \cup Uploading \cup Logging
=============================================================================
