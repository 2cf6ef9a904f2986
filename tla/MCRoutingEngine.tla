-------------------------- MODULE MCRoutingEngine --------------------------
EXTENDS RoutingEngine, TLC

Save == [do |-> "save", to |-> ""]
Mark == [do |-> "mark", to |-> ""]
Delete == [do |-> "delete", to |-> ""]
Move(f) == [do |-> "move", to |-> f]

MCFolders == {"Inbox", "Partner", "Finance", "Deleted Items"}
MCLabels == {"(deleted)", "save-attachments", "(no move)"}

\* One triage caller, or a triage and an aged one.
TriageOnly == "triage" :> <<"Inbox">>
TriageAndAged == TriageOnly @@ ("aged" :> <<"Finance", "Partner">>)

NoRule == [f \in MCFolders |-> <<>>]

\* Receipts are saved and deleted; other mail is filed and marked read.
Receipts == [m \in Messages |->
    IF m = 1 THEN [NoRule EXCEPT !["Inbox"] = <<Save, Delete>>]
             ELSE [NoRule EXCEPT !["Inbox"] = <<Move("Partner"), Mark>>]]

\* Two stages, and every move the last action of its rule.
MoveLast == [m \in Messages |->
    IF m = 1 THEN [NoRule EXCEPT !["Inbox"] = <<Save, Mark, Move("Finance")>>,
                                 !["Finance"] = <<Save, Move("Partner")>>]
             ELSE [NoRule EXCEPT !["Inbox"] = <<Mark, Move("Finance")>>,
                                 !["Finance"] = <<Move("Partner")>>]]

\* A receipt that is saved and filed in a folder outside the triage tree.
FiledOutside == [m \in Messages |-> [NoRule EXCEPT !["Inbox"] = <<Save, Move("Deleted Items")>>]]

\* A rule whose folder was renamed.
NoSuchFolder == [m \in Messages |-> [NoRule EXCEPT !["Inbox"] = <<Move("Renamed")>>]]

Day(scanned, rules) ==
    [scanned |-> scanned, rules |-> rules, faults |-> {"refused"}, ownerMoves |-> 0, overlap |-> FALSE]

\* Calls that overlap, with every fault, or with rules that file outside the
\* triage tree; calls that do not, of both passes, or of one while the owner
\* moves more.
MCDays ==
    {[Day(TriageOnly, Receipts) EXCEPT !.faults = FaultKinds, !.ownerMoves = 1, !.overlap = TRUE],
     [Day(TriageOnly, FiledOutside) EXCEPT !.overlap = TRUE],
     [Day(TriageAndAged, MoveLast) EXCEPT !.ownerMoves = 1],
     [Day(TriageOnly, MoveLast) EXCEPT !.ownerMoves = 2]}

LookupDay == {[Day(TriageOnly, MoveLast) EXCEPT !.faults = {"lookup"}]}
StuckDay  == {Day(TriageOnly, NoSuchFolder)}
=============================================================================
