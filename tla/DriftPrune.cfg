SPECIFICATION Spec
CONSTANTS
    Messages = {1, 2}
    Folders <- MCFolders
    Inbox = "Inbox"
    Bin = "Deleted Items"
    Gone = "gone"
    OtherLabels <- MCLabels
    None = "none"
    MaxFaults = 1
    Days <- LookupDay
    Runs = {"triage", "aged"}
    TopLevel = {"Inbox", "Deleted Items"}
    MaxActions = 1
    Scans = {"drift"}
    MaxEntries = 1
PROPERTIES HistoryIsKept
