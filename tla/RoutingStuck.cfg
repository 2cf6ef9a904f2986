SPECIFICATION FairSpec
CONSTANTS
    Messages = {1, 2}
    Folders <- MCFolders
    Inbox = "Inbox"
    Bin = "Deleted Items"
    Gone = "gone"
    OtherLabels <- MCLabels
    None = "none"
    MaxFaults = 0
    Days <- StuckDay
    Runs = {"triage", "aged"}
    TopLevel = {"Inbox", "Deleted Items"}
    MaxActions = 1
    Scans = {"drift"}
    MaxEntries = 1
PROPERTY LoopEnds
