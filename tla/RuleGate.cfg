SPECIFICATION Spec
CONSTANTS
    short = short
    long = long
    other = other
    flagged = flagged
    LocalParts = {"ann", "bob"}
    LocalPatterns = {"*", "ann"}
    AnyLocal = "*"
    Fits <- MCFits
    Domains = {"example", "mail.example"}
    Under <- MCUnder
    Texts = {short, long, other}
    Within <- MCWithin
    OtherKeys = {"status", "category", "folder"}
    OtherValues = {flagged, "work", "home", "unknown", "Todo", "Done"}
    Filed = filed
    Folders = {"work", "home", "unknown", "archive"}
    AtThread = "@thread"
    NoThread = "no thread"
    Destinations = {"receipts", "bills"}
    Writings = {"in order", "reordered"}
    Notes <- MCNotes
    Messages <- MCMessages
INVARIANTS ReportedNeverFires NothingUnclassified ThreadTargetDefined ActionsResolve
CHECK_DEADLOCK FALSE
