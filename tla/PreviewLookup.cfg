SPECIFICATION Spec
CONSTANTS
    Calls = {1, 2, 3}
    Servers = {"a", "b"}
    Odd = {"odd"}
    FolderIds = {1, 2, 3, 4, 5, 6}
    Scenes <- Preview
    PageSize = 2
    MaxResults = 4
    DefaultList = 3
    DownloadLimit = 3
    ResponseLimit = 6
    ChunkSize = 2
INVARIANT EveryFailureHasACause
CHECK_DEADLOCK FALSE
