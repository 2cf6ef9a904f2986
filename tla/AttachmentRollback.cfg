SPECIFICATION Spec
CONSTANTS
    Savers = {s1, s2}
    Messages = {"pair", "mixed", "bare", "stray"}
    Attachments <- MCAttachments
    Destination <- MCDestination
    Names = {"no-amount", "invoice"}
    MaxSuffix = 4
    None = None
    MaxFaults = 1
INVARIANT RolledBack
