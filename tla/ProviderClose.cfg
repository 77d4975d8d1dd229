SPECIFICATION ProviderSpec
CONSTANTS
    Callers = {c1}
    Scoped = {s1}
    Closers = {k1}
    Replies <- MCReplies
    MaxCalls = 2
    MaxHistory = 1
    Nothing = Nothing
PROPERTIES CloseReleases
CHECK_DEADLOCK FALSE
