SPECIFICATION ClientSpec
CONSTANTS
    Executions = {e1, e2}
    Callers = {c1, c2, c3}
    MaxVersion = 2
    MaxInvalidations = 1
    None = None
    Nothing = Nothing
    h1 = h1
    h2 = h2
    h3 = h3
    CodeCallers = {c1, c2, c3}
    Hashes <- MCHashes
    ByteLength <- MCByteLength
    MaxCacheBytes = 2
    NoDownload = NoDownload
    Executes = {c1, c2, c3}
    Modules = {e1, e2}
    MaxQueue = 1
    MaxCached = 1
    NoRun = NoRun
    Stored = Stored
SYMMETRY ClientSymmetry
INVARIANTS
    OneTerminalEvent InputsStayPrivate DiagnosticsAgree
    NothingSentAfterCancel CancelledRunWaitsForNobody
    EtagMatchesManifest InvalidateRefreshes RequestIsShared CodeCacheSound CacheSound
PROPERTIES NeverRegresses ImplementsContract
CHECK_DEADLOCK FALSE
