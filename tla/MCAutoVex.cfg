\* All reports of up to two matches over two CVEs and two purls.
CONSTANTS
    Cves = {v1, v2}
    Purls = {u1, u2}
    NoPurl = NoPurl
    MaxMatches = 2
    Reports <- AllReports
    SbomLists <- AllSbomLists
    Directories <- AllDirectories
SPECIFICATION Spec
INVARIANTS
    TypeOK
    DocumentIsReference
    FailsClosed
CHECK_DEADLOCK FALSE
