\* One CVE found in a component that is present and in one that is not.
CONSTANTS
    Cves = {v1, v2}
    Purls = {u1, u2}
    NoPurl = NoPurl
    MaxMatches = 2
    Reports <- AllReports
    SbomLists <- AllSbomLists
    Directories <- AllDirectories
SPECIFICATION Spec
INVARIANT PresentNeverDismissed
CHECK_DEADLOCK FALSE
