----------------------------- MODULE MCAutoVex ------------------------------
(***************************************************************************)
(* Inputs of AutoVex for TLC: every report of up to MaxMatches matches,    *)
(* every list of one or two SBOMs, and directories of up to two files that *)
(* cover each kind of entry.                                               *)
(***************************************************************************)
EXTENDS AutoVex

CONSTANT MaxMatches   \* longest report

UpTo(S, lo, hi) == UNION {[1..k -> S] : k \in lo..hi}

AllReports == UpTo(Matches, 0, MaxMatches)

Unreadable == [readable |-> FALSE, components |-> {}]

AllSbomLists ==
    UpTo({s \in Sboms : s.readable} \cup {Unreadable}, 1, 2)

File(considered, readable, names) ==
    [considered |-> considered, readable |-> readable, names |-> names]

AllDirectories ==
    {{}} \cup
    {{File(TRUE, TRUE, a), File(considered, readable, b)} :
        a \in SUBSET Cves, b \in {{}, Cves},
        considered \in BOOLEAN, readable \in BOOLEAN}
=============================================================================
