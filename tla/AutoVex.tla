------------------------------ MODULE AutoVex -------------------------------
(***************************************************************************)
(* The CI tool auto-vex-presence (src/crates/sceau-vex): from a Grype      *)
(* report, the release SBOMs and the hand-authored VEX statements it       *)
(* derives `not_affected / component_not_present` statements.              *)
(*                                                                         *)
(* One action per loop iteration of the code: an SBOM loaded, a file of    *)
(* the VEX directory read (in whatever order the directory lists them), a  *)
(* match examined.  Any error ends the run without a document.             *)
(***************************************************************************)
EXTENDS Integers, Sequences, FiniteSets

CONSTANTS
    Cves,        \* vulnerability identifiers
    Purls,       \* package URLs
    NoPurl,      \* an artifact or component without one (or an empty one)
    Reports,     \* Grype reports: sequences of matches
    SbomLists,   \* --sbom arguments: sequences of SBOM files
    Directories  \* --vex-dir contents: sets of files

Matches == [cve : Cves, purl : Purls \cup {NoPurl}]

\* An SBOM file that cannot be read, is over the size cap or does not parse is
\* unreadable; a component may lack a purl.
Sboms == [readable : BOOLEAN, components : SUBSET (Purls \cup {NoPurl})]

\* `considered` files have the extension json and no leading dot.
VexFiles == [considered : BOOLEAN, readable : BOOLEAN, names : SUBSET Cves]

ASSUME VexAssumption ==
    /\ NoPurl \notin Purls
    /\ Reports \subseteq Seq(Matches)
    /\ SbomLists \subseteq Seq(Sboms)
    /\ Directories \subseteq SUBSET VexFiles

VARIABLES
    report, sboms, files,   \* the inputs; they do not change
    phase,       \* of run()
    next,        \* index of the next SBOM, then of the next match
    unread,      \* files of the directory not yet visited
    purls,       \* sbom_purls
    triaged,     \* CVEs with a hand-authored statement
    emitted,     \* CVEs with a derived statement
    document     \* the CVEs of the written document, or {} before

inputs == <<report, sboms, files>>
vars == <<inputs, phase, next, unread, purls, triaged, emitted, document>>

Init ==
    /\ report \in Reports
    /\ sboms \in SbomLists
    /\ files \in Directories
    /\ phase = "grype"
    /\ next = 1
    /\ unread = files
    /\ purls = {}
    /\ triaged = {}
    /\ emitted = {}
    /\ document = {}

\* `?` anywhere in run(): exit code 1.
Abort ==
    /\ phase' = "failed"
    /\ UNCHANGED <<inputs, next, unread, purls, triaged, emitted, document>>

ReadGrype ==
    /\ phase = "grype"
    /\ phase' = "sboms"
    /\ UNCHANGED <<inputs, next, unread, purls, triaged, emitted, document>>

\* The report is missing, too large or malformed.
GrypeUnreadable == phase = "grype" /\ Abort

-----------------------------------------------------------------------------
(* load_sbom_from_path, and sbom_purls of compute_presence_vex *)

\* Variant of Usable without the zero-component guard.
Parses(sbom) == sbom.readable

Usable(sbom) == sbom.readable /\ sbom.components # {}

\* Variant of LoadSbom that lets a component without a purl through.
LoadSbomRaw ==
    /\ phase = "sboms"
    /\ next =< Len(sboms)
    /\ Usable(sboms[next])
    /\ purls' = purls \cup sboms[next].components
    /\ next' = next + 1
    /\ UNCHANGED <<inputs, phase, unread, triaged, emitted, document>>

LoadSbom ==
    /\ phase = "sboms"
    /\ next =< Len(sboms)
    /\ Usable(sboms[next])
    /\ purls' = purls \cup (sboms[next].components \ {NoPurl})
    /\ next' = next + 1
    /\ UNCHANGED <<inputs, phase, unread, triaged, emitted, document>>

RefuseSbom ==
    /\ phase = "sboms"
    /\ next =< Len(sboms)
    /\ ~Usable(sboms[next])
    /\ Abort

SbomsLoaded ==
    /\ phase = "sboms"
    /\ next > Len(sboms)
    /\ phase' = "triage"
    /\ UNCHANGED <<inputs, next, unread, purls, triaged, emitted, document>>

-----------------------------------------------------------------------------
(* load_triaged_from_vex_dir; a missing directory is an empty one *)

\* read_dir fails otherwise, or an entry of it, however many came before.
DirectoryUnreadable == phase = "triage" /\ Abort

SkipFile(f) ==
    /\ phase = "triage"
    /\ f \in unread
    /\ ~f.considered
    /\ unread' = unread \ {f}
    /\ UNCHANGED <<inputs, phase, next, purls, triaged, emitted, document>>

LoadFile(f) ==
    /\ phase = "triage"
    /\ f \in unread
    /\ f.considered /\ f.readable
    /\ unread' = unread \ {f}
    /\ triaged' = triaged \cup f.names
    /\ UNCHANGED <<inputs, phase, next, purls, emitted, document>>

\* A malformed file is an error, not an absence of statements.
RefuseFile(f) ==
    /\ phase = "triage"
    /\ f \in unread
    /\ f.considered /\ ~f.readable
    /\ Abort

DirectoryRead ==
    /\ phase = "triage"
    /\ unread = {}
    /\ phase' = "matches"
    /\ next' = 1
    /\ UNCHANGED <<inputs, unread, purls, triaged, emitted, document>>

\* now_rfc3339 comes after all inputs were read.
NoTimestamp ==
    /\ phase = "triage"
    /\ unread = {}
    /\ Abort

-----------------------------------------------------------------------------
(* compute_presence_vex: the loop over the matches *)

\* Not triaged, with a purl, and that purl in no SBOM.
Dismissed(m) ==
    m.cve \notin triaged /\ m.purl # NoPurl /\ m.purl \notin purls

\* Variant of ExamineMatch: the last match of a CVE decides.
ExamineMatchLast ==
    /\ phase = "matches"
    /\ next =< Len(report)
    /\ LET m == report[next] IN
         emitted' = IF Dismissed(m) THEN emitted \cup {m.cve}
                                    ELSE emitted \ {m.cve}
    /\ next' = next + 1
    /\ UNCHANGED <<inputs, phase, unread, purls, triaged, document>>

\* One iteration; a CVE that already has a statement is skipped first.
ExamineMatch ==
    /\ phase = "matches"
    /\ next =< Len(report)
    /\ LET m == report[next] IN
         emitted' = IF m.cve \notin emitted /\ Dismissed(m)
                      THEN emitted \cup {m.cve} ELSE emitted
    /\ next' = next + 1
    /\ UNCHANGED <<inputs, phase, unread, purls, triaged, document>>

\* build_document and the write.
Write ==
    /\ phase = "matches"
    /\ next > Len(report)
    /\ document' = emitted
    /\ phase' = "done"
    /\ UNCHANGED <<inputs, next, unread, purls, triaged, emitted>>

WriteFails ==
    /\ phase = "matches"
    /\ next > Len(report)
    /\ Abort

Next ==
    \/ ReadGrype \/ GrypeUnreadable
    \/ LoadSbom \/ RefuseSbom \/ SbomsLoaded
    \/ \E f \in unread : SkipFile(f) \/ LoadFile(f) \/ RefuseFile(f)
    \/ DirectoryUnreadable \/ DirectoryRead \/ NoTimestamp
    \/ ExamineMatch \/ Write \/ WriteFails

Spec == Init /\ [][Next]_vars

-----------------------------------------------------------------------------
(* Properties *)

\* Every variable has its type.
TypeOK ==
    /\ report \in Seq(Matches) /\ sboms \in Seq(Sboms)
    /\ files \in SUBSET VexFiles
    /\ phase \in {"grype", "sboms", "triage", "matches", "done", "failed"}
    /\ next \in Nat \ {0}
    /\ unread \in SUBSET files
    /\ purls \in SUBSET Purls
    /\ triaged \in SUBSET Cves
    /\ emitted \in SUBSET Cves
    /\ document \in SUBSET Cves

\* Reference definitions, over the whole inputs at once.
AllPurls == UNION {sboms[k].components : k \in 1..Len(sboms)}
HandTriaged == UNION {f.names : f \in {g \in files : g.considered}}
Finding(m) == m.purl # NoPurl /\ m.purl \notin AllPurls

(***************************************************************************)
(* The document is a function of the inputs, not of the order in which     *)
(* matches, SBOMs or directory entries are met: exactly the untriaged CVEs *)
(* with a match whose purl is in no SBOM (auto_vex_presence.rs:177-184).   *)
(***************************************************************************)
DocumentIsReference ==
    phase = "done" =>
        document = {c \in Cves \ HandTriaged :
                       \E j \in 1..Len(report) :
                          report[j].cve = c /\ Finding(report[j])}

(***************************************************************************)
(* Fail closed: a document is only written after every SBOM contributed    *)
(* its components and every hand-authored file was understood, however     *)
(* late in the run the bad input turns up, and it never overrides a hand-  *)
(* authored statement (SEC-014, auto_vex_presence.rs:150-154, 250-255).    *)
(***************************************************************************)
FailsClosed ==
    /\ phase # "done" => document = {}
    /\ phase = "done" =>
          /\ \A k \in 1..Len(sboms) : sboms[k].readable /\ sboms[k].components # {}
          /\ \A f \in files : f.considered => f.readable
          /\ document \cap HandTriaged = {}

(***************************************************************************)
(* src/crates/sceau-vex/src/bin/auto_vex_presence.rs:50-51: "A purl        *)
(* present in ANY SBOM counts as "component present" and excludes the      *)
(* finding"; each statement says "the vulnerable component's package URL   *)
(* is not present in any release SBOM" (auto_vex_presence.rs:80-83).       *)
(***************************************************************************)
PresentNeverDismissed ==
    \A j \in 1..Len(report) :
       (report[j].purl \in AllPurls \ {NoPurl}) => report[j].cve \notin document
=============================================================================
