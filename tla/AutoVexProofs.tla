--------------------------- MODULE AutoVexProofs ----------------------------
(***************************************************************************)
(* Proofs about AutoVex, for all reports, SBOMs and directories: each loop *)
(* of the tool has accumulated exactly what the reference definition says  *)
(* about the inputs consumed so far, so that the document at the end is    *)
(* the reference over all of them.                                         *)
(***************************************************************************)
EXTENDS AutoVex, TLAPS

\* Inputs consumed by each loop, whatever phase the run is in.
SbomsDone == IF phase \in {"grype", "sboms"} THEN next - 1 ELSE Len(sboms)
FilesDone == files \ unread
MatchesDone == next - 1

Running == {"grype", "sboms", "triage", "matches", "done"}

-----------------------------------------------------------------------------
(* The inductive invariant *)

\* The indices stay within the inputs, and what a later loop fills is empty.
LoopShape ==
    /\ phase = "grype" => next = 1
    /\ phase = "sboms" => next =< Len(sboms) + 1
    /\ phase \in {"grype", "sboms"} => unread = files
    /\ phase \in {"matches", "done"} => unread = {} /\ next =< Len(report) + 1
    /\ phase = "done" => next = Len(report) + 1 /\ document = emitted
    /\ phase \in {"grype", "sboms", "triage"} => emitted = {}
    /\ phase # "done" => document = {}

\* The SBOMs loaded so far were usable, and purls are theirs.
PurlsSoFar ==
    phase \in Running =>
       /\ \A k \in 1..SbomsDone : Usable(sboms[k])
       /\ \A p : p \in purls <=>
             /\ p # NoPurl
             /\ \E k \in 1..SbomsDone : p \in sboms[k].components

\* The files visited so far were understood, and triaged are their CVEs.
TriagedSoFar ==
    phase \in Running =>
       /\ \A f \in FilesDone : f.considered => f.readable
       /\ \A c : c \in triaged <=>
             \E f \in FilesDone : f.considered /\ c \in f.names

\* A CVE has a statement when a match seen so far dismisses it.
EmittedSoFar ==
    phase \in {"matches", "done"} =>
       \A c : c \in emitted <=>
          \E j \in 1..MatchesDone : report[j].cve = c /\ Dismissed(report[j])

VexInv == TypeOK /\ LoopShape /\ PurlsSoFar /\ TriagedSoFar /\ EmittedSoFar

-----------------------------------------------------------------------------
(* Types *)

\* What indexing the inputs yields.
LEMMA InputTypes ==
    ASSUME TypeOK
    PROVE  /\ Len(sboms) \in Nat /\ Len(report) \in Nat
           /\ \A k \in 1..Len(sboms) : sboms[k] \in Sboms
           /\ \A j \in 1..Len(report) : report[j] \in Matches
           /\ \A f \in files : f \in VexFiles
  BY DEF TypeOK

\* A run that gives up changes nothing but its phase.
LEMMA AbortStep ==
    ASSUME VexInv, phase # "done", Abort
    PROVE  VexInv'
  BY DEF VexInv, Abort, inputs, TypeOK, LoopShape, PurlsSoFar, TriagedSoFar,
         EmittedSoFar, Running

\* Every step keeps the types.
LEMMA TypeStep == TypeOK /\ [Next]_vars => TypeOK'
<1> SUFFICES ASSUME TypeOK, [Next]_vars PROVE TypeOK'
  OBVIOUS
<1> USE DEF TypeOK, inputs
<1>1. CASE UNCHANGED vars
  BY <1>1 DEF vars
<1>2. CASE Abort
  BY <1>2 DEF Abort
<1>3. CASE ReadGrype \/ SbomsLoaded
  BY <1>3 DEF ReadGrype, SbomsLoaded
<1>4. CASE LoadSbom
  <2>1. sboms[next] \in Sboms
    BY <1>4, InputTypes DEF LoadSbom
  <2>2. sboms[next].components \ {NoPurl} \subseteq Purls
    BY <2>1 DEF Sboms
  <2> QED BY <1>4, <2>2 DEF LoadSbom
<1>5. ASSUME NEW f \in unread, SkipFile(f) \/ LoadFile(f)
      PROVE  TypeOK'
  <2>1. f.names \subseteq Cves
    BY InputTypes DEF VexFiles
  <2> QED BY <1>5, <2>1 DEF SkipFile, LoadFile
<1>6. CASE DirectoryRead \/ Write
  BY <1>6 DEF DirectoryRead, Write
<1>7. CASE ExamineMatch
  <2>1. report[next].cve \in Cves
    BY <1>7, InputTypes DEF ExamineMatch, Matches
  <2> QED BY <1>7, <2>1 DEF ExamineMatch
<1> QED
  BY <1>1, <1>2, <1>3, <1>4, <1>5, <1>6, <1>7
     DEF Next, GrypeUnreadable, RefuseSbom, RefuseFile, DirectoryUnreadable,
         NoTimestamp, WriteFails

\* The tool's variables keep their types.
THEOREM VexTypeCorrect == Spec => []TypeOK
<1>1. Init => TypeOK
  BY VexAssumption DEF Init, TypeOK
<1> QED BY <1>1, TypeStep, PTL DEF Spec

-----------------------------------------------------------------------------
(* The loops *)

\* Before anything is read nothing has been accumulated.
LEMMA VexInit == Init => VexInv
<1> SUFFICES ASSUME Init PROVE VexInv
  OBVIOUS
<1>1. TypeOK
  BY VexAssumption DEF Init, TypeOK
<1>2. LoopShape /\ EmittedSoFar
  BY DEF Init, LoopShape, EmittedSoFar
<1>3. PurlsSoFar
  BY DEF Init, PurlsSoFar, SbomsDone
<1>4. TriagedSoFar
  BY DEF Init, TriagedSoFar, FilesDone
<1> QED BY <1>1, <1>2, <1>3, <1>4 DEF VexInv

\* One more SBOM: purls grow by its components that have a package URL.
LEMMA LoadSbomStep ==
    ASSUME VexInv, LoadSbom
    PROVE  LoopShape' /\ PurlsSoFar' /\ TriagedSoFar' /\ EmittedSoFar'
<1>1. TypeOK /\ Len(sboms) \in Nat /\ next \in Nat \ {0}
  BY InputTypes DEF VexInv, TypeOK
<1>2. /\ phase = "sboms" /\ phase' = "sboms" /\ next' = next + 1
      /\ next =< Len(sboms) /\ UNCHANGED inputs /\ unread' = unread
      /\ Usable(sboms[next])
      /\ purls' = purls \cup (sboms[next].components \ {NoPurl})
      /\ UNCHANGED <<triaged, emitted, document>>
  BY DEF LoadSbom
<1>3. LoopShape' /\ EmittedSoFar'
  BY <1>1, <1>2 DEF VexInv, LoopShape, EmittedSoFar, inputs
<1>4. TriagedSoFar'
  BY <1>2 DEF VexInv, TriagedSoFar, FilesDone, Running, inputs
<1>5. SbomsDone = next - 1 /\ SbomsDone' = next
  BY <1>1, <1>2 DEF SbomsDone
<1>6. \A k : k \in 1..SbomsDone' <=> k \in 1..SbomsDone \/ k = next
  BY <1>1, <1>5
<1>7. /\ \A k \in 1..SbomsDone : Usable(sboms[k])
      /\ \A p : p \in purls <=>
            /\ p # NoPurl
            /\ \E k \in 1..SbomsDone : p \in sboms[k].components
  BY <1>2 DEF VexInv, PurlsSoFar, Running
<1>8. \A k \in 1..SbomsDone' : Usable(sboms[k])
  BY <1>2, <1>6, <1>7
<1>9. \A p : p \in purls' <=>
            /\ p # NoPurl
            /\ \E k \in 1..SbomsDone' : p \in sboms[k].components
  BY <1>2, <1>6, <1>7
<1>10. PurlsSoFar'
  BY <1>2, <1>8, <1>9 DEF PurlsSoFar, Usable, inputs
<1> QED BY <1>3, <1>4, <1>10

\* One more file: its CVEs are triaged if it counts.
LEMMA FileStep ==
    ASSUME VexInv, NEW f \in unread, SkipFile(f) \/ LoadFile(f)
    PROVE  LoopShape' /\ PurlsSoFar' /\ TriagedSoFar' /\ EmittedSoFar'
<1>1. /\ phase = "triage" /\ phase' = "triage" /\ next' = next
      /\ UNCHANGED inputs /\ unread' = unread \ {f}
      /\ UNCHANGED <<purls, emitted, document>>
  BY DEF SkipFile, LoadFile
<1>2. f \in files /\ \A g : g \in FilesDone' <=> g \in FilesDone \/ g = f
  BY <1>1 DEF FilesDone, VexInv, TypeOK, inputs
<1>3. LoopShape' /\ EmittedSoFar'
  BY <1>1 DEF VexInv, LoopShape, EmittedSoFar, inputs
<1>4. PurlsSoFar'
  BY <1>1 DEF VexInv, PurlsSoFar, SbomsDone, Running, inputs, Usable
<1>5. /\ \A g \in FilesDone : g.considered => g.readable
      /\ \A c : c \in triaged <=>
            \E g \in FilesDone : g.considered /\ c \in g.names
  BY <1>1 DEF VexInv, TriagedSoFar, Running
<1>6. \A c : c \in triaged' <=> c \in triaged \/ (f.considered /\ c \in f.names)
  BY DEF SkipFile, LoadFile
<1>7. f.considered => f.readable
  BY DEF SkipFile, LoadFile
<1>8. TriagedSoFar'
  BY <1>1, <1>2, <1>5, <1>6, <1>7 DEF TriagedSoFar
<1> QED BY <1>3, <1>4, <1>8

\* One more match: purls and triaged are complete, so whether it dismisses
\* its CVE no longer changes.
LEMMA ExamineStep ==
    ASSUME VexInv, ExamineMatch
    PROVE  LoopShape' /\ PurlsSoFar' /\ TriagedSoFar' /\ EmittedSoFar'
<1>1. TypeOK /\ Len(report) \in Nat /\ next \in Nat \ {0}
  BY InputTypes DEF VexInv, TypeOK
<1>2. /\ phase = "matches" /\ phase' = "matches" /\ next' = next + 1
      /\ next =< Len(report) /\ UNCHANGED inputs
      /\ UNCHANGED <<unread, purls, triaged, document>>
  BY DEF ExamineMatch
<1>3. LoopShape'
  BY <1>1, <1>2 DEF VexInv, LoopShape, inputs
<1>4. PurlsSoFar'
  BY <1>2 DEF VexInv, PurlsSoFar, SbomsDone, Running, inputs, Usable
<1>5. TriagedSoFar'
  BY <1>2 DEF VexInv, TriagedSoFar, FilesDone, Running, inputs
<1>6. \A j : j \in 1..MatchesDone' <=> j \in 1..MatchesDone \/ j = next
  BY <1>1, <1>2 DEF MatchesDone
<1>7. \A c : c \in emitted <=>
         \E j \in 1..MatchesDone : report[j].cve = c /\ Dismissed(report[j])
  BY <1>2 DEF VexInv, EmittedSoFar
<1>8. \A c : c \in emitted' <=>
         c \in emitted \/ (report[next].cve = c /\ Dismissed(report[next]))
  BY DEF ExamineMatch
<1>9. \A c : c \in emitted' <=>
         \E j \in 1..MatchesDone' : report[j].cve = c /\ Dismissed(report[j])
  BY <1>6, <1>7, <1>8
<1>10. EmittedSoFar'
  BY <1>2, <1>9 DEF EmittedSoFar, Dismissed, inputs
<1> QED BY <1>3, <1>4, <1>5, <1>10

\* From one loop to the next: the finished one has consumed everything.
LEMMA PhaseStep ==
    ASSUME VexInv, ReadGrype \/ SbomsLoaded \/ DirectoryRead \/ Write
    PROVE  LoopShape' /\ PurlsSoFar' /\ TriagedSoFar' /\ EmittedSoFar'
<1>1. TypeOK /\ Len(sboms) \in Nat /\ Len(report) \in Nat /\ next \in Nat \ {0}
  BY InputTypes DEF VexInv, TypeOK
<1>2. /\ UNCHANGED inputs /\ UNCHANGED <<unread, purls, triaged, emitted>>
      /\ phase \in Running /\ phase' \in Running
  BY DEF ReadGrype, SbomsLoaded, DirectoryRead, Write, Running
<1>3. LoopShape'
  BY <1>1 DEF VexInv, LoopShape, inputs, ReadGrype, SbomsLoaded,
              DirectoryRead, Write
<1>4. SbomsDone' = SbomsDone
  BY <1>1 DEF VexInv, LoopShape, inputs, SbomsDone, ReadGrype, SbomsLoaded,
              DirectoryRead, Write
<1>5. PurlsSoFar'
  BY <1>2, <1>4 DEF VexInv, PurlsSoFar, inputs, Usable
<1>6. TriagedSoFar'
  BY <1>2 DEF VexInv, TriagedSoFar, FilesDone, inputs
<1>7. CASE ReadGrype \/ SbomsLoaded
  BY <1>3, <1>5, <1>6, <1>7 DEF EmittedSoFar, ReadGrype, SbomsLoaded
<1>8. CASE DirectoryRead
  <2>1. emitted' = {} /\ MatchesDone' = 0
    BY <1>8 DEF DirectoryRead, VexInv, LoopShape, MatchesDone
  <2> QED BY <1>3, <1>5, <1>6, <2>1 DEF EmittedSoFar
<1>9. CASE Write
  BY <1>2, <1>3, <1>5, <1>6, <1>9
     DEF Write, VexInv, EmittedSoFar, MatchesDone, Dismissed, inputs
<1> QED BY <1>7, <1>8, <1>9

\* Every step keeps the loops' invariant.
LEMMA VexInvStep == VexInv /\ [Next]_vars => VexInv'
<1> SUFFICES ASSUME VexInv, [Next]_vars PROVE VexInv'
  OBVIOUS
<1>1. TypeOK'
  BY TypeStep DEF VexInv
<1>2. CASE UNCHANGED vars
  BY <1>2 DEF VexInv, vars, inputs, TypeOK, LoopShape, PurlsSoFar,
              TriagedSoFar, EmittedSoFar, SbomsDone, FilesDone, MatchesDone,
              Dismissed, Usable
<1>3. CASE phase # "done" /\ Abort
  BY <1>3, AbortStep
<1>4. CASE LoadSbom
  BY <1>1, <1>4, LoadSbomStep DEF VexInv
<1>5. ASSUME NEW f \in unread, SkipFile(f) \/ LoadFile(f)
      PROVE  VexInv'
  BY <1>1, <1>5, FileStep DEF VexInv
<1>6. CASE ExamineMatch
  BY <1>1, <1>6, ExamineStep DEF VexInv
<1>7. CASE ReadGrype \/ SbomsLoaded \/ DirectoryRead \/ Write
  BY <1>1, <1>7, PhaseStep DEF VexInv
<1> QED
  BY <1>2, <1>3, <1>4, <1>5, <1>6, <1>7
     DEF Next, GrypeUnreadable, RefuseSbom, RefuseFile, DirectoryUnreadable,
         NoTimestamp, WriteFails

\* Each loop has accumulated what the inputs consumed so far call for.
THEOREM VexInvariant == Spec => []VexInv
  BY VexInit, VexInvStep, PTL DEF Spec

-----------------------------------------------------------------------------
(* The document *)

\* At the end the accumulators are the reference sets.
LEMMA Complete ==
    ASSUME VexInv, phase = "done"
    PROVE  /\ \A p : p \in purls <=> p \in AllPurls /\ p # NoPurl
           /\ triaged = HandTriaged
           /\ \A k \in 1..Len(sboms) : Usable(sboms[k])
           /\ \A f \in files : f.considered => f.readable
<1>1. SbomsDone = Len(sboms) /\ FilesDone = files
  BY DEF SbomsDone, FilesDone, VexInv, LoopShape
<1>2. PurlsSoFar /\ TriagedSoFar /\ phase \in Running
  BY DEF VexInv, Running
<1>3. \A p : p \in AllPurls <=> \E k \in 1..Len(sboms) : p \in sboms[k].components
  BY DEF AllPurls
<1>4. \A c : c \in HandTriaged <=> \E f \in files : f.considered /\ c \in f.names
  BY DEF HandTriaged
<1>5. triaged = HandTriaged
  BY <1>1, <1>2, <1>4 DEF TriagedSoFar
<1> QED BY <1>1, <1>2, <1>3, <1>5 DEF PurlsSoFar, TriagedSoFar

\* The document is the reference definition over the whole inputs, whatever
\* their size and in whatever order they are met.
THEOREM DocumentCorrect == Spec => []DocumentIsReference
<1>1. ASSUME VexInv PROVE DocumentIsReference
  <2> SUFFICES ASSUME phase = "done"
               PROVE  \A c : c \in document <=>
                         /\ c \in Cves \ HandTriaged
                         /\ \E j \in 1..Len(report) :
                               report[j].cve = c /\ Finding(report[j])
    BY DEF DocumentIsReference
  <2>1. TypeOK /\ Len(report) \in Nat
    BY <1>1, InputTypes DEF VexInv
  <2>2. document = emitted /\ MatchesDone = Len(report)
    BY <1>1, <2>1 DEF VexInv, LoopShape, MatchesDone
  <2>3. \A c : c \in emitted <=>
           \E j \in 1..Len(report) : report[j].cve = c /\ Dismissed(report[j])
    BY <1>1, <2>2 DEF VexInv, EmittedSoFar
  <2>4. \A j \in 1..Len(report) : Dismissed(report[j]) <=>
           report[j].cve \notin HandTriaged /\ Finding(report[j])
    BY <1>1, Complete DEF Dismissed, Finding
  <2>5. \A j \in 1..Len(report) : report[j].cve \in Cves
    BY <2>1, InputTypes DEF Matches
  <2> QED BY <2>2, <2>3, <2>4, <2>5
<1> QED BY <1>1, VexInvariant, PTL

\* No document is derived from an SBOM that contributed nothing or a hand-
\* authored file that was not understood, and none overrides such a file.
THEOREM VexFailsClosed == Spec => []FailsClosed
<1>1. ASSUME VexInv PROVE FailsClosed
  <2>1. phase # "done" => document = {}
    BY <1>1 DEF VexInv, LoopShape
  <2>2. ASSUME phase = "done"
        PROVE  document \cap HandTriaged = {}
    BY <1>1, <2>2, Complete DEF VexInv, LoopShape, EmittedSoFar, Dismissed
  <2> QED BY <1>1, <2>1, <2>2, Complete DEF FailsClosed, Usable
<1> QED BY <1>1, VexInvariant, PTL
=============================================================================
