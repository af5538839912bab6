----------------------------- MODULE ScoutProofs -----------------------------
(***************************************************************************)
(* Proofs about the commands that read a repository: the scan of its files *)
(* (RepositoryScan), whatever they contain and however they are edited     *)
(* while they are read, the bound by which a near miss is given up before  *)
(* its spelling is compared (NearMiss), and the lines a command finds      *)
(* added in a diff (GitDiff, TerminologyGate).                             *)
(***************************************************************************)
EXTENDS RepositoryScan, FiniteSetTheorems, SequenceTheorems, WellFoundedInduction, TLAPS

\* A set of numbers that is not empty has a least member.
LEMMA LeastMember ==
    ASSUME NEW S, S \subseteq Nat, S # {}
    PROVE  \E m \in S : \A k \in S : m <= k
<1> DEFINE R == OpToRel(<, Nat)
<1>1. IsWellFoundedOn(R, Nat)
      BY NatLessThanWellFounded, Zenon
<1>2. \E m \in S : \A k \in S : ~(<<k, m>> \in R)
    <2> HIDE DEF R
    <2> QED  BY <1>1, WFMin, Zenon
<1>3. PICK m \in S : \A k \in S : ~(<<k, m>> \in R)
      BY <1>2
<1>4. ASSUME NEW k \in S
      PROVE  m <= k
      <2>1. k \in Nat /\ m \in Nat
            OBVIOUS
      <2>2. ~(<<k, m>> \in R)
            BY <1>3
      <2>3. ~(k < m)
            BY <2>1, <2>2 DEF OpToRel
      <2> QED  BY <2>1, <2>3
<1> QED  BY <1>4

-----------------------------------------------------------------------------
(* Candidates.                                                             *)

\* An occurrence of a surface in the documents: a line that says it.
OccursIn(normalized, o, docs) ==
    \E d \in docs :
        /\ o.path = d.path
        /\ o.line_number \in DOMAIN d.lines
        /\ normalized \in DOMAIN ExtractedSurfaces(d.lines[o.line_number])

LEMMA OccurrencesOccur ==
    ASSUME NEW docs, NEW known, NEW f \in OccurrencesIn(docs, known)
    PROVE  OccursIn(f[1], f[2], docs)
<1> DEFINE boilerplate == BoilerplateLines(docs)
           external == ExternalRoots(docs)
<1> HIDE DEF boilerplate, external
<1>1. PICK d \in docs :
          f \in UNION {OccurrencesOf(ExtractedSurfaces(d.lines[i]), d, i, known, external) :
                          i \in LinesRead(d.lines, boilerplate)}
  BY DEF OccurrencesIn, boilerplate, external
<1>2. PICK i \in LinesRead(d.lines, boilerplate) :
          f \in OccurrencesOf(ExtractedSurfaces(d.lines[i]), d, i, known, external)
  BY <1>1
<1> DEFINE surfaces == ExtractedSurfaces(d.lines[i])
<1> HIDE DEF surfaces
<1>3. PICK n \in DOMAIN surfaces :
          f = <<n, Occurrence(d.path, LineNumber(d.lines, i), Contexts(d)[i], surfaces[n])>>
  BY <1>2 DEF OccurrencesOf, surfaces
<1>4. f[1] = n /\ f[2].path = d.path /\ f[2].line_number = i
  BY <1>3 DEF Occurrence, LineNumber
<1>5. i \in DOMAIN d.lines
  BY DEF LinesRead
<1> QED
  BY <1>3, <1>4, <1>5 DEF OccursIn, surfaces

\* What is known of a candidate of the documents.
Grounded(c, docs) == \A o \in c.occurrences : OccursIn(c.normalized, o, docs)

LEMMA ScoredGrounded ==
    ASSUME NEW docs, NEW known, NEW total,
           NEW c \in AllScored(OccurrencesIn(docs, known), total)
    PROVE  Grounded(c, docs)
<1> DEFINE found == OccurrencesIn(docs, known)
<1> HIDE DEF found
<1>1. PICK n \in {f[1] : f \in found} :
          c = Scored(n, {f[2] : f \in {g \in found : g[1] = n}}, total)
  BY DEF AllScored, found
<1> DEFINE occurrences == {f[2] : f \in {g \in found : g[1] = n}}
<1>2. \A o \in occurrences : OccursIn(n, o, docs)
  BY OccurrencesOccur DEF found
<1> HIDE DEF occurrences
<1>3. c = Scored(n, occurrences, total)
  BY <1>1 DEF occurrences
<1>4. c.normalized = n /\ c.occurrences = FirstOccurrences(occurrences, MaxOccurrences)
  BY <1>3 DEF Scored, ScoredByTokens
<1>5. c.occurrences \subseteq occurrences
  BY <1>4 DEF FirstOccurrences
<1> QED
  BY <1>2, <1>4, <1>5 DEF Grounded

\* Every occurrence of a candidate is in a document that was read.
LEMMA CandidatesGrounded ==
    ASSUME NEW docs, NEW known, NEW c \in DiscoveredCandidates(docs, known)
    PROVE  Grounded(c, docs)
<1> DEFINE scored == AllScored(OccurrencesIn(docs, known), Cardinality(docs))
           kept == Best(Enough(scored))
<1>1. kept \subseteq scored
  BY DEF Best, Enough
<1>2. PICK k \in kept : c = [k EXCEPT !.important = Important(kept, k)]
  BY DEF DiscoveredCandidates, Rated
<1>3. Grounded(k, docs)
  BY <1>1, <1>2, ScoredGrounded
<1>4. c.normalized = k.normalized /\ c.occurrences = k.occurrences
  BY <1>2
<1> QED
  BY <1>3, <1>4 DEF Grounded

-----------------------------------------------------------------------------
(* Evidence.                                                               *)

\* Documents that are sequences of lines, one for a path.
Documents(docs) ==
    /\ \A d \in docs : Len(d.lines) \in Nat /\ DOMAIN d.lines = 1..Len(d.lines)
    /\ \A d, e \in docs : d.path = e.path => d = e

\* A snippet around a line of a document holds the line, and is about it.
LEMMA SnippetFacts ==
    ASSUME ContextLines \in Nat, NEW d, Len(d.lines) \in Nat, DOMAIN d.lines = 1..Len(d.lines),
           NEW i \in DOMAIN d.lines
    PROVE  /\ SnippetOf(d, i).path = d.path
           /\ SnippetOf(d, i).center = i
           /\ i \in SnippetOf(d, i).start_line..SnippetOf(d, i).end_line
<1>1. \A a, b \in Int : /\ Max({a, b}) = IF a >= b THEN a ELSE b
                        /\ Min({a, b}) = IF a <= b THEN a ELSE b
  <2> TAKE a, b \in Int
  <2>1. Max({a, b}) = IF a >= b THEN a ELSE b
    BY DEF Max
  <2>2. Min({a, b}) = IF a <= b THEN a ELSE b
    BY DEF Min
  <2> QED
    BY <2>1, <2>2
<1> DEFINE count == Len(d.lines)
           center == Max({1, Min({i, count})})
<1>2. i \in Int /\ count \in Int /\ 1 <= i /\ i <= count
  OBVIOUS
<1>3. center = i
  <2> HIDE DEF count
  <2>1. Min({i, count}) = i
    BY <1>1, <1>2
  <2>2. Max({1, i}) = i
    BY <1>1, <1>2
  <2> QED
    BY <2>1, <2>2
<1>4. Max({1, i - ContextLines}) <= i /\ Max({1, i - ContextLines}) \in Int
  <2>1. i - ContextLines \in Int /\ i - ContextLines <= i
    OBVIOUS
  <2> HIDE DEF count
  <2> QED
    BY <1>1, <1>2, <2>1
<1>5. i <= Min({count, i + ContextLines}) /\ Min({count, i + ContextLines}) \in Int
  <2>1. i + ContextLines \in Int /\ i <= i + ContextLines
    OBVIOUS
  <2> HIDE DEF count
  <2> QED
    BY <1>1, <1>2, <2>1
<1>6. SnippetOf(d, i) = Snippet(d.path, i, Max({1, i - ContextLines}), Min({count, i + ContextLines}))
  BY <1>3 DEF SnippetOf
<1> HIDE DEF count
<1> QED
  BY <1>2, <1>4, <1>5, <1>6 DEF Snippet

LinesAt(docs, path) == (CHOOSE d \in docs : d.path = path).lines

LEMMA LinesAtDocument ==
    ASSUME NEW docs, Documents(docs), NEW d \in docs
    PROVE  /\ LinesAt(docs, d.path) = d.lines
           /\ (CHOOSE e \in {x \in docs : x.path = d.path} : TRUE) = d
BY DEF Documents, LinesAt

\* What a reviewer relies on: where a positive snippet is from the surface is said,
\* where a negative one is from it is not.
PositiveOf(s, normalized, docs) ==
    /\ s.path \in {d.path : d \in docs}
    /\ \E i \in s.start_line..s.end_line :
          normalized \in DOMAIN ExtractedSurfaces(LinesAt(docs, s.path)[i])

NegativeOf(s, surface, docs) ==
    /\ s.path \in {d.path : d \in docs}
    /\ ~Holds(LinesAt(docs, s.path)[s.center], surface)

LEMMA PositiveCorrect ==
    ASSUME ContextLines \in Nat, NEW docs, Documents(docs),
           NEW c, Grounded(c, docs), NEW s \in PositiveSnippets(c, docs)
    PROVE  PositiveOf(s, c.normalized, docs)
<1> DEFINE Around(o) ==
               LET held == {d \in docs : d.path = o.path}
               IN  IF held = {}
                   THEN Snippet(o.path, o.line_number, o.line_number, o.line_number)
                   ELSE SnippetOf(CHOOSE d \in held : TRUE, o.line_number)
<1>1. PICK o \in c.occurrences : s = Around(o)
  BY DEF PositiveSnippets, FirstSnippets
<1>2. PICK d \in docs : /\ o.path = d.path
                             /\ o.line_number \in DOMAIN d.lines
                             /\ c.normalized \in DOMAIN ExtractedSurfaces(d.lines[o.line_number])
  BY DEF Grounded, OccursIn
<1>3. s = SnippetOf(d, o.line_number)
  <2> DEFINE held == {e \in docs : e.path = o.path}
  <2>1. d \in held /\ (CHOOSE e \in held : TRUE) = d
    BY <1>2, LinesAtDocument
  <2> HIDE DEF held
  <2>2. s = IF held = {} THEN Snippet(o.path, o.line_number, o.line_number, o.line_number)
            ELSE SnippetOf(CHOOSE e \in held : TRUE, o.line_number)
    BY <1>1 DEF held
  <2> QED
    BY <2>1, <2>2
<1>4. /\ s.path = d.path
      /\ o.line_number \in s.start_line..s.end_line
  BY <1>2, <1>3, SnippetFacts DEF Documents
<1>5. LinesAt(docs, s.path) = d.lines
  BY <1>4, LinesAtDocument
<1> QED
  BY <1>2, <1>4, <1>5 DEF PositiveOf

LEMMA NegativeCorrect ==
    ASSUME ContextLines \in Nat, NEW docs, Documents(docs), NEW c, NEW positive,
           NEW s \in NegativeSnippets(c, docs, positive)
    PROVE  NegativeOf(s, c.surface, docs)
<1>1. PICK p \in NegativeLines(c, docs, positive) : s = SnippetOf(p[1], p[2])
  BY DEF NegativeSnippets, FirstSnippets
<1>2. PICK d \in docs : \E i \in DOMAIN d.lines : p = <<d, i>> /\ ~Holds(d.lines[i], c.surface)
  BY DEF NegativeLines
<1>3. PICK i \in DOMAIN d.lines : p = <<d, i>> /\ ~Holds(d.lines[i], c.surface)
  BY <1>2
<1>4. s = SnippetOf(d, i)
  BY <1>1, <1>3
<1>5. s.path = d.path /\ s.center = i
  BY <1>4, SnippetFacts DEF Documents
<1>6. LinesAt(docs, s.path) = d.lines
  BY <1>5, LinesAtDocument
<1> QED
  BY <1>3, <1>5, <1>6 DEF NegativeOf

\* What is known of the evidence of candidates.
Substantiated(pack, found, docs) ==
    /\ \E c \in found : pack.normalized = c.normalized
    /\ \A s \in pack.positive : PositiveOf(s, pack.normalized, docs)
    /\ \A s \in pack.negative : NegativeOf(s, pack.surface, docs)

LEMMA EvidenceSupported ==
    ASSUME ContextLines \in Nat, NEW docs, Documents(docs),
           NEW found, \A c \in found : Grounded(c, docs),
           NEW pack \in EvidencePacks(docs, found)
    PROVE  Substantiated(pack, found, docs)
<1>1. PICK c \in found : pack = EvidencePack(c, docs)
  BY DEF EvidencePacks
<1>2. /\ pack.normalized = c.normalized /\ pack.surface = c.surface
      /\ pack.positive = PositiveSnippets(c, docs)
      /\ pack.negative = NegativeSnippets(c, docs, pack.positive)
  BY <1>1 DEF EvidencePack
<1>3. \A s \in pack.positive : PositiveOf(s, pack.normalized, docs)
  BY <1>2, PositiveCorrect
<1>4. \A s \in pack.negative : NegativeOf(s, pack.surface, docs)
  BY <1>2, NegativeCorrect
<1> QED
  BY <1>2, <1>3, <1>4 DEF Substantiated

-----------------------------------------------------------------------------
(* The scan.                                                               *)

PathsRead == {d.path : d \in scan.read}

\* The documents of a scan are sequences of lines, one for a path, and none is of a
\* path that is still to be read.
ReadInv ==
    /\ DOMAIN scan = {"step", "pending", "read", "found", "evidence"}
    /\ scan.pending \subseteq Paths
    /\ Documents(scan.read)
    /\ PathsRead \cap scan.pending = {}

\* What a scan makes of them, once it has read them all.
FoundInv ==
    /\ scan.step = "read" => scan.found = {} /\ scan.evidence = {}
    /\ \A c \in scan.found : Grounded(c, scan.read)
    /\ \A pack \in scan.evidence : Substantiated(pack, scan.found, scan.read)

\* What a scan has stored by the step it is at.
StoredInv ==
    /\ scan.step \in {"candidates", "evidence"} => PathsRead \subseteq DOMAIN documents
    /\ scan.step = "evidence" => {c.normalized : c \in scan.found} \subseteq DOMAIN candidates

ScanInv == work \in Trees /\ ReadInv /\ FoundInv /\ StoredInv /\ WorkspaceRefersToWhatItHolds

\* A scan that is over has nothing.
LEMMA NoScanInv ==
    /\ DOMAIN NoScan = {"step", "pending", "read", "found", "evidence"}
    /\ NoScan.step = "idle" /\ NoScan.pending = {} /\ NoScan.read = {}
    /\ NoScan.found = {} /\ NoScan.evidence = {}
BY DEF NoScan

\* The transactions go from documents to candidates to evidence.
LEMMA StoredStep ==
    /\ Stored("documents") = [scan EXCEPT !.step = "candidates"]
    /\ Stored("candidates") = [scan EXCEPT !.step = "evidence"]
    /\ Stored("evidence") = NoScan
<1>1. /\ DOMAIN StoreOrder = 1..3 /\ Len(StoreOrder) = 3
      /\ StoreOrder[1] = "documents" /\ StoreOrder[2] = "candidates" /\ StoreOrder[3] = "evidence"
  BY DEF StoreOrder
<1>2. /\ (CHOOSE j \in DOMAIN StoreOrder : StoreOrder[j] = "documents") = 1
      /\ (CHOOSE j \in DOMAIN StoreOrder : StoreOrder[j] = "candidates") = 2
      /\ (CHOOSE j \in DOMAIN StoreOrder : StoreOrder[j] = "evidence") = 3
  BY <1>1
<1> QED
  BY <1>1, <1>2 DEF Stored

\* Some file that is still to be read is the first of them.
LEMMA NextPathPending ==
    ASSUME scan.pending \subseteq Paths, scan.pending # {}
    PROVE  NextPath \in scan.pending
<1> DEFINE places == {Place(p) : p \in scan.pending}
<1>1. ASSUME NEW p \in scan.pending
      PROVE  Place(p) \in Nat
  <2>1. \E i \in DOMAIN PathOrder : PathOrder[i] = p
    BY ScanAssumption DEF ToSet
  <2>2. DOMAIN PathOrder \subseteq Nat
    <3>1. DOMAIN PathOrder = 1..Len(PathOrder)
      BY ScanAssumption
    <3> QED
      BY <3>1
  <2> QED
    BY <2>1, <2>2 DEF Place
<1>2. PICK m \in places : \A n \in places : m <= n
  <2>1. places \subseteq Nat /\ places # {}
    BY <1>1
  <2> HIDE DEF places
  <2> QED
    BY <2>1, LeastMember
<1>3. \E p \in scan.pending : \A q \in scan.pending : Place(p) <= Place(q)
  BY <1>2
<1> QED
  BY <1>3 DEF NextPath

\* What is read of a file is a document of its path.
LEMMA ReadDocument ==
    ASSUME work \in Trees, NEW p \in Paths, NEW d \in ToSet(ReadLocalDocument(Disk, p))
    PROVE  /\ d.path = p
           /\ Len(d.lines) \in Nat
           /\ DOMAIN d.lines = 1..Len(d.lines)
           /\ ToSet(ReadLocalDocument(Disk, p)) = {d}
<1>1. Readable(Disk, p) /\ ReadLocalDocument(Disk, p) = <<Document(p, Disk[p].lines)>>
  BY DEF ReadLocalDocument, ToSet
<1>2. d = Document(p, Disk[p].lines) /\ ToSet(ReadLocalDocument(Disk, p)) = {d}
  BY <1>1 DEF ToSet
<1>3. Disk[p] = FileOf(work[p])
  BY <1>1 DEF Readable, Disk
<1>4. work[p] \in Seq(ToSet(work[p]))
  BY ScanAssumption DEF Trees
<1> DEFINE lines == work[p]
           text == [i \in DOMAIN lines |-> lines[i].text]
<1>5. d.path = p /\ d.lines = text
  BY <1>2, <1>3 DEF Document, FileOf, File
<1>6. DOMAIN text = 1..Len(lines) /\ Len(lines) \in Nat
  <2> HIDE DEF lines
  <2>1. lines \in Seq(ToSet(lines))
    BY <1>4 DEF lines
  <2> QED
    BY <2>1
<1>7. Len(text) = Len(lines)
  BY <1>6
<1> QED
  BY <1>2, <1>5, <1>6, <1>7

LEMMA TreesKept == ASSUME work \in Trees, [ScanNext]_<<gateVars, scanVars>> PROVE work' \in Trees
<1>1. CASE ScanSteps /\ UNCHANGED gateVars
  BY <1>1 DEF gateVars
<1>2. CASE \E path \in Paths : Edit(path)
  <2>1. PICK path \in Paths : Rewrite(path)
    BY <1>2 DEF Edit
  <2>2. PICK text \in FileTexts[path] : work' = [work EXCEPT ![path] = text]
    BY <2>1 DEF Rewrite
  <2> QED
    BY <2>2 DEF Trees
<1>3. CASE UNCHANGED <<gateVars, scanVars>>
  BY <1>3 DEF gateVars
<1> QED
  BY <1>1, <1>2, <1>3 DEF ScanNext

\* The workspace is of what there was when it changes no more than by replacement.
LEMMA WorkspaceKept ==
    ASSUME WorkspaceRefersToWhatItHolds, UNCHANGED workspaceVars
    PROVE  WorkspaceRefersToWhatItHolds'
BY DEF WorkspaceRefersToWhatItHolds, workspaceVars

LEMMA ScanInvStep ==
    ASSUME ScanInv, [ScanNext]_<<gateVars, scanVars>>
    PROVE  ScanInv'
<1> USE DEF ScanInv
<1>1. work' \in Trees
  BY TreesKept
<1>2. CASE BeginScan
  <2>1. /\ scan' = [NoScan EXCEPT !.step = "read",
                       !.pending = DiscoverLocalFiles(Disk, GitIgnoreRules(GitIgnore), DirectPaths)]
        /\ UNCHANGED workspaceVars
    BY <1>2 DEF BeginScan
  <2>2. DiscoverLocalFiles(Disk, GitIgnoreRules(GitIgnore), DirectPaths) \subseteq Paths
    BY DEF DiscoverLocalFiles, Walked, Disk
  <2>3. /\ DOMAIN scan' = DOMAIN NoScan /\ scan'.step = "read"
        /\ scan'.pending \subseteq Paths
        /\ scan'.read = {} /\ scan'.found = {} /\ scan'.evidence = {}
    BY <2>1, <2>2 DEF NoScan
  <2>4. ReadInv' /\ FoundInv' /\ StoredInv'
    BY <2>3 DEF ReadInv, FoundInv, StoredInv, Documents, PathsRead, NoScan
  <2> QED
    BY <1>1, <2>1, <2>4, WorkspaceKept
<1>3. CASE ReadFile
  <2> DEFINE new == ToSet(ReadLocalDocument(Disk, NextPath))
  <2>1. /\ scan.step = "read" /\ scan.pending # {}
        /\ scan' = [scan EXCEPT !.pending = @ \ {NextPath}, !.read = @ \cup new]
        /\ UNCHANGED workspaceVars
    BY <1>3 DEF ReadFile
  <2>2. NextPath \in scan.pending /\ NextPath \in Paths
    BY <2>1, NextPathPending DEF ReadInv
  <2>3. \A d \in new : /\ d.path = NextPath /\ new = {d}
                       /\ Len(d.lines) \in Nat /\ DOMAIN d.lines = 1..Len(d.lines)
    BY <2>2, ReadDocument
  <2> HIDE DEF new
  <2>4. /\ DOMAIN scan' = DOMAIN scan /\ scan'.step = scan.step
        /\ scan'.pending = scan.pending \ {NextPath} /\ scan'.read = scan.read \cup new
        /\ scan'.found = scan.found /\ scan'.evidence = scan.evidence
    BY <2>1 DEF ReadInv
  <2>5. \A d \in scan.read : d.path # NextPath
    BY <2>2 DEF ReadInv, PathsRead
  <2>6. ReadInv'
    <3>1. Documents(scan'.read)
      BY <2>3, <2>4, <2>5 DEF ReadInv, Documents
    <3>2. PathsRead' \cap scan'.pending = {}
      BY <2>3, <2>4 DEF ReadInv, PathsRead
    <3> QED
      BY <2>4, <3>1, <3>2 DEF ReadInv
  <2>7. FoundInv' /\ StoredInv'
    BY <2>1, <2>4 DEF FoundInv, StoredInv
  <2> QED
    BY <1>1, <2>1, <2>6, <2>7, WorkspaceKept
<1>4. CASE Discover
  <2> DEFINE found == DiscoveredCandidates(scan.read, KnownNormalized)
             evidence == EvidencePacks(scan.read, found)
  <2>1. /\ scan' = [scan EXCEPT !.step = StoreOrder[1], !.found = found, !.evidence = evidence]
        /\ UNCHANGED workspaceVars
    BY <1>4 DEF Discover, Discovered
  <2>2. \A c \in found : Grounded(c, scan.read)
    BY CandidatesGrounded
  <2>3. \A pack \in evidence : Substantiated(pack, found, scan.read)
    <3> HIDE DEF found
    <3> QED
      BY <2>2, ScanAssumption, EvidenceSupported DEF ReadInv
  <2>4. StoreOrder[1] = "documents"
    BY DEF StoreOrder
  <2> HIDE DEF found, evidence
  <2>5. /\ DOMAIN scan' = DOMAIN scan /\ scan'.step = "documents"
        /\ scan'.pending = scan.pending /\ scan'.read = scan.read
        /\ scan'.found = found /\ scan'.evidence = evidence
    BY <2>1, <2>4 DEF ReadInv
  <2>6. ReadInv' /\ FoundInv' /\ StoredInv'
    BY <2>2, <2>3, <2>5 DEF ReadInv, FoundInv, StoredInv, PathsRead
  <2> QED
    BY <1>1, <2>1, <2>6, WorkspaceKept
<1>5. CASE StoreDocuments
  <2> DEFINE new == [p \in {d.path : d \in scan.read} |-> CHOOSE d \in scan.read : d.path = p]
  <2>1. /\ documents' = Replaced(documents, new) /\ UNCHANGED <<candidates, packs>>
        /\ scan' = [scan EXCEPT !.step = "candidates"]
    BY <1>5, StoredStep DEF StoreDocuments
  <2>2. DOMAIN documents' = DOMAIN documents \cup PathsRead
    BY <2>1 DEF Replaced, PathsRead
  <2>3. /\ DOMAIN scan' = DOMAIN scan /\ scan'.step = "candidates"
        /\ scan'.pending = scan.pending /\ scan'.read = scan.read
        /\ scan'.found = scan.found /\ scan'.evidence = scan.evidence
    BY <2>1 DEF ReadInv
  <2>4. ReadInv' /\ FoundInv' /\ StoredInv'
    BY <2>2, <2>3 DEF ReadInv, FoundInv, StoredInv, PathsRead
  <2>5. WorkspaceRefersToWhatItHolds'
    BY <2>1, <2>2 DEF WorkspaceRefersToWhatItHolds
  <2> QED
    BY <1>1, <2>4, <2>5
<1>6. CASE StoreCandidates
  <2> DEFINE new == [n \in {c.normalized : c \in scan.found} |->
                        CHOOSE c \in scan.found : c.normalized = n]
  <2>1. /\ candidates' = Replaced(candidates, new) /\ UNCHANGED <<documents, packs>>
        /\ scan' = [scan EXCEPT !.step = "evidence"] /\ scan.step = "candidates"
    BY <1>6, StoredStep DEF StoreCandidates
  <2>2. DOMAIN candidates' = DOMAIN candidates \cup {c.normalized : c \in scan.found}
    BY <2>1 DEF Replaced
  <2>3. /\ DOMAIN scan' = DOMAIN scan /\ scan'.step = "evidence"
        /\ scan'.pending = scan.pending /\ scan'.read = scan.read
        /\ scan'.found = scan.found /\ scan'.evidence = scan.evidence
    BY <2>1 DEF ReadInv
  <2>4. ReadInv' /\ FoundInv' /\ StoredInv'
    BY <2>1, <2>2, <2>3 DEF ReadInv, FoundInv, StoredInv, PathsRead
  <2>5. ASSUME NEW n \in DOMAIN candidates', NEW o \in candidates'[n].occurrences
        PROVE  o.path \in DOMAIN documents
    <3>1. CASE n \in DOMAIN new
      <4>1. candidates'[n] = new[n]
        BY <2>1, <2>2, <3>1 DEF Replaced
      <4>2. new[n] \in scan.found
        BY <3>1
      <4>3. OccursIn(new[n].normalized, o, scan.read)
        BY <2>5, <4>1, <4>2 DEF FoundInv, Grounded
      <4>4. o.path \in PathsRead
        BY <4>3 DEF OccursIn, PathsRead
      <4> QED
        BY <2>1, <4>4 DEF StoredInv
    <3>2. CASE n \notin DOMAIN new
      <4>1. n \in DOMAIN candidates /\ candidates'[n] = candidates[n]
        BY <2>1, <2>2, <3>2 DEF Replaced
      <4> QED
        BY <2>5, <4>1 DEF WorkspaceRefersToWhatItHolds
    <3> QED
      BY <3>1, <3>2
  <2>6. WorkspaceRefersToWhatItHolds'
    BY <2>1, <2>2, <2>5 DEF WorkspaceRefersToWhatItHolds
  <2> QED
    BY <1>1, <2>4, <2>6
<1>7. CASE StoreEvidence
  <2> DEFINE new == [n \in {e.normalized : e \in scan.evidence} |->
                        CHOOSE e \in scan.evidence : e.normalized = n]
  <2>1. /\ packs' = Replaced(packs, new) /\ UNCHANGED <<documents, candidates>>
        /\ scan' = NoScan /\ scan.step = "evidence"
    BY <1>7, StoredStep DEF StoreEvidence
  <2>2. DOMAIN packs' = DOMAIN packs \cup {e.normalized : e \in scan.evidence}
    BY <2>1 DEF Replaced
  <2>3. ReadInv' /\ FoundInv' /\ StoredInv'
    BY <2>1, NoScanInv DEF ReadInv, FoundInv, StoredInv, PathsRead, Documents
  <2>4. ASSUME NEW n \in DOMAIN packs'
        PROVE  /\ n \in DOMAIN candidates
               /\ \A s \in packs'[n].positive \cup packs'[n].negative : s.path \in DOMAIN documents
    <3>1. CASE n \in DOMAIN new
      <4>1. packs'[n] = new[n]
        BY <2>1, <2>2, <3>1 DEF Replaced
      <4>2. new[n] \in scan.evidence /\ new[n].normalized = n
        BY <3>1
      <4>3. Substantiated(new[n], scan.found, scan.read)
        BY <4>2 DEF FoundInv
      <4>4. n \in DOMAIN candidates
        BY <2>1, <4>2, <4>3 DEF Substantiated, StoredInv
      <4>5. \A s \in new[n].positive \cup new[n].negative : s.path \in PathsRead
        BY <4>3 DEF Substantiated, PositiveOf, NegativeOf, PathsRead
      <4> QED
        BY <2>1, <4>1, <4>4, <4>5 DEF StoredInv
    <3>2. CASE n \notin DOMAIN new
      <4>1. n \in DOMAIN packs /\ packs'[n] = packs[n]
        BY <2>1, <2>2, <3>2 DEF Replaced
      <4> QED
        BY <4>1 DEF WorkspaceRefersToWhatItHolds
    <3> QED
      BY <3>1, <3>2
  <2>5. WorkspaceRefersToWhatItHolds'
    BY <2>1, <2>4 DEF WorkspaceRefersToWhatItHolds
  <2> QED
    BY <1>1, <2>3, <2>5
<1>8. CASE StopScan
  <2>1. scan' = NoScan /\ UNCHANGED workspaceVars
    BY <1>8 DEF StopScan
  <2>2. ReadInv' /\ FoundInv' /\ StoredInv'
    BY <2>1, NoScanInv DEF ReadInv, FoundInv, StoredInv, PathsRead, Documents
  <2> QED
    BY <1>1, <2>1, <2>2, WorkspaceKept
<1>9. CASE UNCHANGED <<scan, workspaceVars>>
  <2>1. scan' = scan /\ UNCHANGED <<documents, candidates, packs>>
    BY <1>9 DEF workspaceVars
  <2>2. ReadInv' /\ FoundInv' /\ StoredInv'
    BY <2>1 DEF ReadInv, FoundInv, StoredInv, PathsRead
  <2> QED
    BY <1>1, <1>9, <2>2, WorkspaceKept
<1>10. (\E path \in Paths : Edit(path)) \/ UNCHANGED <<gateVars, scanVars>>
         => UNCHANGED <<scan, workspaceVars>>
  BY DEF Edit, scanVars, workspaceVars
<1> QED
  BY <1>2, <1>3, <1>4, <1>5, <1>6, <1>7, <1>8, <1>9, <1>10 DEF ScanNext, ScanSteps

LEMMA ScanInvInit == GateInit /\ ScanInit => ScanInv
BY NoScanInv DEF GateInit, ScanInit, ScanInv, ReadInv, FoundInv, StoredInv, PathsRead,
                 Documents, WorkspaceRefersToWhatItHolds

\* WorkspaceRefersToWhatItHolds of every run: wherever scans die between their three
\* transactions, what the workspace has of candidates and of evidence refers only to
\* documents and candidates it has.
THEOREM WorkspaceHoldsTogether == ScanSpec => []WorkspaceRefersToWhatItHolds
<1>1. ScanInv => WorkspaceRefersToWhatItHolds
  BY DEF ScanInv
<1> QED
  BY <1>1, ScanInvInit, ScanInvStep, PTL DEF ScanSpec

\* EvidenceIsEvidence of every run: a positive snippet holds a line that says the
\* surface, a negative one is about a line that does not, in the documents as they
\* were read, however the files are edited meanwhile.
THEOREM EvidenceCorrect == ScanSpec => []EvidenceIsEvidence
<1>1. ASSUME ScanInv
      PROVE  EvidenceIsEvidence
  <2>1. ASSUME NEW pack \in scan.evidence
        PROVE  /\ \A s \in pack.positive : PositiveOf(s, pack.normalized, scan.read)
               /\ \A s \in pack.negative : NegativeOf(s, pack.surface, scan.read)
    BY <1>1 DEF ScanInv, FoundInv, Substantiated
  <2> QED
    BY <2>1 DEF EvidenceIsEvidence, PositiveOf, NegativeOf, LinesAt
<1> QED
  BY <1>1, ScanInvInit, ScanInvStep, PTL DEF ScanSpec

-----------------------------------------------------------------------------
(* Near misses.                                                            *)

\* A set that has zero and the successors of its numbers has all of them.
LEMMA Induction ==
    ASSUME NEW S, 0 \in S, \A n \in Nat : n \in S => n + 1 \in S
    PROVE  \A n \in Nat : n \in S
<1> SUFFICES ASSUME Nat \ S # {} PROVE FALSE
  OBVIOUS
<1>1. PICK m \in Nat \ S : \A k \in Nat \ S : m <= k
  BY LeastMember
<1>2. m # 0 /\ m - 1 \in Nat
  OBVIOUS
<1>3. m - 1 \in S
  BY <1>1, <1>2
<1> QED
  BY <1>2, <1>3

LEMMA SequenceIsFinite ==
    ASSUME NEW C, NEW s \in Seq(C)
    PROVE  IsFiniteSet(ToSet(s))
<1>1. Len(s) \in Nat /\ s \in Surjection(1..Len(s), ToSet(s))
  BY DEF Surjection, ToSet
<1> QED
  BY <1>1, FS_NatSurjection, Zenon DEF ExistsSurjection

\* All fragments there are.
AllFragments == UNION {ToSet(FragmentsOf[w]) : w \in DOMAIN FragmentsOf}

LEMMA WordFragments ==
    ASSUME NEW w \in DOMAIN FragmentsOf
    PROVE  FragmentsOf[w] \in Seq(AllFragments)
<1>1. FragmentsOf[w] \in Seq(ToSet(FragmentsOf[w]))
  BY LikenessAssumption
<1>2. ToSet(FragmentsOf[w]) \subseteq AllFragments
  BY DEF AllFragments
<1> HIDE DEF AllFragments
<1> QED
  BY <1>1, <1>2

\* The fragments of the first words of a surface, for each number of them up to n.
IsUpTo(f, surface, n) ==
    f = [i \in 0..n |-> IF i = 0 THEN <<>> ELSE f[i - 1] \o FragmentsOf[surface[i]]]

LEMMA UpToExists ==
    ASSUME NEW surface, NEW n \in Nat
    PROVE  \E f : IsUpTo(f, surface, n)
<1> DEFINE S == {k \in Nat : \E f : IsUpTo(f, surface, k)}
<1>1. 0 \in S
  <2> DEFINE f == [i \in 0..0 |-> <<>>]
  <2>1. IsUpTo(f, surface, 0)
    BY DEF IsUpTo
  <2> QED
    BY <2>1
<1>2. ASSUME NEW k \in Nat, k \in S
      PROVE  k + 1 \in S
  <2>1. PICK f : IsUpTo(f, surface, k)
    BY <1>2
  <2> DEFINE Next1(i) == f[i - 1] \o FragmentsOf[surface[i]]
             g == [i \in 0..k + 1 |-> IF i \in 0..k THEN f[i] ELSE Next1(i)]
  <2>2. \A i \in 0..k : f[i] = IF i = 0 THEN <<>> ELSE Next1(i)
    BY <2>1 DEF IsUpTo
  <2>3. \A i \in 1..k + 1 : i - 1 \in 0..k + 1 /\ g[i - 1] = f[i - 1]
    OBVIOUS
  <2>4. ASSUME NEW i \in 0..k + 1
        PROVE  g[i] = IF i = 0 THEN <<>> ELSE g[i - 1] \o FragmentsOf[surface[i]]
    <3>1. g[i] = IF i = 0 THEN <<>> ELSE Next1(i)
      <4> HIDE DEF Next1
      <4> QED
        BY <2>2
    <3>2. i # 0 => g[i - 1] = f[i - 1]
      BY <2>3
    <3> HIDE DEF g
    <3> QED
      BY <3>1, <3>2
  <2>5. g = [i \in 0..k + 1 |-> g[i]]
    BY DEF g
  <2> HIDE DEF g
  <2>6. IsUpTo(g, surface, k + 1)
    BY <2>4, <2>5 DEF IsUpTo
  <2> QED
    BY <2>6
<1> HIDE DEF S
<1>3. n \in S
  BY <1>1, <1>2, Induction
<1> QED
  BY <1>3 DEF S

\* A surface has its fragments in a sequence.
LEMMA FragmentsType ==
    ASSUME NEW surface \in Seq(DOMAIN FragmentsOf)
    PROVE  Fragments(surface) \in Seq(AllFragments)
<1> DEFINE L == Len(surface)
           U == CHOOSE f : IsUpTo(f, surface, L)
<1>1. L \in Nat
  OBVIOUS
<1>2. IsUpTo(U, surface, L)
  BY <1>1, UpToExists
<1>3. Fragments(surface) = U[L]
  BY DEF Fragments, IsUpTo
<1> HIDE DEF U
<1>4. \A i \in 0..L : U[i] = IF i = 0 THEN <<>> ELSE U[i - 1] \o FragmentsOf[surface[i]]
  BY <1>2 DEF IsUpTo
<1>5. \A i \in 1..L : FragmentsOf[surface[i]] \in Seq(AllFragments)
  BY WordFragments
<1> HIDE DEF L
<1> DEFINE S == {i \in Nat : i <= L => U[i] \in Seq(AllFragments)}
<1>6. 0 \in S
  <2>1. U[0] = <<>>
    BY <1>1, <1>4
  <2>2. <<>> \in Seq(AllFragments)
    OBVIOUS
  <2> QED
    BY <2>1, <2>2
<1>7. ASSUME NEW i \in Nat, i \in S, i + 1 <= L
      PROVE  U[i + 1] \in Seq(AllFragments)
  <2>1. i + 1 \in 1..L /\ i + 1 # 0 /\ (i + 1) - 1 = i /\ i + 1 \in 0..L
    BY <1>1, <1>7
  <2>2. U[i + 1] = U[i] \o FragmentsOf[surface[i + 1]]
    BY <1>4, <2>1
  <2>3. U[i] \in Seq(AllFragments) /\ FragmentsOf[surface[i + 1]] \in Seq(AllFragments)
    BY <1>1, <1>5, <1>7, <2>1
  <2> QED
    BY <2>2, <2>3, ConcatProperties
<1>8. \A i \in Nat : i \in S => i + 1 \in S
  BY <1>7
<1> HIDE DEF S
<1>9. L \in S
  BY <1>1, <1>6, <1>8, Induction
<1> QED
  BY <1>1, <1>3, <1>9 DEF S

\* What the sum is made of are numbers, and the bound is one.
Countable(c) ==
    /\ IsFiniteSet(c.shared) /\ IsFiniteSet(c.union) /\ c.union # {} /\ IsFiniteSet(c.related)
    /\ c.shape \in Nat
    /\ c.edit \in Nat /\ c.quick \in Nat /\ c.edit <= c.quick

LEMMA WeightType ==
    ASSUME NEW S, IsFiniteSet(S)
    PROVE  WeightOf(S) \in Nat
<1>1. IsFiniteSet(S \cap BroadFragments) /\ IsFiniteSet(S \ BroadFragments)
  BY FS_Intersection, FS_Difference
<1>2. Cardinality(S \cap BroadFragments) \in Nat /\ Cardinality(S \ BroadFragments) \in Nat
  BY <1>1, FS_CardinalityType
<1> QED
  BY <1>2 DEF WeightOf, BroadWeight, NarrowWeight

LEMMA ExtremesOfPairs ==
    ASSUME NEW a \in Int, NEW b \in Int
    PROVE  /\ Max({a, b}) = IF a >= b THEN a ELSE b
           /\ Min({a, b}) = IF a <= b THEN a ELSE b
<1>1. Max({a, b}) = IF a >= b THEN a ELSE b
  BY DEF Max
<1>2. Min({a, b}) = IF a <= b THEN a ELSE b
  BY DEF Min
<1> QED
  BY <1>1, <1>2

\* The more alike the spelling, the higher the confidence.
LEMMA ConfidenceRises ==
    ASSUME NEW c, Countable(c), NEW e \in Nat, NEW q \in Nat, e <= q
    PROVE  /\ Confidence(c, e) \in Int /\ Confidence(c, q) \in Int
           /\ Confidence(c, e) <= Confidence(c, q)
<1> DEFINE a == (3400 * WeightOf(c.shared)) \div Max({WeightOf(c.union), 100})
           b == (1800 * Cardinality(c.shared)) \div Cardinality(c.union)
           p == IF c.same_prefix THEN 800 ELSE 0
           s == IF c.same_suffix THEN 1000 ELSE 0
           h == (8 * c.shape) \div 100
           r == Min({2500, 1250 * Cardinality(c.related)})
<1>1. /\ WeightOf(c.shared) \in Nat /\ WeightOf(c.union) \in Nat
      /\ Cardinality(c.shared) \in Nat /\ Cardinality(c.related) \in Nat
      /\ Cardinality(c.union) \in Nat \ {0}
  BY WeightType, FS_CardinalityType, FS_EmptySet DEF Countable
<1>2. a \in Int
  <2>1. Max({WeightOf(c.union), 100}) \in Nat \ {0}
    BY <1>1, ExtremesOfPairs
  <2> QED
    BY <1>1, <2>1
<1>3. b \in Int
  BY <1>1
<1>4. p \in Int /\ s \in Int
  OBVIOUS
<1>5. h \in Int
  BY DEF Countable
<1>6. r \in Int
  <2> DEFINE n == 1250 * Cardinality(c.related)
  <2>1. n \in Int /\ r = Min({2500, n})
    BY <1>1
  <2> HIDE DEF n, r
  <2>2. \A x, y \in Int : Min({x, y}) \in Int
    BY ExtremesOfPairs
  <2>3. Min({2500, n}) \in Int
    BY <2>1, <2>2
  <2> QED
    BY <2>1, <2>3
<1>7. (24 * e) \div 100 \in Int /\ (24 * q) \div 100 \in Int /\ (24 * e) \div 100 <= (24 * q) \div 100
  OBVIOUS
<1>8. ASSUME NEW x
      PROVE  Confidence(c, x) = a + b + (24 * x) \div 100 + p + s + h + r
  BY DEF Confidence
<1> HIDE DEF a, b, p, s, h, r
<1> QED
  BY <1>2, <1>3, <1>4, <1>5, <1>6, <1>7, <1>8

\* What the bound decides, comparing the spelling would have decided.
LEMMA NothingLost ==
    ASSUME NEW c, Countable(c)
    PROVE  ~LostBySkipping(c)
<1>1. /\ c.edit \in Nat /\ c.quick \in Nat /\ c.edit <= c.quick
      /\ Confidence(c, c.edit) \in Int /\ Confidence(c, c.quick) \in Int
      /\ Confidence(c, c.edit) <= Confidence(c, c.quick)
  BY ConfidenceRises DEF Countable
<1>2. ASSUME ~CheapReasons(c), c.quick < 5800
      PROVE  ~HasReasons(c)
  BY <1>1, <1>2 DEF HasReasons
<1>3. ASSUME Confidence(c, c.quick) < MinConfidence
      PROVE  ~(FinalConfidence(c) >= MinConfidence)
  <2> DEFINE x == Confidence(c, c.edit) - Penalty(c)
  <2>1. x \in Int /\ x < MinConfidence
    BY <1>1, <1>3 DEF Penalty, MinConfidence
  <2> HIDE DEF x
  <2>2. Min({10000, x}) \in Int /\ Min({10000, x}) <= x
    BY <2>1, ExtremesOfPairs
  <2>3. Max({0, Min({10000, x})}) < MinConfidence
    BY <2>1, <2>2, ExtremesOfPairs DEF MinConfidence
  <2>4. FinalConfidence(c) = Max({0, Min({10000, x})})
    BY DEF FinalConfidence, x
  <2>5. Max({0, Min({10000, x})}) \in Int
    BY <2>2, ExtremesOfPairs
  <2> HIDE DEF x
  <2> QED
    BY <2>3, <2>4, <2>5 DEF MinConfidence
<1> QED
  BY <1>2, <1>3 DEF LostBySkipping, Skipped, Suggestible

\* Of an identifier and a surface of the lexicon the bound is one.
LEMMA ComparisonCountable ==
    ASSUME NEW w \in Identifiers, NEW k \in KnownSurfaces({}, TRUE)
    PROVE  Countable(Comparison(w, k.surface))
<1> DEFINE query == FragmentsOf[w]
           target == Fragments(k.surface)
           same == SurfaceShape(<<w>>) = SurfaceShape(k.surface)
<1>1. query \in Seq(AllFragments) /\ Len(query) > 1
  BY WordFragments DEF Identifiers, IsIdentifier
<1>2. target \in Seq(AllFragments)
  BY LikenessAssumption, FragmentsType
<1>3. /\ EditRatio[<<query, target>>] \in Nat /\ QuickRatio[<<query, target>>] \in Nat
      /\ EditRatio[<<query, target>>] <= QuickRatio[<<query, target>>]
  <2>1. <<query, target>> \in DOMAIN EditRatio
    BY LikenessAssumption
  <2> HIDE DEF query, target
  <2> QED
    BY <2>1, RatioAssumption
<1>4. Comparison(w, k.surface) = FragmentComparison(query, target, same)
  BY DEF Comparison
<1> HIDE DEF query, target, same
<1>5. IsFiniteSet(ToSet(query)) /\ IsFiniteSet(ToSet(target)) /\ ToSet(query) # {}
  <2>1. query[1] \in ToSet(query)
    BY <1>1 DEF ToSet
  <2> QED
    BY <1>1, <1>2, <2>1, SequenceIsFinite
<1>6. /\ IsFiniteSet(ToSet(query) \cap ToSet(target))
      /\ IsFiniteSet(ToSet(query) \cup ToSet(target))
      /\ ToSet(query) \cup ToSet(target) # {}
  BY <1>5, FS_Intersection, FS_Union
<1>7. IsFiniteSet(RelatedMatches(query, target))
  <2>1. IsFiniteSet(ToSet(query) \X ToSet(target))
    BY <1>5, FS_Product
  <2>2. RelatedMatches(query, target) \in SUBSET (ToSet(query) \X ToSet(target))
    BY DEF RelatedMatches
  <2> QED
    BY <2>1, <2>2, FS_Subset
<1>8. ShapeSimilarity(query, target, same) \in Nat
  BY DEF ShapeSimilarity, SizeSimilarity
<1> QED
  BY <1>3, <1>4, <1>6, <1>7, <1>8 DEF FragmentComparison, Countable

\* The files have contents they may have.
WorkInv == work \in Trees

LEMMA WorkStays == WorkInv /\ [GateNext]_gateVars => WorkInv'
<1> SUFFICES ASSUME work \in Trees, [GateNext]_gateVars
             PROVE  work' \in Trees
  BY DEF WorkInv, Trees
<1>1. ASSUME NEW path \in Paths, Rewrite(path)
      PROVE  work' \in Trees
  BY <1>1 DEF Rewrite, Trees
<1>2. ASSUME Commit \/ CheckMerge \/ Merge \/ CreateBaseline \/ UNCHANGED gateVars
      PROVE  work' = work
  BY <1>2 DEF Commit, CheckMerge, Merge, CreateBaseline, gateVars
<1>3. ASSUME NEW flag \in BOOLEAN, LintDiff(flag) \/ UpdateBaseline(flag)
      PROVE  work' = work
  BY <1>3 DEF LintDiff, UpdateBaseline
<1> QED
  BY <1>1, <1>2, <1>3 DEF GateNext

\* No identifier of a tree loses a suggestion.
LEMMA TreesLoseNothing == WorkInv => SkipsAreLossless
<1> SUFFICES ASSUME work \in Trees, NEW p \in Paths, NEW i \in DOMAIN work[p],
                    NEW w \in UnknownIdentifierSurfaces(work[p][i].text),
                    NEW k \in KnownSurfaces({}, TRUE)
             PROVE  ~SkipLoses(w, k)
  BY DEF SkipsAreLossless, WorkInv
<1>1. work[p] \in FileTexts[p] /\ p \in DOMAIN FileTexts
  BY DEF Trees, Paths
<1>2. ToSet(work[p][i].text) \subseteq DOMAIN FragmentsOf
  BY <1>1, TextsAssumption
<1>3. w \in ToSet(work[p][i].text) /\ IsIdentifier(w)
  BY DEF UnknownIdentifierSurfaces, ToSet
<1>4. w \in Identifiers
  BY <1>2, <1>3 DEF Identifiers
<1> QED
  BY <1>4, ComparisonCountable, NothingLost DEF SkipLoses

\* SkipsAreLossless of the gate and of scans: an identifier whose comparison with a
\* surface of the lexicon is given up by the bound of its likeness would not have been
\* suggested had it been compared, whatever the words and however alike they are.
THEOREM SkippingIsLossless ==
    /\ GateSpec => []SkipsAreLossless
    /\ ScanSpec => []SkipsAreLossless
<1>1. GateInit => WorkInv
  BY DEF GateInit, WorkInv
<1>2. GateSpec => []SkipsAreLossless
  BY <1>1, WorkStays, TreesLoseNothing, PTL DEF GateSpec
<1>3. ScanInv => SkipsAreLossless
  BY TreesLoseNothing DEF ScanInv, WorkInv
<1>4. ScanSpec => []SkipsAreLossless
  BY <1>3, ScanInvInit, ScanInvStep, PTL DEF ScanSpec
<1> QED
  BY <1>2, <1>4

-----------------------------------------------------------------------------
(* The edits of a file.                                                    *)

\* What an edit does.
Ops == {"keep", "cut", "add"}

\* Edits from the i-th line of one file and the j-th of another to the ends of both: old and
\* new are how many lines of each there have been.
Leads(e, old, new, a, b) ==
    \A k \in 1..Len(e) :
        /\ e[k].op \in Ops
        /\ a[k] = a[k - 1] + (IF e[k].op = "add" THEN 0 ELSE 1)
        /\ b[k] = b[k - 1] + (IF e[k].op = "cut" THEN 0 ELSE 1)
        /\ e[k].op # "add" => a[k] \in DOMAIN old /\ e[k].line = old[a[k]]
        /\ e[k].op # "cut" => b[k] \in DOMAIN new /\ e[k].line = new[b[k]]

\* Such edits, with those counts.
Script(e, old, new, i, j) ==
    \E a, b \in [0..Len(e) -> Nat] :
        /\ a[0] = i - 1 /\ b[0] = j - 1
        /\ a[Len(e)] = Len(old) /\ b[Len(e)] = Len(new)
        /\ Leads(e, old, new, a, b)

\* Edits of such lines.
EditsOver(X) == [op : Ops, line : X]

\* A function of the numbers up to n is a sequence of that length.
LEMMA FunctionIsSequence ==
    ASSUME NEW S, NEW n \in Nat, NEW f \in [1..n -> S]
    PROVE  f \in Seq(S) /\ Len(f) = n
OBVIOUS

\* The place before one that is not the first.
LEMMA PlaceBefore ==
    ASSUME NEW n \in Nat, NEW k \in 1..1 + n, k # 1
    PROVE  k - 1 \in 1..n /\ k \in 2..n + 1 /\ k \in 1..n + 1 /\ k - 1 \in 1..n + 1
OBVIOUS

\* An edit before edits that go on where it ends.
LEMMA ScriptGrows ==
    ASSUME NEW X, NEW old \in Seq(X), NEW new \in Seq(X), NEW op \in Ops, NEW line \in X,
           NEW i \in 1..Len(old) + 1, NEW j \in 1..Len(new) + 1, NEW e \in Seq(EditsOver(X)),
           Script(e, old, new, i + (IF op = "add" THEN 0 ELSE 1), j + (IF op = "cut" THEN 0 ELSE 1)),
           op # "add" => i \in DOMAIN old /\ line = old[i],
           op # "cut" => j \in DOMAIN new /\ line = new[j],
           NEW f, f = <<[op |-> op, line |-> line]>> \o e
    PROVE  f \in Seq(EditsOver(X)) /\ Script(f, old, new, i, j)
<1> DEFINE x == [op |-> op, line |-> line]
           n == Len(e)
<1>1. x \in EditsOver(X) /\ x.op = op /\ x.line = line
      BY DEF EditsOver
<1>2. n \in Nat
      OBVIOUS
<1> HIDE DEF x, n
<1>3. <<x>> \in Seq(EditsOver(X)) /\ Len(<<x>>) = 1 /\ <<x>>[1] = x
      BY <1>1
<1>4. /\ f \in Seq(EditsOver(X)) /\ Len(f) = 1 + n
      /\ \A k \in 1..1 + n : f[k] = IF k <= 1 THEN <<x>>[k] ELSE e[k - 1]
    <2>1. f = <<x>> \o e
          BY DEF x
    <2> QED  BY <1>3, <2>1, ConcatProperties DEF n
<1>5. f[1] = x /\ \A k \in 2..n + 1 : f[k] = e[k - 1]
      BY <1>2, <1>3, <1>4
<1> DEFINE da == IF op = "add" THEN 0 ELSE 1
           db == IF op = "cut" THEN 0 ELSE 1
<1>6. PICK a \in [0..n -> Nat], b \in [0..n -> Nat] :
          /\ a[0] = (i + da) - 1 /\ b[0] = (j + db) - 1
          /\ a[n] = Len(old) /\ b[n] = Len(new)
          /\ Leads(e, old, new, a, b)
    <2>1. Script(e, old, new, i + da, j + db)
          OBVIOUS
    <2> HIDE DEF da, db
    <2> QED  BY <2>1 DEF Script, n
<1>7. da \in Nat /\ db \in Nat /\ i - 1 \in Nat /\ j - 1 \in Nat
      BY DEF Ops
<1> DEFINE c == [k \in 0..n + 1 |-> IF k = 0 THEN i - 1 ELSE a[k - 1]]
           d == [k \in 0..n + 1 |-> IF k = 0 THEN j - 1 ELSE b[k - 1]]
<1>8. c \in [0..n + 1 -> Nat] /\ d \in [0..n + 1 -> Nat]
    <2>1. \A k \in 0..n + 1 : k # 0 => k - 1 \in 0..n
          BY <1>2
    <2> HIDE DEF da, db
    <2> QED  BY <1>7, <2>1
<1>9. /\ c[0] = i - 1 /\ d[0] = j - 1
      /\ \A k \in 1..n + 1 : c[k] = a[k - 1] /\ d[k] = b[k - 1]
    <2>1. 0 \in 0..n + 1 /\ \A k \in 1..n + 1 : k \in 0..n + 1 /\ k # 0
          BY <1>2
    <2> QED  BY <2>1
<1> HIDE DEF c, d
<1>10. c[n + 1] = Len(old) /\ d[n + 1] = Len(new)
    <2>1. n + 1 \in 1..n + 1 /\ (n + 1) - 1 = n
          BY <1>2
    <2> QED  BY <1>6, <1>9, <2>1
<1>11. ASSUME NEW k \in 1..Len(f)
       PROVE  /\ f[k].op \in Ops
              /\ c[k] = c[k - 1] + (IF f[k].op = "add" THEN 0 ELSE 1)
              /\ d[k] = d[k - 1] + (IF f[k].op = "cut" THEN 0 ELSE 1)
              /\ f[k].op # "add" => c[k] \in DOMAIN old /\ f[k].line = old[c[k]]
              /\ f[k].op # "cut" => d[k] \in DOMAIN new /\ f[k].line = new[d[k]]
    <2>1. CASE k = 1
        <3>1. c[1] = (i - 1) + da /\ d[1] = (j - 1) + db
            <4>1. c[1] = a[0] /\ d[1] = b[0]
                <5>1. 1 \in 1..n + 1 /\ 1 - 1 = 0
                      BY <1>2
                <5> QED  BY <1>9, <5>1
            <4>2. (i + da) - 1 = (i - 1) + da /\ (j + db) - 1 = (j - 1) + db
                  BY <1>7
            <4> QED  BY <1>6, <4>1, <4>2
        <3>2. f[k].op = op /\ f[k].line = line
              BY <1>1, <1>5, <2>1
        <3>3. c[k - 1] = i - 1 /\ d[k - 1] = j - 1
              BY <1>9, <2>1
        <3>4. op # "add" => c[1] = i
              BY <3>1
        <3>5. op # "cut" => d[1] = j
              BY <3>1
        <3> QED  BY <2>1, <3>1, <3>2, <3>3, <3>4, <3>5
    <2>2. CASE k # 1
        <3> DEFINE l == k - 1
        <3>1. l \in 1..n /\ k \in 2..n + 1 /\ k \in 1..n + 1 /\ l \in 1..n + 1
            <4>1. k \in 1..1 + n
                  BY <1>4
            <4> HIDE DEF n
            <4> QED  BY <1>2, <2>2, <4>1, PlaceBefore
        <3>2. f[k] = e[l] /\ c[k] = a[l] /\ d[k] = b[l] /\ c[l] = a[l - 1] /\ d[l] = b[l - 1]
              BY <1>5, <1>9, <3>1
        <3> HIDE DEF l
        <3>3. /\ e[l].op \in Ops
              /\ a[l] = a[l - 1] + (IF e[l].op = "add" THEN 0 ELSE 1)
              /\ b[l] = b[l - 1] + (IF e[l].op = "cut" THEN 0 ELSE 1)
              /\ e[l].op # "add" => a[l] \in DOMAIN old /\ e[l].line = old[a[l]]
              /\ e[l].op # "cut" => b[l] \in DOMAIN new /\ e[l].line = new[b[l]]
              BY <1>6, <3>1 DEF Leads, n
        <3> QED  BY <3>2, <3>3 DEF l
    <2> QED  BY <2>1, <2>2
<1>12. Leads(f, old, new, c, d)
      BY <1>11 DEF Leads
<1>13. Len(f) = n + 1
      BY <1>2, <1>4
<1> HIDE DEF n
<1>14. Script(f, old, new, i, j)
      BY <1>8, <1>9, <1>10, <1>12, <1>13 DEF Script
<1> QED  BY <1>4, <1>14

\* All that is left of the new file is added.
LEMMA ScriptOfAdds ==
    ASSUME NEW X, NEW old \in Seq(X), NEW new \in Seq(X), NEW j \in 1..Len(new) + 1, NEW f,
           f = [k \in 1..(Len(new) - j) + 1 |-> [op |-> "add", line |-> new[(j + k) - 1]]]
    PROVE  f \in Seq(EditsOver(X)) /\ Script(f, old, new, Len(old) + 1, j)
<1> DEFINE n == (Len(new) - j) + 1
           a == [k \in 0..n |-> Len(old)]
           b == [k \in 0..n |-> j - 1 + k]
<1>1. n \in Nat /\ Len(old) \in Nat /\ Len(new) \in Nat /\ j - 1 \in Nat
      OBVIOUS
<1>2. \A k \in 1..n : (j + k) - 1 \in 1..Len(new) /\ (j + k) - 1 = j - 1 + k
      OBVIOUS
<1>3. f \in Seq(EditsOver(X)) /\ Len(f) = n
    <2> DEFINE g(k) == [op |-> "add", line |-> new[(j + k) - 1]]
    <2>1. \A k \in 1..n : g(k) \in EditsOver(X)
          BY <1>2 DEF EditsOver, Ops
    <2>2. f = [k \in 1..n |-> g(k)]
          OBVIOUS
    <2> HIDE DEF n, g
    <2>3. f \in [1..n -> EditsOver(X)]
          BY <2>1, <2>2
    <2> QED  BY <1>1, <2>3, FunctionIsSequence
<1>4. \A k \in 1..n : f[k].op = "add" /\ f[k].line = new[(j + k) - 1]
      OBVIOUS
<1> HIDE DEF n
<1>5. a \in [0..n -> Nat] /\ b \in [0..n -> Nat]
    <2>1. \A k \in 0..n : j - 1 + k \in Nat
          BY <1>1
    <2> QED  BY <1>1, <2>1
<1>6. /\ a[0] = (Len(old) + 1) - 1 /\ b[0] = j - 1 /\ a[n] = Len(old) /\ b[n] = Len(new)
    <2>1. 0 \in 0..n /\ n \in 0..n
          BY <1>1
    <2>2. a[0] = Len(old) /\ b[0] = j - 1 + 0 /\ a[n] = Len(old) /\ b[n] = j - 1 + n
          BY <2>1
    <2> HIDE DEF a, b
    <2> QED  BY <1>1, <2>2 DEF n
<1>7. Leads(f, old, new, a, b)
    <2> SUFFICES ASSUME NEW k \in 1..n
                 PROVE  /\ f[k].op \in Ops
                        /\ a[k] = a[k - 1] + (IF f[k].op = "add" THEN 0 ELSE 1)
                        /\ b[k] = b[k - 1] + (IF f[k].op = "cut" THEN 0 ELSE 1)
                        /\ f[k].op # "add" => a[k] \in DOMAIN old /\ f[k].line = old[a[k]]
                        /\ f[k].op # "cut" => b[k] \in DOMAIN new /\ f[k].line = new[b[k]]
        BY <1>3 DEF Leads
    <2>1. k \in 0..n /\ k - 1 \in 0..n
          BY <1>1
    <2>2. a[k] = Len(old) /\ a[k - 1] = Len(old) /\ b[k] = j - 1 + k /\ b[k - 1] = j - 1 + (k - 1)
          BY <2>1
    <2> HIDE DEF a, b
    <2>3. f[k].op = "add" /\ f[k].line = new[(j + k) - 1]
          BY <1>4
    <2>4. b[k] = b[k - 1] + 1 /\ a[k] = a[k - 1] + 0 /\ b[k] \in DOMAIN new
        <3>1. j - 1 + k = j - 1 + (k - 1) + 1 /\ Len(old) = Len(old) + 0
              BY <1>1
        <3>2. j - 1 + k \in 1..Len(new)
              BY <1>2
        <3> QED  BY <2>2, <3>1, <3>2
    <2>5. f[k].line = new[b[k]]
          BY <1>2, <2>2, <2>3
    <2> QED  BY <2>3, <2>4, <2>5 DEF Ops
<1> HIDE DEF a, b
<1>8. \E c, d \in [0..Len(f) -> Nat] :
          /\ c[0] = (Len(old) + 1) - 1 /\ d[0] = j - 1
          /\ c[Len(f)] = Len(old) /\ d[Len(f)] = Len(new)
          /\ Leads(f, old, new, c, d)
      BY <1>3, <1>5, <1>6, <1>7
<1> QED  BY <1>3, <1>8 DEF Script

\* An edit of a line.
AnEdit(op, line) == [op |-> op, line |-> line]

\* One step of Edits, given what there is from the places after it.
EditsAt(old, new, from, at) ==
    LET i == at[1]
        j == at[2]
    IN  IF i > Len(old)
        THEN [k \in 1..Len(new) - j + 1 |-> AnEdit("add", new[j + k - 1])]
        ELSE IF j > Len(new) THEN <<AnEdit("cut", old[i])>> \o from[<<i + 1, j>>]
        ELSE IF old[i] = new[j] THEN <<AnEdit("keep", old[i])>> \o from[<<i + 1, j + 1>>]
        ELSE IF Len(from[<<i + 1, j>>]) <= Len(from[<<i, j + 1>>])
             THEN <<AnEdit("cut", old[i])>> \o from[<<i + 1, j>>]
        ELSE <<AnEdit("add", new[j])>> \o from[<<i, j + 1>>]

\* Places from which there are at most so many lines to the ends of both files.
Within(old, new, k) ==
    {at \in (1..Len(old) + 1) \X (1..Len(new) + 1) : (Len(old) + 1 - at[1]) + (Len(new) + 1 - at[2]) <= k}

\* The places an edit leads to are nearer to the ends of the files.
LEMMA PlacesAfter ==
    ASSUME NEW X, NEW old \in Seq(X), NEW new \in Seq(X), NEW k \in Nat,
           NEW i \in 1..Len(old) + 1, NEW j \in 1..Len(new) + 1,
           <<i, j>> \in Within(old, new, k + 1)
    PROVE  /\ i <= Len(old) => <<i + 1, j>> \in Within(old, new, k)
           /\ j <= Len(new) => <<i, j + 1>> \in Within(old, new, k)
           /\ i <= Len(old) /\ j <= Len(new) => <<i + 1, j + 1>> \in Within(old, new, k)
<1>1. Len(old) \in Nat /\ Len(new) \in Nat
      OBVIOUS
<1> DEFINE m == Len(old)
           n == Len(new)
<1> HIDE DEF m, n
<1>2. \A l, x, y : <<x, y>> \in Within(old, new, l) <=>
         x \in 1..m + 1 /\ y \in 1..n + 1 /\ (m + 1 - x) + (n + 1 - y) <= l
      BY DEF Within, m, n
<1>3. m \in Nat /\ n \in Nat /\ i \in 1..m + 1 /\ j \in 1..n + 1
      BY <1>1 DEF m, n
<1>4. (m + 1 - i) + (n + 1 - j) <= k + 1
      BY <1>2
<1>5. ASSUME i <= m
      PROVE  <<i + 1, j>> \in Within(old, new, k)
    <2>1. i + 1 \in 1..m + 1 /\ (m + 1 - (i + 1)) + (n + 1 - j) <= k
          BY <1>3, <1>4, <1>5
    <2> QED  BY <1>2, <1>3, <2>1
<1>6. ASSUME j <= n
      PROVE  <<i, j + 1>> \in Within(old, new, k)
    <2>1. j + 1 \in 1..n + 1 /\ (m + 1 - i) + (n + 1 - (j + 1)) <= k
          BY <1>3, <1>4, <1>6
    <2> QED  BY <1>2, <1>3, <2>1
<1>7. ASSUME i <= m, j <= n
      PROVE  <<i + 1, j + 1>> \in Within(old, new, k)
    <2>1. /\ i + 1 \in 1..m + 1 /\ j + 1 \in 1..n + 1
          /\ (m + 1 - (i + 1)) + (n + 1 - (j + 1)) <= k
          BY <1>3, <1>4, <1>7
    <2> QED  BY <1>2, <1>3, <2>1
<1> QED  BY <1>5, <1>6, <1>7 DEF m, n

\* Functions that are the same on P.
Alike(f, g, P) == \A x \in P : f[x] = g[x]

\* The edits from a place on are given by those from the places after it.
LEMMA EditsDependOnLater ==
    ASSUME NEW X, NEW old \in Seq(X), NEW new \in Seq(X), NEW k \in Nat, NEW f, NEW g,
           Alike(f, g, Within(old, new, k)), NEW at \in Within(old, new, k + 1)
    PROVE  EditsAt(old, new, f, at) = EditsAt(old, new, g, at)
<1>1. PICK i \in 1..Len(old) + 1, j \in 1..Len(new) + 1 : at = <<i, j>>
      BY DEF Within
<1>2. Len(old) \in Nat /\ Len(new) \in Nat /\ i \in Nat /\ j \in Nat
      OBVIOUS
<1>3. /\ i <= Len(old) => f[<<i + 1, j>>] = g[<<i + 1, j>>]
      /\ j <= Len(new) => f[<<i, j + 1>>] = g[<<i, j + 1>>]
      /\ i <= Len(old) /\ j <= Len(new) => f[<<i + 1, j + 1>>] = g[<<i + 1, j + 1>>]
      BY <1>1, PlacesAfter DEF Alike
<1>4. (~(i > Len(old)) => i <= Len(old)) /\ (~(j > Len(new)) => j <= Len(new))
      BY <1>2
<1>5. at[1] = i /\ at[2] = j
      BY <1>1
<1> QED  BY <1>3, <1>4, <1>5 DEF EditsAt

\* The function of which Edits is the first value.
AreEdits(f, old, new) ==
    f = [at \in (1..Len(old) + 1) \X (1..Len(new) + 1) |-> EditsAt(old, new, f, at)]

\* There is a function that gives the edits from every place on.
LEMMA EditsExist ==
    ASSUME NEW X, NEW old \in Seq(X), NEW new \in Seq(X)
    PROVE  \E f : AreEdits(f, old, new)
<1> DEFINE Solves(f, k) == f = [at \in Within(old, new, k) |-> EditsAt(old, new, f, at)]
           S == {k \in Nat : \E f : Solves(f, k)}
<1>1. Len(old) \in Nat /\ Len(new) \in Nat
      OBVIOUS
<1>2. 0 \in S
    <2> DEFINE f == [at \in Within(old, new, 0) |-> EditsAt(old, new, <<>>, at)]
    <2>1. ASSUME NEW at \in Within(old, new, 0)
          PROVE  EditsAt(old, new, f, at) = EditsAt(old, new, <<>>, at)
        <3>1. at[1] > Len(old)
              BY <1>1 DEF Within
        <3> HIDE DEF f
        <3> QED  BY <3>1 DEF EditsAt
    <2>2. f = [at \in Within(old, new, 0) |-> EditsAt(old, new, <<>>, at)]
          OBVIOUS
    <2> HIDE DEF f
    <2>3. f = [at \in Within(old, new, 0) |-> EditsAt(old, new, f, at)]
          BY <2>1, <2>2
    <2> QED  BY <2>3
<1>3. ASSUME NEW k \in Nat, k \in S
      PROVE  k + 1 \in S
    <2>1. PICK f : Solves(f, k)
          BY <1>3
    <2> DEFINE g == [at \in Within(old, new, k + 1) |-> EditsAt(old, new, f, at)]
    <2>2. Within(old, new, k) \subseteq Within(old, new, k + 1)
          BY <1>1 DEF Within
    <2>3. ASSUME NEW at \in Within(old, new, k)
          PROVE  f[at] = g[at]
        <3>1. f = [x \in Within(old, new, k) |-> EditsAt(old, new, f, x)]
              BY <2>1
        <3>2. f[at] = EditsAt(old, new, f, at)
            <4> DEFINE B(x) == EditsAt(old, new, f, x)
            <4>1. f = [x \in Within(old, new, k) |-> B(x)]
                  BY <3>1
            <4> HIDE DEF B
            <4>2. f[at] = B(at)
                  BY <4>1
            <4> QED  BY <4>2 DEF B
        <3> QED  BY <2>2, <3>2
    <2>4. g = [at \in Within(old, new, k + 1) |-> EditsAt(old, new, f, at)]
          OBVIOUS
    <2> HIDE DEF g, Solves
    <2>5. ASSUME NEW at \in Within(old, new, k + 1)
          PROVE  EditsAt(old, new, f, at) = EditsAt(old, new, g, at)
        <3>1. Alike(f, g, Within(old, new, k))
              BY <2>3 DEF Alike
        <3> HIDE DEF S
        <3> QED  BY <3>1, EditsDependOnLater
    <2>6. g = [at \in Within(old, new, k + 1) |-> EditsAt(old, new, g, at)]
          BY <2>4, <2>5
    <2> QED  BY <2>6 DEF Solves
<1>4. \A k \in Nat : k \in S
    <2> HIDE DEF S
    <2> QED  BY <1>2, <1>3, Induction
<1>5. Len(old) + Len(new) \in S
      BY <1>1, <1>4
<1>6. Within(old, new, Len(old) + Len(new)) = (1..Len(old) + 1) \X (1..Len(new) + 1)
      BY <1>1 DEF Within
<1> QED  BY <1>5, <1>6 DEF AreEdits

\* What Edits gives is a script from one file to the other.
LEMMA EditsAreAScript ==
    ASSUME NEW X, NEW old \in Seq(X), NEW new \in Seq(X)
    PROVE  /\ Edits(old, new) \in Seq(EditsOver(X))
           /\ Script(Edits(old, new), old, new, 1, 1)
<1> DEFINE places == (1..Len(old) + 1) \X (1..Len(new) + 1)
           P(f) == f = [at \in places |-> EditsAt(old, new, f, at)]
           from == CHOOSE f : P(f)
           Good(i, j) == /\ from[<<i, j>>] \in Seq(EditsOver(X))
                         /\ Script(from[<<i, j>>], old, new, i, j)
           S == {k \in Nat : \A i \in 1..Len(old) + 1, j \in 1..Len(new) + 1 :
                                <<i, j>> \in Within(old, new, k) => Good(i, j)}
<1>1. Len(old) \in Nat /\ Len(new) \in Nat
      OBVIOUS
<1>2. P(from)
    <2>1. \E f : P(f)
        <3>1. PICK f : AreEdits(f, old, new)
              BY EditsExist
        <3>2. P(f)
              BY <3>1 DEF AreEdits
        <3> HIDE DEF P
        <3> QED  BY <3>2
    <2> HIDE DEF P
    <2> QED  BY <2>1
<1>3. Edits(old, new) = from[<<1, 1>>]
      BY Zenon DEF Edits, EditsAt, AnEdit
<1> HIDE DEF from
<1>4. ASSUME NEW i \in 1..Len(old) + 1, NEW j \in 1..Len(new) + 1
      PROVE  from[<<i, j>>] = EditsAt(old, new, from, <<i, j>>)
    <2> DEFINE B(at) == EditsAt(old, new, from, at)
    <2>1. from = [at \in places |-> B(at)]
          BY <1>2
    <2>2. <<i, j>> \in places
          OBVIOUS
    <2> HIDE DEF B, places
    <2>3. from[<<i, j>>] = B(<<i, j>>)
          BY <2>1, <2>2
    <2> QED  BY <2>3 DEF B
<1> HIDE DEF P
<1>5. ASSUME NEW i \in 1..Len(old) + 1, NEW j \in 1..Len(new) + 1, i > Len(old)
      PROVE  Good(i, j)
    <2>1. i = Len(old) + 1
          BY <1>1, <1>5
    <2>2. from[<<i, j>>] = [k \in 1..Len(new) - j + 1 |-> [op |-> "add", line |-> new[j + k - 1]]]
        <3>1. <<i, j>>[1] = i /\ <<i, j>>[2] = j
              OBVIOUS
        <3>2. from[<<i, j>>] = EditsAt(old, new, from, <<i, j>>)
              BY <1>4
        <3> HIDE DEF Good
        <3> QED  BY <1>5, <3>1, <3>2, Zenon DEF EditsAt, AnEdit
    <2>3. /\ from[<<i, j>>] \in Seq(EditsOver(X))
          /\ Script(from[<<i, j>>], old, new, Len(old) + 1, j)
        <3> DEFINE f == from[<<i, j>>]
        <3>1. f = [k \in 1..(Len(new) - j) + 1 |-> [op |-> "add", line |-> new[(j + k) - 1]]]
            <4>1. \A k \in Nat : (j + k) - 1 = j + k - 1
                  OBVIOUS
            <4>2. (Len(new) - j) + 1 = Len(new) - j + 1
                  BY <1>1
            <4> QED  BY <2>2, <4>1, <4>2
        <3> HIDE DEF f
        <3> QED  BY <3>1, ScriptOfAdds DEF f
    <2> QED  BY <2>1, <2>3
\* An edit and what follows it.
<1>6. ASSUME NEW i \in 1..Len(old) + 1, NEW j \in 1..Len(new) + 1, NEW op \in Ops, NEW line \in X,
             NEW k \in 1..Len(old) + 1, NEW l \in 1..Len(new) + 1, Good(k, l),
             k = i + (IF op = "add" THEN 0 ELSE 1), l = j + (IF op = "cut" THEN 0 ELSE 1),
             op # "add" => i \in DOMAIN old /\ line = old[i],
             op # "cut" => j \in DOMAIN new /\ line = new[j],
             from[<<i, j>>] = <<[op |-> op, line |-> line]>> \o from[<<k, l>>]
      PROVE  Good(i, j)
    <2> DEFINE e == from[<<k, l>>]
               f == from[<<i, j>>]
    <2>1. e \in Seq(EditsOver(X)) /\ Script(e, old, new, k, l) /\ f = <<[op |-> op, line |-> line]>> \o e
          BY <1>6
    <2> HIDE DEF e, f
    <2>2. f \in Seq(EditsOver(X)) /\ Script(f, old, new, i, j)
        <3>1. Script(e, old, new, i + (IF op = "add" THEN 0 ELSE 1), j + (IF op = "cut" THEN 0 ELSE 1))
              BY <1>6, <2>1
        <3> QED  BY <1>6, <2>1, <3>1, ScriptGrows
    <2> QED  BY <2>2 DEF f
<1> HIDE DEF Good
<1>7. 0 \in S
    <2>1. ASSUME NEW i \in 1..Len(old) + 1, NEW j \in 1..Len(new) + 1, <<i, j>> \in Within(old, new, 0)
          PROVE  Good(i, j)
        <3>1. i > Len(old)
              BY <1>1, <2>1, SMTT(30) DEF Within
        <3> QED  BY <1>5, <3>1
    <2> QED  BY <2>1
<1>8. ASSUME NEW h \in Nat, h \in S
      PROVE  h + 1 \in S
    <2> SUFFICES ASSUME NEW i \in 1..Len(old) + 1, NEW j \in 1..Len(new) + 1,
                        <<i, j>> \in Within(old, new, h + 1)
                 PROVE  Good(i, j)
        OBVIOUS
    <2>1. \A k \in 1..Len(old) + 1, l \in 1..Len(new) + 1 :
             <<k, l>> \in Within(old, new, h) => Good(k, l)
          BY <1>8
    <2> HIDE DEF S
    <2>2. /\ i <= Len(old) => <<i + 1, j>> \in Within(old, new, h)
          /\ j <= Len(new) => <<i, j + 1>> \in Within(old, new, h)
          /\ i <= Len(old) /\ j <= Len(new) => <<i + 1, j + 1>> \in Within(old, new, h)
          BY PlacesAfter
    <2>3. CASE i > Len(old)
          BY <1>5, <2>3
    <2>4. CASE i <= Len(old) /\ from[<<i, j>>] = <<AnEdit("cut", old[i])>> \o from[<<i + 1, j>>]
        <3>1. i + 1 \in 1..Len(old) + 1 /\ i \in DOMAIN old /\ old[i] \in X /\ j = j + 0
              BY <1>1, <2>4
        <3>2. Good(i + 1, j)
              BY <2>1, <2>2, <2>4, <3>1
        <3> QED  BY <1>6, <2>4, <3>1, <3>2 DEF Ops, AnEdit
    <2>5. CASE /\ i <= Len(old) /\ j <= Len(new) /\ old[i] = new[j]
               /\ from[<<i, j>>] = <<AnEdit("keep", old[i])>> \o from[<<i + 1, j + 1>>]
        <3>1. /\ i + 1 \in 1..Len(old) + 1 /\ i \in DOMAIN old /\ old[i] \in X
              /\ j + 1 \in 1..Len(new) + 1 /\ j \in DOMAIN new
              BY <1>1, <2>5
        <3>2. Good(i + 1, j + 1)
              BY <2>1, <2>2, <2>5, <3>1
        <3> QED  BY <1>6, <2>5, <3>1, <3>2 DEF Ops, AnEdit
    <2>6. CASE j <= Len(new) /\ from[<<i, j>>] = <<AnEdit("add", new[j])>> \o from[<<i, j + 1>>]
        <3>1. j + 1 \in 1..Len(new) + 1 /\ j \in DOMAIN new /\ new[j] \in X /\ i = i + 0
              BY <1>1, <2>6
        <3>2. Good(i, j + 1)
              BY <2>1, <2>2, <2>6, <3>1
        <3> QED  BY <1>6, <2>6, <3>1, <3>2 DEF Ops, AnEdit
    <2>7. \/ i > Len(old)
          \/ i <= Len(old) /\ from[<<i, j>>] = <<AnEdit("cut", old[i])>> \o from[<<i + 1, j>>]
          \/ /\ i <= Len(old) /\ j <= Len(new) /\ old[i] = new[j]
             /\ from[<<i, j>>] = <<AnEdit("keep", old[i])>> \o from[<<i + 1, j + 1>>]
          \/ j <= Len(new) /\ from[<<i, j>>] = <<AnEdit("add", new[j])>> \o from[<<i, j + 1>>]
        <3>1. from[<<i, j>>] = EditsAt(old, new, from, <<i, j>>)
              BY <1>4
        <3>2. (i > Len(old) \/ i <= Len(old)) /\ (j > Len(new) \/ j <= Len(new))
              BY <1>1
        <3> QED  BY <3>1, <3>2 DEF EditsAt
    <2> QED  BY <2>3, <2>4, <2>5, <2>6, <2>7
<1>9. \A k \in Nat : k \in S
    <2> HIDE DEF S
    <2> QED  BY <1>7, <1>8, Induction
<1>10. Good(1, 1)
    <2>1. <<1, 1>> \in Within(old, new, Len(old) + Len(new))
          BY <1>1 DEF Within
    <2>2. 1 \in 1..Len(old) + 1 /\ 1 \in 1..Len(new) + 1 /\ Len(old) + Len(new) \in S
          BY <1>1, <1>9
    <2> QED  BY <2>1, <2>2
<1> QED  BY <1>3, <1>10 DEF Good

-----------------------------------------------------------------------------
(* Reading.                                                                *)

\* What is read so far, line by line.
IsReading(f, reader, raws, selected) ==
    /\ f[0] = reader
    /\ \A i \in 1..Len(raws) : f[i] = ReadLine(f[i - 1], raws[i], selected)

\* There is a function that gives what is read after each line.
LEMMA ReadingExists ==
    ASSUME NEW R, NEW raws \in Seq(R), NEW reader, NEW selected
    PROVE  \E f : IsReading(f, reader, raws, selected)
<1> DEFINE n == Len(raws)
           Reads(f, k) == /\ f[0] = reader
                          /\ \A i \in 1..k : i <= n => f[i] = ReadLine(f[i - 1], raws[i], selected)
           S == {k \in Nat : \E f : Reads(f, k)}
<1>1. n \in Nat
      OBVIOUS
<1> HIDE DEF n
<1>2. 0 \in S
    <2> DEFINE f == [i \in {0} |-> reader]
    <2>1. f[0] = reader
          OBVIOUS
    <2> HIDE DEF f
    <2>2. Reads(f, 0)
          BY <2>1
    <2> QED  BY <2>2
<1>3. ASSUME NEW k \in Nat, k \in S
      PROVE  k + 1 \in S
    <2>1. PICK f : Reads(f, k)
          BY <1>3
    <2> DEFINE g == [i \in 0..k + 1 |-> IF i <= k THEN f[i]
                                        ELSE ReadLine(f[k], raws[k + 1], selected)]
    <2>2. /\ \A i \in 0..k : g[i] = f[i]
          /\ g[k + 1] = ReadLine(f[k], raws[k + 1], selected)
          OBVIOUS
    <2> HIDE DEF g
    <2>3. g[0] = reader
          BY <2>1, <2>2
    <2>4. ASSUME NEW i \in 1..k + 1, i <= n
          PROVE  g[i] = ReadLine(g[i - 1], raws[i], selected)
        <3>1. CASE i <= k
            <4>1. i \in 1..k /\ i \in 0..k /\ i - 1 \in 0..k
                  BY <3>1
            <4> QED  BY <2>1, <2>2, <2>4, <4>1
        <3>2. CASE ~(i <= k)
            <4>1. i = k + 1 /\ i - 1 = k /\ k \in 0..k
                  BY <3>2
            <4> QED  BY <2>2, <4>1
        <3> QED  BY <3>1, <3>2
    <2>5. Reads(g, k + 1)
          BY <2>3, <2>4
    <2> HIDE DEF Reads
    <2> QED  BY <2>5
<1>4. \A k \in Nat : k \in S
    <2> HIDE DEF S
    <2> QED  BY <1>2, <1>3, Induction
<1>5. PICK f : Reads(f, n)
      BY <1>1, <1>4
<1>6. IsReading(f, reader, raws, selected)
      BY <1>1, <1>5 DEF IsReading, n
<1> QED  BY <1>6

\* What is read in the end is its last value.
LEMMA ReadingIs ==
    ASSUME NEW R, NEW raws \in Seq(R), NEW reader, NEW selected, NEW f,
           IsReading(f, reader, raws, selected)
    PROVE  ReadLines(reader, raws, selected) = f[Len(raws)]
<1> DEFINE n == Len(raws)
           P(g) == g = [i \in 0..n |-> IF i = 0 THEN reader ELSE ReadLine(g[i - 1], raws[i], selected)]
           after == CHOOSE g : P(g)
           S == {k \in Nat : k <= n => after[k] = f[k]}
<1>1. n \in Nat
      OBVIOUS
<1>2. P(after)
    <2> DEFINE g == [i \in 0..n |-> f[i]]
               B(i) == IF i = 0 THEN reader ELSE ReadLine(g[i - 1], raws[i], selected)
    <2>1. \A i \in 0..n : g[i] = f[i]
          OBVIOUS
    <2>2. g = [i \in 0..n |-> g[i]]
          OBVIOUS
    <2> HIDE DEF g
    <2>3. ASSUME NEW i \in 0..n
          PROVE  g[i] = B(i)
        <3>1. CASE i = 0
              BY <1>1, <2>1, <3>1 DEF IsReading
        <3>2. CASE i # 0
            <4>1. i \in 1..Len(raws) /\ i - 1 \in 0..n
                  BY <1>1, <3>2
            <4> QED  BY <2>1, <3>2, <4>1 DEF IsReading
        <3> QED  BY <3>1, <3>2
    <2> HIDE DEF B
    <2>4. g = [i \in 0..n |-> B(i)]
          BY <2>2, <2>3
    <2>5. P(g)
          BY <2>4 DEF B
    <2> HIDE DEF P
    <2> QED  BY <2>5
<1>3. ReadLines(reader, raws, selected) = after[n]
      BY Zenon DEF ReadLines
<1> HIDE DEF after, n
<1>4. ASSUME NEW i \in 0..n
      PROVE  after[i] = IF i = 0 THEN reader ELSE ReadLine(after[i - 1], raws[i], selected)
    <2> DEFINE B(j) == IF j = 0 THEN reader ELSE ReadLine(after[j - 1], raws[j], selected)
    <2>1. after = [j \in 0..n |-> B(j)]
          BY <1>2
    <2> HIDE DEF B
    <2>2. after[i] = B(i)
          BY <2>1
    <2> QED  BY <2>2 DEF B
<1> HIDE DEF P
<1>5. 0 \in S
    <2>1. 0 \in 0..n
          BY <1>1
    <2>2. after[0] = reader
          BY <1>4, <2>1
    <2> QED  BY <2>2 DEF IsReading
<1>6. ASSUME NEW k \in Nat, k \in S
      PROVE  k + 1 \in S
    <2> SUFFICES ASSUME k + 1 <= n
                 PROVE  after[k + 1] = f[k + 1]
        OBVIOUS
    <2>1. /\ k + 1 \in 0..n /\ k + 1 # 0 /\ (k + 1) - 1 = k /\ k <= n /\ k + 1 \in 1..n
          BY <1>1
    <2>2. after[k] = f[k]
          BY <1>6, <2>1
    <2>3. after[k + 1] = ReadLine(after[k], raws[k + 1], selected)
          BY <1>4, <2>1
    <2>4. f[k + 1] = ReadLine(f[k], raws[k + 1], selected)
          BY <2>1 DEF IsReading, n
    <2> QED  BY <2>2, <2>3, <2>4
<1>7. \A k \in Nat : k \in S
    <2> HIDE DEF S
    <2> QED  BY <1>5, <1>6, Induction
<1>8. after[n] = f[n]
      BY <1>1, <1>7
<1> QED  BY <1>3, <1>8 DEF n

\* Of no lines nothing is read.
LEMMA ReadNothing ==
    ASSUME NEW reader, NEW selected
    PROVE  ReadLines(reader, <<>>, selected) = reader
<1> DEFINE f == [i \in {0} |-> reader]
<1>1. f[0] = reader /\ Len(<<>>) = 0 /\ <<>> \in Seq({})
      OBVIOUS
<1> HIDE DEF f
<1>2. IsReading(f, reader, <<>>, selected)
      BY <1>1 DEF IsReading
<1> QED  BY <1>1, <1>2, ReadingIs

\* Of one line it is what ReadLine makes of it.
LEMMA ReadOne ==
    ASSUME NEW reader, NEW selected, NEW raw
    PROVE  ReadLines(reader, <<raw>>, selected) = ReadLine(reader, raw, selected)
<1> DEFINE f == [i \in {0, 1} |-> IF i = 0 THEN reader ELSE ReadLine(reader, raw, selected)]
<1>1. /\ f[0] = reader /\ f[1] = ReadLine(reader, raw, selected)
      /\ Len(<<raw>>) = 1 /\ <<raw>>[1] = raw /\ <<raw>> \in Seq({raw})
      OBVIOUS
<1> HIDE DEF f
<1>2. IsReading(f, reader, <<raw>>, selected)
      BY <1>1 DEF IsReading
<1> QED  BY <1>1, <1>2, ReadingIs

\* A diff is read part by part.
LEMMA ReadOn ==
    ASSUME NEW R, NEW raws \in Seq(R), NEW more \in Seq(R), NEW reader, NEW selected
    PROVE  ReadLines(reader, raws \o more, selected) =
               ReadLines(ReadLines(reader, raws, selected), more, selected)
<1> DEFINE m == Len(raws)
           n == Len(more)
           all == raws \o more
           first == ReadLines(reader, raws, selected)
<1>1. m \in Nat /\ n \in Nat
      OBVIOUS
<1>2. /\ all \in Seq(R) /\ Len(all) = m + n
      /\ \A i \in 1..m + n : all[i] = IF i <= m THEN raws[i] ELSE more[i - m]
      BY ConcatProperties
<1>3. PICK f : IsReading(f, reader, raws, selected)
      BY ReadingExists
<1>4. PICK g : IsReading(g, first, more, selected)
      BY ReadingExists
<1>5. first = f[m]
      BY <1>3, ReadingIs
<1> DEFINE h == [i \in 0..m + n |-> IF i <= m THEN f[i] ELSE g[i - m]]
<1>6. \A i \in 0..m + n : h[i] = IF i <= m THEN f[i] ELSE g[i - m]
      OBVIOUS
<1> HIDE DEF h, all, first, m, n
<1>7. /\ f[0] = reader
      /\ \A i \in 1..m : f[i] = ReadLine(f[i - 1], raws[i], selected)
      BY <1>3 DEF IsReading, m
<1>8. /\ g[0] = first
      /\ \A i \in 1..n : g[i] = ReadLine(g[i - 1], more[i], selected)
      BY <1>4 DEF IsReading, n
<1>9. h[0] = reader
      BY <1>1, <1>6, <1>7
<1>10. ASSUME NEW i \in 1..m + n
       PROVE  h[i] = ReadLine(h[i - 1], all[i], selected)
    <2>1. CASE i <= m
        <3>1. /\ i \in 1..m /\ i \in 0..m + n /\ i - 1 \in 0..m + n /\ i - 1 <= m
              BY <1>1, <2>1
        <3>2. h[i] = f[i] /\ h[i - 1] = f[i - 1] /\ all[i] = raws[i]
              BY <1>2, <1>6, <2>1, <3>1
        <3> QED  BY <1>7, <3>1, <3>2
    <2>2. CASE i = m + 1
        <3>1. /\ i \in 0..m + n /\ m \in 0..m + n /\ i - 1 = m /\ i - m = 1 /\ ~(i <= m)
              /\ 1 \in 1..n /\ m <= m /\ 1 - 1 = 0
              BY <1>1, <2>2
        <3>2. h[i] = g[1] /\ h[i - 1] = f[m] /\ all[i] = more[1]
              BY <1>2, <1>6, <3>1
        <3>3. g[1] = ReadLine(g[0], more[1], selected)
              BY <1>8, <3>1
        <3> QED  BY <1>5, <1>8, <3>2, <3>3
    <2>3. CASE i > m + 1
        <3> DEFINE l == i - m
        <3>1. /\ i \in 0..m + n /\ i - 1 \in 0..m + n /\ ~(i <= m) /\ ~(i - 1 <= m)
              /\ l \in 1..n /\ (i - 1) - m = l - 1
              BY <1>1, <2>3
        <3>2. h[i] = g[l] /\ h[i - 1] = g[l - 1] /\ all[i] = more[l]
              BY <1>2, <1>6, <3>1
        <3> HIDE DEF l
        <3> QED  BY <1>8, <3>1, <3>2
    <2> QED  BY <1>1, <2>1, <2>2, <2>3
<1>11. IsReading(h, reader, all, selected)
      BY <1>2, <1>9, <1>10 DEF IsReading
<1>12. ReadLines(reader, all, selected) = h[m + n]
      BY <1>2, <1>11, ReadingIs
<1>13. ReadLines(first, more, selected) = g[n]
      BY <1>4, ReadingIs DEF n
<1>14. h[m + n] = g[n]
    <2>1. CASE n = 0
        <3>1. m + n = m /\ m \in 0..m + n /\ m <= m
              BY <1>1, <2>1
        <3> QED  BY <1>5, <1>6, <1>8, <2>1, <3>1
    <2>2. CASE n # 0
        <3>1. m + n \in 0..m + n /\ ~(m + n <= m) /\ (m + n) - m = n
              BY <1>1, <2>2
        <3> QED  BY <1>6, <3>1
    <2> QED  BY <2>1, <2>2
<1> QED  BY <1>12, <1>13, <1>14 DEF all, first

\* A concatenation of sequences is their concatenation one by one.
LEMMA FlattenIs ==
    ASSUME NEW X, NEW s \in Seq(Seq(X))
    PROVE  \E g \in [0..Len(s) -> Seq(X)] :
              /\ g[0] = <<>>
              /\ \A i \in 1..Len(s) : g[i] = g[i - 1] \o s[i]
              /\ FlattenSeq(s) = g[Len(s)]
<1> DEFINE n == Len(s)
           P(g) == g = [i \in 1..n |-> IF i = 1 THEN s[i] ELSE g[i - 1] \o s[i]]
           Goes(g, k) == /\ g \in [0..k -> Seq(X)] /\ g[0] = <<>>
                         /\ \A i \in 1..k : i <= n => g[i] = g[i - 1] \o s[i]
           S == {k \in Nat : \E g : Goes(g, k)}
<1>1. n \in Nat /\ \A i \in 1..n : s[i] \in Seq(X)
      OBVIOUS
<1> HIDE DEF n
<1>2. 0 \in S
    <2> DEFINE g == [i \in 0..0 |-> <<>>]
    <2>1. g \in [0..0 -> Seq(X)] /\ g[0] = <<>>
          OBVIOUS
    <2> HIDE DEF g
    <2>2. Goes(g, 0)
          BY <2>1
    <2> QED  BY <2>2
<1>3. ASSUME NEW k \in Nat, k \in S
      PROVE  k + 1 \in S
    <2>1. PICK f : Goes(f, k)
          BY <1>3
    <2> DEFINE last == IF k + 1 <= n THEN f[k] \o s[k + 1] ELSE <<>>
               g == [i \in 0..k + 1 |-> IF i <= k THEN f[i] ELSE last]
    <2>2. last \in Seq(X)
        <3>1. f[k] \in Seq(X)
              BY <2>1
        <3>2. CASE k + 1 <= n
            <4>1. k + 1 \in 1..n
                  BY <1>1, <3>2
            <4>2. s[k + 1] \in Seq(X)
                  BY <1>1, <4>1
            <4> QED  BY <3>1, <3>2, <4>2, ConcatProperties
        <3>3. CASE ~(k + 1 <= n)
              BY <3>3
        <3> QED  BY <3>2, <3>3
    <2> HIDE DEF last
    <2>3. \A i \in 0..k : f[i] \in Seq(X)
          BY <2>1
    <2>4. g \in [0..k + 1 -> Seq(X)]
        <3>1. \A i \in 0..k + 1 : i <= k => i \in 0..k
              OBVIOUS
        <3> QED  BY <2>2, <2>3, <3>1
    <2>5. (\A i \in 0..k : g[i] = f[i]) /\ g[k + 1] = last
          OBVIOUS
    <2> HIDE DEF g
    <2>6. ASSUME NEW i \in 1..k + 1, i <= n
          PROVE  g[i] = g[i - 1] \o s[i]
        <3>1. CASE i <= k
            <4>1. i \in 1..k /\ i \in 0..k /\ i - 1 \in 0..k
                  BY <3>1
            <4> QED  BY <2>1, <2>5, <2>6, <4>1
        <3>2. CASE ~(i <= k)
            <4>1. i = k + 1 /\ i - 1 = k /\ k \in 0..k /\ k + 1 <= n
                  BY <2>6, <3>2
            <4> QED  BY <2>5, <4>1 DEF last
        <3> QED  BY <3>1, <3>2
    <2>7. g[0] = <<>>
          BY <2>1, <2>5
    <2>8. Goes(g, k + 1)
          BY <2>4, <2>6, <2>7
    <2> HIDE DEF Goes
    <2> QED  BY <2>8
<1>4. \A k \in Nat : k \in S
    <2> HIDE DEF S
    <2> QED  BY <1>2, <1>3, Induction
<1>5. PICK g : Goes(g, n)
      BY <1>1, <1>4
<1>6. /\ g \in [0..n -> Seq(X)] /\ g[0] = <<>>
      /\ \A i \in 1..n : g[i] = g[i - 1] \o s[i]
    <2>1. \A i \in 1..n : i <= n
          BY <1>1
    <2> QED  BY <1>5, <2>1
<1>7. FlattenSeq(s) = g[n]
    <2>1. CASE n = 0
        <3>1. s = <<>> /\ Len(s) = 0
              BY <2>1 DEF n
        <3>2. FlattenSeq(s) = s
              BY <3>1 DEF FlattenSeq
        <3> QED  BY <1>6, <2>1, <3>1, <3>2
    <2>2. CASE n # 0
        <3> DEFINE flatten == CHOOSE f : P(f)
                   T == {k \in Nat : k + 1 <= n => flatten[k + 1] = g[k + 1]}
        <3>1. g[1] = s[1]
            <4>1. 1 \in 1..n /\ 1 - 1 = 0
                  BY <1>1, <2>2
            <4>2. g[1] = <<>> \o s[1]
                  BY <1>6, <4>1
            <4> QED  BY <1>1, <4>1, <4>2, ConcatEmptySeq
        <3>2. P(flatten)
            <4> DEFINE f == [i \in 1..n |-> g[i]]
                       B(i) == IF i = 1 THEN s[i] ELSE f[i - 1] \o s[i]
            <4>1. \A i \in 1..n : f[i] = g[i]
                  OBVIOUS
            <4>2. f = [i \in 1..n |-> f[i]]
                  OBVIOUS
            <4> HIDE DEF f
            <4>3. ASSUME NEW i \in 1..n
                  PROVE  f[i] = B(i)
                <5>1. CASE i = 1
                      BY <3>1, <4>1, <5>1
                <5>2. CASE i # 1
                    <6>1. i - 1 \in 1..n
                          BY <1>1, <5>2
                    <6> QED  BY <1>6, <4>1, <5>2, <6>1
                <5> QED  BY <5>1, <5>2
            <4> HIDE DEF B
            <4>4. f = [i \in 1..n |-> B(i)]
                  BY <4>2, <4>3
            <4>5. P(f)
                  BY <4>4 DEF B
            <4> HIDE DEF P
            <4> QED  BY <4>5
        <3>3. FlattenSeq(s) = flatten[n]
            <4>1. Len(s) # 0
                  BY <2>2 DEF n
            <4>2. FlattenSeq(s) = (CHOOSE f : f = [i \in 1..Len(s) |->
                                      IF i = 1 THEN s[i] ELSE f[i - 1] \o s[i]])[Len(s)]
                  BY <4>1, Zenon DEF FlattenSeq
            <4> QED  BY <4>2, Zenon DEF n
        <3> HIDE DEF flatten
        <3>4. ASSUME NEW i \in 1..n
              PROVE  flatten[i] = IF i = 1 THEN s[i] ELSE flatten[i - 1] \o s[i]
            <4> DEFINE B(j) == IF j = 1 THEN s[j] ELSE flatten[j - 1] \o s[j]
            <4>1. flatten = [j \in 1..n |-> B(j)]
                  BY <3>2
            <4> HIDE DEF B
            <4>2. flatten[i] = B(i)
                  BY <4>1
            <4> QED  BY <4>2 DEF B
        <3> HIDE DEF P
        <3>5. 0 \in T
            <4>1. 0 + 1 = 1 /\ 1 \in 1..n
                  BY <1>1, <2>2
            <4> QED  BY <3>1, <3>4, <4>1
        <3>6. ASSUME NEW k \in Nat, k \in T
              PROVE  k + 1 \in T
            <4> SUFFICES ASSUME (k + 1) + 1 <= n
                         PROVE  flatten[(k + 1) + 1] = g[(k + 1) + 1]
                OBVIOUS
            <4> DEFINE l == (k + 1) + 1
            <4>1. l \in 1..n /\ l # 1 /\ l - 1 = k + 1 /\ k + 1 <= n
                  BY <1>1
            <4> HIDE DEF l
            <4>2. flatten[k + 1] = g[k + 1]
                  BY <3>6, <4>1
            <4>3. flatten[l] = flatten[l - 1] \o s[l] /\ g[l] = g[l - 1] \o s[l]
                  BY <1>6, <3>4, <4>1
            <4>4. flatten[l] = g[l]
                  BY <4>1, <4>2, <4>3
            <4> QED  BY <4>4 DEF l
        <3>7. \A k \in Nat : k \in T
            <4> HIDE DEF T
            <4> QED  BY <3>5, <3>6, Induction
        <3>8. n - 1 \in Nat /\ (n - 1) + 1 = n /\ n <= n
              BY <1>1, <2>2
        <3>9. flatten[(n - 1) + 1] = g[(n - 1) + 1]
              BY <3>7, <3>8
        <3> QED  BY <3>3, <3>8, <3>9
    <2> QED  BY <2>1, <2>2
<1> QED  BY <1>6, <1>7 DEF n

\* A prefix is what a sequence begins with, place by place.
LEMMA PrefixIs ==
    ASSUME NEW C, NEW s \in Seq(C), NEW t \in Seq(C)
    PROVE  IsPrefix(s, t) <=> Len(s) <= Len(t) /\ \A i \in 1..Len(s) : s[i] = t[i]
<1> DEFINE n == Len(s)
<1>1. n \in Nat /\ Len(t) \in Nat
      OBVIOUS
<1>2. ASSUME n <= Len(t)
      PROVE  SubSeq(s, 1, n) = SubSeq(t, 1, n) <=> \A i \in 1..n : s[i] = t[i]
    <2> DEFINE a == SubSeq(s, 1, n)
               b == SubSeq(t, 1, n)
    <2>1. 1 \in Int /\ n \in Int /\ \A i \in 1..n : s[i] \in C /\ t[i] \in C
          BY <1>1, <1>2
    <2>2. /\ a \in Seq(C) /\ b \in Seq(C)
          /\ (1 <= n => Len(a) = n /\ Len(b) = n)
          /\ (~(1 <= n) => Len(a) = 0 /\ Len(b) = 0)
          /\ \A i \in 1..n : a[i] = s[i] /\ b[i] = t[i]
        <3>1. CASE 1 <= n
            <4> HIDE DEF n
            <4>1. (n - 1) + 1 = n /\ \A i \in 1..n : (1 + i) - 1 = i
                  BY <1>1
            <4> QED  BY <1>1, <2>1, <3>1, <4>1, SubSeqProperties
        <3>2. CASE ~(1 <= n)
            <4>1. n = 0
                  BY <1>1, <3>2
            <4> QED  BY <1>1, <3>2, <4>1
        <3> QED  BY <3>1, <3>2
    <2> HIDE DEF a, b, n
    <2>3. Len(a) = Len(b) /\ Len(a) = n
          BY <1>1, <2>2
    <2>4. (\A i \in 1..n : s[i] = t[i]) => a = b
        <3>1. (\A i \in 1..n : a[i] = b[i]) => a = b
              BY <2>2, <2>3, SeqEqual
        <3> QED  BY <2>2, <3>1
    <2>5. a = b => \A i \in 1..n : s[i] = t[i]
          BY <2>2
    <2> QED  BY <2>4, <2>5 DEF a, b
<1> QED  BY <1>2 DEF IsPrefix

\* A sequence of one is a prefix when it is the first.
LEMMA SingleIs ==
    ASSUME NEW C, NEW x \in C, NEW t \in Seq(C)
    PROVE  IsPrefix(<<x>>, t) <=> 1 <= Len(t) /\ x = t[1]
<1> DEFINE s == <<x>>
<1>1. s \in Seq(C) /\ Len(s) = 1 /\ s[1] = x /\ \A i \in 1..1 : i = 1
      OBVIOUS
<1> HIDE DEF s
<1>2. IsPrefix(s, t) <=> Len(s) <= Len(t) /\ \A i \in 1..Len(s) : s[i] = t[i]
    <2>1. s \in Seq(C) /\ t \in Seq(C)
          BY <1>1
    <2> QED  BY <2>1, PrefixIs
<1>3. 1 \in 1..1
      OBVIOUS
<1>4. IsPrefix(s, t) <=> 1 <= Len(t) /\ x = t[1]
      BY <1>1, <1>2, <1>3
<1> QED  BY <1>4 DEF s

-----------------------------------------------------------------------------
(* The lines of a diff.                                                    *)

\* Characters and texts of files, and what git adds.
Heads(C) == Seq(C \cup {Space, "+", "-", "@", "d", "\\"})
\* Such lines of a diff.
Raws(C, T) == [head : Heads(C), text : T, path : T, start : Nat]

\* Lines of files.
LinesOver(C, T) == {Line(lead, text) : lead \in Seq(C), text \in T}

\* A line that is not taken for a header when a sign stands before it.
PlainLead(lead) == ~IsPrefix(<<"+", "+">>, lead) /\ ~IsPrefix(<<"-", "-">>, lead)

\* What a head of a diff line begins with.
LEMMA HeadsOfHeaders ==
    ASSUME NEW C
    PROVE  LET marks == <<"-", "-", "-", Space>>
               pluses == <<"+", "+", "+", Space>>
           IN  /\ IsPrefix(<<"d">>, <<"d">>)
               /\ ~IsPrefix(<<"d">>, marks) /\ ~IsPrefix(pluses, marks) /\ ~IsPrefix(<<"@">>, marks)
               /\ ~IsPrefix(<<"d">>, pluses) /\ IsPrefix(pluses, pluses)
               /\ ~IsPrefix(<<"d">>, <<"@">>) /\ ~IsPrefix(pluses, <<"@">>) /\ IsPrefix(<<"@">>, <<"@">>)
               /\ ~IsPrefix(<<"d">>, <<"\\">>) /\ ~IsPrefix(pluses, <<"\\">>) /\ ~IsPrefix(<<"@">>, <<"\\">>)
               /\ ~IsPrefix(<<"+">>, <<"\\">>) /\ IsPrefix(<<"\\">>, <<"\\">>)
               /\ {<<"d">>, marks, pluses, <<"@">>, <<"\\">>} \subseteq Heads(C)
<1> DEFINE S == C \cup {Space, "+", "-", "@", "d", "\\"}
           marks == <<"-", "-", "-", Space>>
           pluses == <<"+", "+", "+", Space>>
<1>1. /\ \A x \in S : <<x>> \in Seq(S) /\ Len(<<x>>) = 1 /\ <<x>>[1] = x
      /\ marks \in Seq(S) /\ Len(marks) = 4 /\ marks[1] = "-"
      /\ pluses \in Seq(S) /\ Len(pluses) = 4 /\ pluses[1] = "+"
      OBVIOUS
<1>2. {Space, "+", "-", "@", "d", "\\"} \subseteq S
      OBVIOUS
<1> HIDE DEF S
<1>3. \A x \in S, t \in Seq(S) : IsPrefix(<<x>>, t) <=> 1 <= Len(t) /\ x = t[1]
      BY SingleIs
<1>4. \A t \in Seq(S) : IsPrefix(pluses, t) => 1 <= Len(t) /\ t[1] = "+" /\ 4 <= Len(t)
    <2> SUFFICES ASSUME NEW t \in Seq(S), IsPrefix(pluses, t)
                 PROVE  1 <= Len(t) /\ t[1] = "+" /\ 4 <= Len(t)
        OBVIOUS
    <2> HIDE DEF pluses
    <2>1. Len(pluses) <= Len(t) /\ \A i \in 1..Len(pluses) : pluses[i] = t[i]
          BY <1>1, PrefixIs
    <2> QED  BY <1>1, <2>1
<1>5. IsPrefix(pluses, pluses)
    <2> HIDE DEF pluses
    <2> QED  BY <1>1, PrefixIs
<1> HIDE DEF marks, pluses
<1>6. /\ \A x \in S, y \in S : IsPrefix(<<x>>, <<y>>) <=> x = y
      /\ \A y \in S : ~IsPrefix(pluses, <<y>>)
    <2>1. \A y \in S : <<y>> \in Seq(S) /\ 1 <= Len(<<y>>) /\ <<y>>[1] = y /\ ~(4 <= Len(<<y>>))
          BY <1>1
    <2> QED  BY <1>3, <1>4, <2>1
<1>7. /\ "d" \in S /\ "@" \in S /\ "\\" \in S /\ "+" \in S /\ "-" \in S
      /\ 1 <= Len(marks) /\ 1 <= Len(pluses)
      BY <1>1, <1>2
<1>8. /\ ~IsPrefix(<<"d">>, marks) /\ ~IsPrefix(pluses, marks) /\ ~IsPrefix(<<"@">>, marks)
      /\ ~IsPrefix(<<"d">>, pluses)
      BY <1>1, <1>3, <1>4, <1>7
<1>9. {<<"d">>, marks, pluses, <<"@">>, <<"\\">>} \subseteq Heads(C)
      BY <1>1, <1>7 DEF Heads, S
<1>10. /\ IsPrefix(<<"d">>, <<"d">>) /\ IsPrefix(<<"@">>, <<"@">>) /\ IsPrefix(<<"\\">>, <<"\\">>)
       /\ ~IsPrefix(<<"d">>, <<"@">>) /\ ~IsPrefix(<<"d">>, <<"\\">>)
       /\ ~IsPrefix(<<"@">>, <<"\\">>) /\ ~IsPrefix(<<"+">>, <<"\\">>)
       /\ ~IsPrefix(pluses, <<"@">>) /\ ~IsPrefix(pluses, <<"\\">>)
      BY <1>6, <1>7
<1> QED  BY <1>5, <1>8, <1>9, <1>10 DEF marks, pluses

\* What begins with three or more of one sign.
LEMMA LongMarks ==
    ASSUME NEW S, NEW front \in Seq(S), NEW lead \in Seq(S), Len(front) = 1 + Len(lead),
           \A i \in 1..Len(lead) : front[i + 1] = lead[i],
           NEW x \in S, NEW marks \in Seq(S), Len(marks) \in {3, 4},
           marks[1] = x, marks[2] = x, marks[3] = x, IsPrefix(marks, front)
    PROVE  IsPrefix(<<x, x>>, lead)
<1> DEFINE n == Len(lead)
           both == <<x, x>>
<1>1. n \in Nat /\ both \in Seq(S) /\ Len(both) = 2 /\ \A i \in 1..2 : both[i] = x
      OBVIOUS
<1>2. Len(marks) <= Len(front) /\ \A i \in 1..Len(marks) : marks[i] = front[i]
      BY PrefixIs
<1>3. 2 \in 1..Len(marks) /\ 3 \in 1..Len(marks)
      OBVIOUS
<1>4. front[2] = x /\ front[3] = x
      BY <1>2, <1>3
<1>5. 1 \in 1..n /\ 2 \in 1..n /\ 1 + 1 = 2 /\ 2 + 1 = 3
      BY <1>1, <1>2
<1>6. front[1 + 1] = lead[1] /\ front[2 + 1] = lead[2]
      BY <1>5
<1>7. lead[1] = x /\ lead[2] = x
      BY <1>4, <1>5, <1>6
<1>8. \A i \in 1..2 : i = 1 \/ i = 2
      OBVIOUS
<1>9. 2 <= Len(lead) /\ both \in Seq(S) /\ lead \in Seq(S)
      BY <1>1, <1>5
<1> HIDE DEF both, n
<1>10. Len(both) <= Len(lead) /\ \A i \in 1..Len(both) : both[i] = lead[i]
      BY <1>1, <1>7, <1>8, <1>9
<1>11. IsPrefix(both, lead)
      BY <1>9, <1>10, PrefixIs
<1> QED  BY <1>11 DEF both

\* What a head begins with that is a sign and the beginning of a line.
LEMMA HeadsOfBodies ==
    ASSUME NEW C, NEW lead \in Seq(C), NEW sign \in {Space, "+", "-"}, NEW front,
           front = <<sign>> \o lead
    PROVE  /\ front \in Heads(C) /\ Tail(front) = lead
           /\ ~IsPrefix(<<"d">>, front) /\ ~IsPrefix(<<"@">>, front) /\ ~IsPrefix(<<"\\">>, front)
           /\ IsPrefix(<<"+">>, front) <=> sign = "+"
           /\ IsPrefix(<<"-">>, front) <=> sign = "-"
           /\ PlainLead(lead) => /\ ~IsPrefix(<<"+", "+", "+">>, front)
                                 /\ ~IsPrefix(<<"+", "+", "+", Space>>, front)
                                 /\ ~IsPrefix(<<"-", "-", "-">>, front)
<1> DEFINE S == C \cup {Space, "+", "-", "@", "d", "\\"}
           n == Len(lead)
<1>1. /\ \A x \in S : <<x>> \in Seq(S) /\ Len(<<x>>) = 1 /\ <<x>>[1] = x
      /\ lead \in Seq(S) /\ n \in Nat /\ sign \in S
      OBVIOUS
<1>2. {Space, "+", "-", "@", "d", "\\"} \subseteq S
      OBVIOUS
<1> HIDE DEF S, n
<1>3. /\ front \in Seq(S) /\ Len(front) = 1 + n
      /\ \A i \in 1..1 + n : front[i] = IF i <= 1 THEN <<sign>>[i] ELSE lead[i - 1]
    <2>1. <<sign>> \in Seq(S) /\ Len(<<sign>>) = 1
          BY <1>1
    <2> QED  BY <1>1, <2>1, ConcatProperties DEF n
<1>4. front[1] = sign /\ \A i \in 1..n : front[i + 1] = lead[i]
    <2>1. front[1] = sign
          BY <1>1, <1>3
    <2>2. ASSUME NEW i \in 1..n
          PROVE  front[i + 1] = lead[i]
        <3>1. i + 1 \in 1..1 + n /\ ~(i + 1 <= 1) /\ (i + 1) - 1 = i
              BY <1>1
        <3> QED  BY <1>3, <3>1
    <2> QED  BY <2>1, <2>2
<1>5. \A x \in S : IsPrefix(<<x>>, front) <=> x = sign
    <2> SUFFICES ASSUME NEW x \in S
                 PROVE  IsPrefix(<<x>>, front) <=> x = sign
        OBVIOUS
    <2>1. IsPrefix(<<x>>, front) <=> 1 <= Len(front) /\ x = front[1]
          BY <1>3, SingleIs
    <2>2. 1 <= Len(front)
          BY <1>1, <1>3
    <2> QED  BY <1>4, <2>1, <2>2
<1>6. Tail(front) = lead
    <2>1. front # <<>>
          BY <1>1, <1>3
    <2>2. /\ Tail(front) \in Seq(S) /\ Len(Tail(front)) = Len(front) - 1
          /\ \A i \in 1..Len(Tail(front)) : Tail(front)[i] = front[i + 1]
          BY <1>3, <2>1, HeadTailProperties
    <2>3. Len(front) - 1 = n
          BY <1>1, <1>3
    <2>4. Len(Tail(front)) = Len(lead) /\ \A i \in 1..Len(Tail(front)) : Tail(front)[i] = lead[i]
          BY <1>4, <2>2, <2>3 DEF n
    <2> QED  BY <1>1, <2>2, <2>4, SeqEqual
<1>7. ASSUME NEW x \in {"+", "-"}, NEW marks \in Seq(S), Len(marks) \in {3, 4},
             marks[1] = x, marks[2] = x, marks[3] = x, IsPrefix(marks, front)
      PROVE  IsPrefix(<<x, x>>, lead)
    <2>1. x \in S
          BY <1>2
    <2>2. Len(front) = 1 + Len(lead)
          BY <1>3 DEF n
    <2>3. \A i \in 1..Len(lead) : front[i + 1] = lead[i]
          BY <1>4 DEF n
    <2> QED  BY <1>1, <1>3, <1>7, <2>1, <2>2, <2>3, LongMarks
<1>8. ASSUME PlainLead(lead)
      PROVE  /\ ~IsPrefix(<<"+", "+", "+">>, front)
             /\ ~IsPrefix(<<"+", "+", "+", Space>>, front)
             /\ ~IsPrefix(<<"-", "-", "-">>, front)
    <2> DEFINE a == <<"+", "+", "+">>
               b == <<"+", "+", "+", Space>>
               c == <<"-", "-", "-">>
    <2>1. /\ a \in Seq(S) /\ Len(a) = 3 /\ a[1] = "+" /\ a[2] = "+" /\ a[3] = "+"
          /\ b \in Seq(S) /\ Len(b) = 4 /\ b[1] = "+" /\ b[2] = "+" /\ b[3] = "+"
          /\ c \in Seq(S) /\ Len(c) = 3 /\ c[1] = "-" /\ c[2] = "-" /\ c[3] = "-"
          BY <1>2
    <2> HIDE DEF a, b, c
    <2>2. IsPrefix(a, front) => IsPrefix(<<"+", "+">>, lead)
          BY <1>7, <2>1
    <2>3. IsPrefix(b, front) => IsPrefix(<<"+", "+">>, lead)
          BY <1>7, <2>1
    <2>4. IsPrefix(c, front) => IsPrefix(<<"-", "-">>, lead)
          BY <1>7, <2>1
    <2> QED  BY <1>8, <2>2, <2>3, <2>4 DEF PlainLead, a, b, c
<1>9. /\ ~IsPrefix(<<"d">>, front) /\ ~IsPrefix(<<"@">>, front) /\ ~IsPrefix(<<"\\">>, front)
      /\ IsPrefix(<<"+">>, front) <=> sign = "+"
      /\ IsPrefix(<<"-">>, front) <=> sign = "-"
    <2>1. /\ "d" # sign /\ "@" # sign /\ "\\" # sign
          BY DEF Space
    <2>2. "d" \in S /\ "@" \in S /\ "\\" \in S /\ "+" \in S /\ "-" \in S
          BY <1>2
    <2> QED  BY <1>5, <2>1, <2>2
<1>10. front \in Heads(C)
      BY <1>3 DEF Heads, S
<1> QED  BY <1>6, <1>8, <1>9, <1>10

\* What a reader is that changed.
LEMMA ReaderOfPath ==
    ASSUME NEW p, NEW l, NEW h, NEW a, NEW x
    PROVE  [Reader(p, l, h, a) EXCEPT !.path = x] = Reader(x, l, h, a)
BY DEF Reader

\* The reader on another line.
LEMMA ReaderOfLine ==
    ASSUME NEW p, NEW l, NEW h, NEW a, NEW x
    PROVE  [Reader(p, l, h, a) EXCEPT !.line = x] = Reader(p, x, h, a)
BY DEF Reader

\* The reader at a hunk, on its first line.
LEMMA ReaderOfHunk ==
    ASSUME NEW p, NEW l, NEW h, NEW a, NEW x
    PROVE  [Reader(p, l, h, a) EXCEPT !.in_hunk = x] = Reader(p, l, x, a)
BY DEF Reader

\* The reader on another line, with more added.
LEMMA ReaderOfAdded ==
    ASSUME NEW p, NEW l, NEW h, NEW a, NEW x
    PROVE  [Reader(p, l, h, a) EXCEPT !.added = x] = Reader(p, l, h, x)
BY DEF Reader

\* How each line of a diff is read.
IsTrue(x) == x = TRUE

\* The headers of a file name it.
LEMMA HeadersAreRead ==
    ASSUME NEW reader, NEW path, NEW selected
    PROVE  ReadLine(ReadLine(ReadLine(reader, Raw(<<"d">>, <<>>, path, 0), selected),
                             Raw(<<"-", "-", "-", Space>>, <<>>, path, 0), selected),
                    Raw(<<"+", "+", "+", Space>>, <<>>, path, 0), selected)
               = Reader(path, 0, FALSE, reader.added)
<1> DEFINE d == Raw(<<"d">>, <<>>, path, 0)
           m == Raw(<<"-", "-", "-", Space>>, <<>>, path, 0)
           p == Raw(<<"+", "+", "+", Space>>, <<>>, path, 0)
           q == Reader(<<>>, 0, FALSE, reader.added)
<1>1. /\ d.head = <<"d">> /\ m.head = <<"-", "-", "-", Space>> /\ p.head = <<"+", "+", "+", Space>>
      /\ p.path = path
      BY DEF Raw
<1> HIDE DEF d, m, p
<1>2. ReadLine(reader, d, selected) = q
      BY <1>1, HeadsOfHeaders, Zenon DEF ReadLine
<1>3. ReadLine(q, m, selected) = q
    <2>1. q.in_hunk = FALSE
          BY DEF Reader
    <2> HIDE DEF q
    <2>2. /\ ~IsPrefix(<<"d">>, m.head) /\ ~IsPrefix(<<"+", "+", "+", Space>>, m.head)
          /\ ~IsPrefix(<<"@">>, m.head)
          BY <1>1, HeadsOfHeaders
    <2> QED  BY <2>1, <2>2, Zenon DEF ReadLine
<1>4. ReadLine(q, p, selected) = Reader(path, 0, FALSE, reader.added)
    <2>1. ~IsPrefix(<<"d">>, p.head) /\ IsPrefix(<<"+", "+", "+", Space>>, p.head)
          BY <1>1, HeadsOfHeaders
    <2>2. ReadLine(q, p, selected) = [q EXCEPT !.path = p.path]
        <3> HIDE DEF q
        <3> QED  BY <2>1, Zenon DEF ReadLine
    <2>3. [q EXCEPT !.path = path] = Reader(path, 0, FALSE, reader.added)
        <3> DEFINE no == FALSE
        <3> HIDE DEF no
        <3>1. [Reader(<<>>, 0, no, reader.added) EXCEPT !.path = path]
                  = Reader(path, 0, no, reader.added)
              BY ReaderOfPath
        <3> QED  BY <3>1 DEF no
    <2> HIDE DEF q
    <2> QED  BY <1>1, <2>2, <2>3
<1> HIDE DEF q
<1> QED  BY <1>2, <1>3, <1>4 DEF d, m, p

\* A hunk puts the reader on its first line.
LEMMA HunkIsRead ==
    ASSUME NEW path, NEW line, NEW in_hunk, NEW added, NEW other, NEW start, NEW selected,
           NEW yes, IsTrue(yes)
    PROVE  ReadLine(Reader(path, line, in_hunk, added), Raw(<<"@">>, <<>>, other, start), selected)
               = Reader(path, start, yes, added)
<1> DEFINE r == Raw(<<"@">>, <<>>, other, start)
           q == Reader(path, line, in_hunk, added)
<1>1. r.head = <<"@">> /\ r.start = start
      BY DEF Raw
<1> HIDE DEF r
<1>2. /\ ~IsPrefix(<<"d">>, r.head) /\ ~IsPrefix(<<"+", "+", "+", Space>>, r.head)
      /\ IsPrefix(<<"@">>, r.head)
      BY <1>1, HeadsOfHeaders
<1>3. ReadLine(q, r, selected) = [q EXCEPT !.line = r.start, !.in_hunk = yes]
    <2> HIDE DEF q
    <2>1. ReadLine(q, r, selected) = [q EXCEPT !.line = r.start, !.in_hunk = TRUE]
          BY <1>2, Zenon DEF ReadLine
    <2> QED  BY <2>1 DEF IsTrue
<1>4. [q EXCEPT !.line = start, !.in_hunk = yes] = Reader(path, start, yes, added)
    <2> DEFINE f == [q EXCEPT !.line = start]
    <2>1. f = Reader(path, start, in_hunk, added)
          BY ReaderOfLine
    <2>2. [q EXCEPT !.line = start, !.in_hunk = yes] = [f EXCEPT !.in_hunk = yes]
          OBVIOUS
    <2> HIDE DEF f
    <2>3. [Reader(path, start, in_hunk, added) EXCEPT !.in_hunk = yes]
              = Reader(path, start, yes, added)
          BY ReaderOfHunk
    <2> QED  BY <2>1, <2>2, <2>3
<1> QED  BY <1>1, <1>3, <1>4 DEF r

\* The note on the end of a file changes nothing that is read.
LEMMA NoteIsRead ==
    ASSUME NEW path, NEW line, NEW added, NEW other, NEW selected, NEW in_hunk
    PROVE  ReadLine(Reader(path, line, in_hunk, added), Raw(<<"\\">>, <<>>, other, 0), selected)
               = Reader(path, line, in_hunk, added)
<1> DEFINE r == Raw(<<"\\">>, <<>>, other, 0)
           q == Reader(path, line, in_hunk, added)
<1>1. r.head = <<"\\">>
      BY DEF Raw
<1> HIDE DEF r, q
<1>2. /\ ~IsPrefix(<<"d">>, r.head) /\ ~IsPrefix(<<"+", "+", "+", Space>>, r.head)
      /\ ~IsPrefix(<<"@">>, r.head) /\ ~IsPrefix(<<"+">>, r.head) /\ IsPrefix(<<"\\">>, r.head)
      BY <1>1, HeadsOfHeaders
<1>3. ~IsAdded(r) /\ NotInNewFile(r)
      BY <1>2 DEF IsAdded, NotInNewFile
<1>4. ReadLine(q, r, selected) = q
      BY <1>2, <1>3, Zenon DEF ReadLine
<1> QED  BY <1>4 DEF r, q

\* The line after an edit, and what is added with it.
LineAfter(edit, line) == line + (IF edit.op = "cut" THEN 0 ELSE 1)

\* What was added with the line of an edit.
AddedWith(edit, path, line, selected, added) ==
    IF edit.op = "add" /\ path \in selected
    THEN added \cup {AddedLine(path, line, edit.line)} ELSE added

\* The line of an edit is read as what the edit does.
LEMMA BodyIsRead ==
    ASSUME NEW C, NEW T, NEW edit \in EditsOver(LinesOver(C, T)), PlainLead(edit.line.lead),
           NEW path, path # <<>>, NEW line \in Nat, NEW added, NEW selected, NEW yes, IsTrue(yes)
    PROVE  ReadLine(Reader(path, line, yes, added), BodyLine(edit), selected)
               = Reader(path, LineAfter(edit, line), yes, AddedWith(edit, path, line, selected, added))
<1> DEFINE next == LineAfter(edit, line)
           now == AddedWith(edit, path, line, selected, added)
           r == BodyLine(edit)
           q == Reader(path, line, yes, added)
<1>a. /\ next = line + (IF edit.op = "cut" THEN 0 ELSE 1)
      /\ now = IF edit.op = "add" /\ path \in selected
               THEN added \cup {AddedLine(path, line, edit.line)} ELSE added
      BY DEF LineAfter, AddedWith
<1> HIDE DEF next, now
<1>1. edit.op \in Ops /\ edit.line \in LinesOver(C, T)
      BY DEF EditsOver
<1>2. PICK lead \in Seq(C), text \in T : edit.line = Line(lead, text)
      BY <1>1 DEF LinesOver
<1>3. edit.line.lead = lead /\ edit.line.text = text
      BY <1>2 DEF Line
<1>4. /\ r.head = <<SignOf(edit.op)>> \o lead /\ r.text = text
      BY <1>3 DEF BodyLine, Raw
<1>5. /\ edit.op = "keep" => SignOf(edit.op) = Space
      /\ edit.op = "cut" => SignOf(edit.op) = "-"
      /\ edit.op = "add" => SignOf(edit.op) = "+"
      BY DEF SignOf
<1> DEFINE sign == SignOf(edit.op)
<1> HIDE DEF sign
<1>6. sign \in {Space, "+", "-"}
      BY <1>1, <1>5 DEF Ops, sign
<1> HIDE DEF r
<1>7. /\ Tail(r.head) = lead
      /\ ~IsPrefix(<<"d">>, r.head) /\ ~IsPrefix(<<"@">>, r.head) /\ ~IsPrefix(<<"\\">>, r.head)
      /\ IsPrefix(<<"+">>, r.head) <=> sign = "+"
      /\ IsPrefix(<<"-">>, r.head) <=> sign = "-"
      /\ ~IsPrefix(<<"+", "+", "+">>, r.head)
      /\ ~IsPrefix(<<"+", "+", "+", Space>>, r.head)
      /\ ~IsPrefix(<<"-", "-", "-">>, r.head)
    <2> DEFINE front == r.head
    <2>1. front = <<sign>> \o lead /\ PlainLead(lead)
          BY <1>3, <1>4 DEF sign
    <2> HIDE DEF front
    <2>2. /\ Tail(front) = lead
          /\ ~IsPrefix(<<"d">>, front) /\ ~IsPrefix(<<"@">>, front) /\ ~IsPrefix(<<"\\">>, front)
          /\ IsPrefix(<<"+">>, front) <=> sign = "+"
          /\ IsPrefix(<<"-">>, front) <=> sign = "-"
          /\ ~IsPrefix(<<"+", "+", "+">>, front)
          /\ ~IsPrefix(<<"+", "+", "+", Space>>, front)
          /\ ~IsPrefix(<<"-", "-", "-">>, front)
          BY <1>6, <2>1, HeadsOfBodies
    <2> QED  BY <2>2 DEF front
<1>8. IsAdded(r) <=> edit.op = "add"
      BY <1>1, <1>5, <1>7 DEF IsAdded, Ops, sign, Space
<1>9. NotInNewFile(r) <=> edit.op = "cut"
      BY <1>1, <1>5, <1>7 DEF NotInNewFile, Ops, sign, Space
<1>10. q.in_hunk /\ q.path = path /\ q.line = line /\ q.added = added
    <2>1. q.in_hunk = yes /\ q.path = path /\ q.line = line /\ q.added = added
          BY DEF Reader
    <2> QED  BY <2>1 DEF IsTrue
<1> DEFINE more == [q EXCEPT !.line = @ + 1,
                        !.added = IF q.path \in selected
                                  THEN @ \cup {AddedLine(q.path, q.line, Line(Tail(r.head), r.text))}
                                  ELSE @]
<1>11. more = Reader(path, line + 1, yes,
                     IF path \in selected THEN added \cup {AddedLine(path, line, edit.line)} ELSE added)
    <2> DEFINE grown == IF path \in selected THEN added \cup {AddedLine(path, line, edit.line)} ELSE added
    <2>1. Line(Tail(r.head), r.text) = edit.line
          BY <1>2, <1>4, <1>7
    <2>2. [q EXCEPT !.line = line + 1, !.added = grown] = Reader(path, line + 1, yes, grown)
        <3> DEFINE after == line + 1
        <3> HIDE DEF after, grown
        <3>1. [Reader(path, line, yes, added) EXCEPT !.line = after, !.added = grown]
                  = Reader(path, after, yes, grown)
            <4> DEFINE f == [Reader(path, line, yes, added) EXCEPT !.line = after]
            <4>1. f = Reader(path, after, yes, added)
                  BY ReaderOfLine
            <4>2. [Reader(path, line, yes, added) EXCEPT !.line = after, !.added = grown]
                      = [f EXCEPT !.added = grown]
                  OBVIOUS
            <4> HIDE DEF f
            <4>3. [Reader(path, after, yes, added) EXCEPT !.added = grown]
                      = Reader(path, after, yes, grown)
                  BY ReaderOfAdded
            <4> QED  BY <4>1, <4>2, <4>3
        <3> QED  BY <3>1 DEF after
    <2> HIDE DEF q
    <2>3. grown = IF q.path \in selected
                THEN q.added \cup {AddedLine(q.path, q.line, Line(Tail(r.head), r.text))}
                ELSE q.added
          BY <1>10, <2>1
    <2> HIDE DEF grown
    <2>4. more = [q EXCEPT !.line = q.line + 1, !.added = grown]
          BY <2>3, Zenon
    <2>5. more = Reader(path, line + 1, yes, grown)
          BY <1>10, <2>2, <2>4
    <2> QED  BY <2>5 DEF grown
<1>12. [q EXCEPT !.line = @ + 1] = Reader(path, line + 1, yes, added)
    <2>1. [q EXCEPT !.line = line + 1] = Reader(path, line + 1, yes, added)
        <3> DEFINE after == line + 1
        <3> HIDE DEF after
        <3>1. [Reader(path, line, yes, added) EXCEPT !.line = after] = Reader(path, after, yes, added)
              BY ReaderOfLine
        <3> QED  BY <3>1 DEF after
    <2> HIDE DEF q
    <2>2. [q EXCEPT !.line = @ + 1] = [q EXCEPT !.line = q.line + 1]
          OBVIOUS
    <2> QED  BY <1>10, <2>1, <2>2
<1> HIDE DEF q
<1>13. ReadLine(q, r, selected) = IF IsAdded(r) THEN more
                                  ELSE IF NotInNewFile(r) THEN q
                                  ELSE [q EXCEPT !.line = @ + 1]
      BY <1>7, <1>10, Zenon DEF ReadLine
<1> HIDE DEF more
<1>14. ASSUME edit.op = "add"
       PROVE  ReadLine(q, r, selected) = Reader(path, next, yes, now)
    <2>1. /\ next = line + 1
          /\ now = IF path \in selected THEN added \cup {AddedLine(path, line, edit.line)} ELSE added
          BY <1>a, <1>14
    <2>2. ReadLine(q, r, selected) = more
          BY <1>8, <1>13, <1>14
    <2> QED  BY <1>11, <2>1, <2>2
<1>15. ASSUME edit.op = "cut"
       PROVE  ReadLine(q, r, selected) = Reader(path, next, yes, now)
    <2>1. next = line /\ now = added
          BY <1>a, <1>15
    <2>2. ReadLine(q, r, selected) = q
          BY <1>8, <1>9, <1>13, <1>15
    <2> QED  BY <2>1, <2>2 DEF q
<1>16. ASSUME edit.op = "keep"
       PROVE  ReadLine(q, r, selected) = Reader(path, next, yes, now)
    <2>1. next = line + 1 /\ now = added
          BY <1>a, <1>16
    <2>2. ReadLine(q, r, selected) = [q EXCEPT !.line = @ + 1]
          BY <1>8, <1>9, <1>13, <1>16
    <2> QED  BY <1>12, <2>1, <2>2
<1>17. ReadLine(q, r, selected) = Reader(path, next, yes, now)
      BY <1>1, <1>14, <1>15, <1>16 DEF Ops
<1> QED  BY <1>17 DEF q, r, next, now

-----------------------------------------------------------------------------
(* The diff of a file.                                                     *)

\* Lines that no sign makes a header of.
PlainLines(C, T) == {l \in LinesOver(C, T) : PlainLead(l.lead)}

\* The edits that change something, and those that are printed.
ChangedAt(e) == {k \in DOMAIN e : e[k].op # "keep"}

ShownAt(e, context) == IF context THEN DOMAIN e ELSE ChangedAt(e)

\* The line of the new file an edit is on.
NewLineAt(e, k) == 1 + Cardinality({m \in 1..k - 1 : e[m].op # "cut"})

\* The last edit that is not op.
LastOfOp(e, k, op) == e[k].op # op /\ \A m \in k + 1..Len(e) : e[m].op = op

\* What is printed of one edit.
HunkAt(path, e, context, k) ==
    IF k - 1 \in ShownAt(e, context) THEN <<>> ELSE <<Raw(<<"@">>, <<>>, path, NewLineAt(e, k))>>

NoteAt(path, e, unterminated, k) ==
    IF unterminated /\ (LastOfOp(e, k, "add") \/ LastOfOp(e, k, "cut"))
    THEN <<Raw(<<"\\">>, <<>>, path, 0)>> ELSE <<>>

EditAt(path, e, context, unterminated, k) ==
    (HunkAt(path, e, context, k) \o <<BodyLine(e[k])>>) \o NoteAt(path, e, unterminated, k)

PartAt(path, e, context, unterminated, k) ==
    IF k \in ShownAt(e, context) THEN EditAt(path, e, context, unterminated, k) ELSE <<>>

\* What is printed before the hunks of a file, and all that is printed of it.
HeadersOf(path) ==
    <<Raw(<<"d">>, <<>>, path, 0), Raw(<<"-", "-", "-", Space>>, <<>>, path, 0),
      Raw(<<"+", "+", "+", Space>>, <<>>, path, 0)>>

PrintOf(path, e, context, unterminated) ==
    IF ChangedAt(e) = {} THEN <<>>
    ELSE HeadersOf(path)
         \o FlattenSeq([k \in DOMAIN e |-> PartAt(path, e, context, unterminated, k)])

\* The diff of a file is the print of its edits.
LEMMA FileDiffIs ==
    ASSUME NEW path, NEW old, NEW new, NEW context, NEW unterminated
    PROVE  FileDiff(path, old, new, context, unterminated) =
               PrintOf(path, Edits(old, new), context, unterminated)
BY Zenon DEF FileDiff, PrintOf, ChangedAt, ShownAt, NewLineAt, LastOfOp, HunkAt, NoteAt, EditAt,
             PartAt, HeadersOf

\* The lines of the new file before an edit are those of the edits before it.
LEMMA LinesBefore ==
    ASSUME NEW e, Len(e) \in Nat, NEW old, NEW new, NEW a, NEW b \in [0..Len(e) -> Nat], b[0] = 0,
           Leads(e, old, new, a, b)
    PROVE  \A k \in 1..Len(e) : NewLineAt(e, k) = 1 + b[k - 1]
<1> DEFINE n == Len(e)
           Before(k) == {m \in 1..k : e[m].op # "cut"}
           S == {k \in Nat : k <= n => IsFiniteSet(Before(k)) /\ Cardinality(Before(k)) = b[k]}
<1>1. 0 \in S
    <2>1. Before(0) = {}
          OBVIOUS
    <2> HIDE DEF Before
    <2> QED  BY <2>1, FS_EmptySet
<1>2. ASSUME NEW k \in S
      PROVE  k + 1 \in S
    <2>1. CASE k + 1 <= n
        <3>1. k \in Nat /\ k <= n /\ k + 1 \in 1..n /\ (k + 1) - 1 = k
              BY <1>2, <2>1
        <3>2. IsFiniteSet(Before(k)) /\ Cardinality(Before(k)) = b[k] /\ b[k] \in Nat
              BY <3>1
        <3>3. b[k + 1] = b[k] + (IF e[k + 1].op = "cut" THEN 0 ELSE 1)
              BY <3>1 DEF Leads
        <3>4. CASE e[k + 1].op = "cut"
            <4>1. Before(k + 1) = Before(k)
                  BY <3>1, <3>4
            <4>2. b[k + 1] = b[k]
                  BY <3>2, <3>3, <3>4
            <4>3. IsFiniteSet(Before(k + 1)) /\ Cardinality(Before(k + 1)) = b[k + 1]
                <5> HIDE DEF Before
                <5> QED  BY <3>2, <4>1, <4>2
            <4> QED  BY <3>1, <4>3
        <3>5. CASE e[k + 1].op # "cut"
            <4>1. Before(k + 1) = Before(k) \cup {k + 1}
                  BY <3>1, <3>5
            <4>2. k + 1 \notin Before(k)
                  BY <3>1
            <4>3. b[k + 1] = b[k] + 1
                  BY <3>2, <3>3, <3>5
            <4>4. IsFiniteSet(Before(k + 1)) /\ Cardinality(Before(k + 1)) = b[k] + 1
                <5> HIDE DEF Before
                <5> QED  BY <3>2, <4>1, <4>2, FS_AddElement
            <4> QED  BY <3>1, <4>3, <4>4
        <3> QED  BY <3>4, <3>5
    <2>2. CASE ~(k + 1 <= n)
          BY <1>2, <2>2
    <2> QED  BY <2>1, <2>2
<1> HIDE DEF S
<1>3. S = Nat
    <2>1. S \subseteq Nat
          BY DEF S
    <2> QED  BY <1>1, <1>2, <2>1, Induction
<1>4. ASSUME NEW k \in 1..n
      PROVE  NewLineAt(e, k) = 1 + b[k - 1]
    <2>1. k - 1 \in S /\ k - 1 <= n
          BY <1>3
    <2>2. Cardinality(Before(k - 1)) = b[k - 1]
          BY <2>1 DEF S
    <2> QED  BY <2>2 DEF NewLineAt
<1> QED  BY <1>4

\* What is printed are lines of a diff.
LEMMA PartsAreRaws ==
    ASSUME NEW C, NEW T, NEW e \in Seq(EditsOver(LinesOver(C, T))), NEW U, T \subseteq U,
           <<>> \in U, NEW path \in U, NEW context \in BOOLEAN, NEW unterminated,
           NEW k \in 1..Len(e), NewLineAt(e, k) \in Nat
    PROVE  /\ HunkAt(path, e, context, k) \in Seq(Raws(C, U))
           /\ <<BodyLine(e[k])>> \in Seq(Raws(C, U))
           /\ NoteAt(path, e, unterminated, k) \in Seq(Raws(C, U))
           /\ HeadersOf(path) \in Seq(Raws(C, U))
<1> DEFINE R == Raws(C, U)
<1>1. \A h \in Heads(C), t \in U, p \in U, i \in Nat : Raw(h, t, p, i) \in R
      BY DEF Raw, Raws
<1>2. /\ <<"d">> \in Heads(C) /\ <<"-", "-", "-", Space>> \in Heads(C)
      /\ <<"+", "+", "+", Space>> \in Heads(C) /\ <<"@">> \in Heads(C) /\ <<"\\">> \in Heads(C)
      BY HeadsOfHeaders
<1> HIDE DEF R
<1>3. \A x \in R : <<x>> \in Seq(R)
      OBVIOUS
<1>4. HunkAt(path, e, context, k) \in Seq(R)
    <2>1. Raw(<<"@">>, <<>>, path, NewLineAt(e, k)) \in R
          BY <1>1, <1>2
    <2>2. <<Raw(<<"@">>, <<>>, path, NewLineAt(e, k))>> \in Seq(R) /\ <<>> \in Seq(R)
          BY <1>3, <2>1
    <2> QED  BY <2>2 DEF HunkAt
<1>5. NoteAt(path, e, unterminated, k) \in Seq(R)
    <2>1. Raw(<<"\\">>, <<>>, path, 0) \in R
          BY <1>1, <1>2
    <2>2. <<Raw(<<"\\">>, <<>>, path, 0)>> \in Seq(R) /\ <<>> \in Seq(R)
          BY <1>3, <2>1
    <2> QED  BY <2>2 DEF NoteAt
<1>6. <<BodyLine(e[k])>> \in Seq(R)
    <2>1. e[k] \in EditsOver(LinesOver(C, T))
          OBVIOUS
    <2>2. e[k].op \in Ops /\ e[k].line \in LinesOver(C, T)
          BY <2>1 DEF EditsOver
    <2>3. PICK lead \in Seq(C), text \in T : e[k].line = Line(lead, text)
          BY <2>2 DEF LinesOver
    <2>4. e[k].line.lead = lead /\ e[k].line.text = text
          BY <2>3 DEF Line
    <2>5. SignOf(e[k].op) \in {Space, "+", "-"}
          BY <2>2 DEF SignOf, Ops
    <2> DEFINE sign == SignOf(e[k].op)
               front == <<sign>> \o lead
    <2>6. front \in Heads(C)
        <3> HIDE DEF sign, front
        <3>1. front = <<sign>> \o lead /\ sign \in {Space, "+", "-"}
              BY <2>5 DEF front, sign
        <3> QED  BY <3>1, HeadsOfBodies
    <2>7. BodyLine(e[k]) = Raw(front, text, text, 0) /\ text \in U
          BY <2>4 DEF BodyLine
    <2> HIDE DEF front
    <2>8. BodyLine(e[k]) \in R
          BY <1>1, <2>6, <2>7
    <2> QED  BY <1>3, <2>8
<1>7. HeadersOf(path) \in Seq(R)
    <2>1. /\ Raw(<<"d">>, <<>>, path, 0) \in R /\ Raw(<<"-", "-", "-", Space>>, <<>>, path, 0) \in R
          /\ Raw(<<"+", "+", "+", Space>>, <<>>, path, 0) \in R
          BY <1>1, <1>2
    <2>2. \A x, y, z \in R : <<x, y, z>> \in Seq(R)
          OBVIOUS
    <2> QED  BY <2>1, <2>2 DEF HeadersOf
<1> QED  BY <1>4, <1>5, <1>6, <1>7 DEF R

\* What of one edit is read, by a reader that is where the edit before left it.
LEMMA EditIsRead ==
    ASSUME NEW C, NEW T, NEW e \in Seq(EditsOver(PlainLines(C, T))), NEW U, T \subseteq U,
           <<>> \in U, NEW path \in U, path # <<>>, NEW context \in BOOLEAN, NEW unterminated,
           NEW k \in 1..Len(e), NEW c \in Nat, NewLineAt(e, k) = c, NEW selected,
           NEW line, NEW in_hunk, NEW added, NEW yes, IsTrue(yes),
           k - 1 \in ShownAt(e, context) => in_hunk = yes /\ line = c
    PROVE  ReadLines(Reader(path, line, in_hunk, added), EditAt(path, e, context, unterminated, k),
                     selected)
               = Reader(path, LineAfter(e[k], c), yes, AddedWith(e[k], path, c, selected, added))
<1> DEFINE R == Raws(C, U)
           q == Reader(path, line, in_hunk, added)
           x == Reader(path, c, yes, added)
           next == LineAfter(e[k], c)
           now == AddedWith(e[k], path, c, selected, added)
           y == Reader(path, next, yes, now)
           hunk == HunkAt(path, e, context, k)
           body == <<BodyLine(e[k])>>
           note == NoteAt(path, e, unterminated, k)
<1>1. e \in Seq(EditsOver(LinesOver(C, T)))
    <2>1. EditsOver(PlainLines(C, T)) \subseteq EditsOver(LinesOver(C, T))
          BY DEF EditsOver, PlainLines
    <2> QED  BY <2>1, SeqMonotonic
<1>2. hunk \in Seq(R) /\ body \in Seq(R) /\ note \in Seq(R)
      BY <1>1, PartsAreRaws
<1>3. ReadLines(q, hunk, selected) = x
    <2>1. CASE k - 1 \in ShownAt(e, context)
        <3>1. hunk = <<>> /\ q = x
              BY <2>1 DEF HunkAt
        <3> HIDE DEF q, x, hunk
        <3> QED  BY <3>1, ReadNothing
    <2>2. CASE k - 1 \notin ShownAt(e, context)
        <3> DEFINE h == Raw(<<"@">>, <<>>, path, c)
        <3>1. hunk = <<h>>
              BY <2>2 DEF HunkAt
        <3>2. ReadLine(q, h, selected) = x
              BY HunkIsRead
        <3> HIDE DEF q, x, hunk, h
        <3> QED  BY <3>1, <3>2, ReadOne
    <2> QED  BY <2>1, <2>2, Zenon
<1>4. ReadLines(x, body, selected) = y
    <2>1. e[k] \in EditsOver(PlainLines(C, T))
          OBVIOUS
    <2>2. e[k] \in EditsOver(LinesOver(C, T)) /\ PlainLead(e[k].line.lead)
          BY <2>1 DEF EditsOver, PlainLines
    <2> DEFINE d == e[k]
    <2>3. d \in EditsOver(LinesOver(C, T)) /\ PlainLead(d.line.lead)
          BY <2>2
    <2> HIDE DEF d
    <2>4. ReadLine(Reader(path, c, yes, added), BodyLine(d), selected)
              = Reader(path, LineAfter(d, c), yes, AddedWith(d, path, c, selected, added))
          BY <2>3, BodyIsRead
    <2>5. ReadLine(x, BodyLine(e[k]), selected) = y
          BY <2>4 DEF d
    <2> HIDE DEF x, y
    <2> QED  BY <2>5, ReadOne
<1>5. ReadLines(y, note, selected) = y
    <2>1. CASE note = <<>>
        <3> HIDE DEF y, note
        <3> QED  BY <2>1, ReadNothing
    <2>2. CASE note # <<>>
        <3> DEFINE h == Raw(<<"\\">>, <<>>, path, 0)
        <3>1. note = <<h>>
              BY <2>2 DEF NoteAt
        <3>2. ReadLine(y, h, selected) = y
            <4> HIDE DEF next, now
            <4> QED  BY NoteIsRead
        <3> HIDE DEF y, note, h
        <3> QED  BY <3>1, <3>2, ReadOne
    <2> QED  BY <2>1, <2>2, Zenon
<1> HIDE DEF R, q, x, y, hunk, body, note
<1>6. hunk \o body \in Seq(R)
      BY <1>2
<1>7. ReadLines(q, (hunk \o body) \o note, selected)
          = ReadLines(ReadLines(q, hunk \o body, selected), note, selected)
    <2> DEFINE front == hunk \o body
    <2>1. front \in Seq(R) /\ note \in Seq(R)
          BY <1>2, <1>6
    <2> HIDE DEF front
    <2>2. ReadLines(q, front \o note, selected) = ReadLines(ReadLines(q, front, selected), note, selected)
          BY <2>1, ReadOn
    <2> QED  BY <2>2 DEF front
<1>8. ReadLines(q, hunk \o body, selected) = ReadLines(ReadLines(q, hunk, selected), body, selected)
      BY <1>2, ReadOn
<1>9. ReadLines(q, (hunk \o body) \o note, selected) = y
      BY <1>3, <1>4, <1>5, <1>7, <1>8
<1>10. EditAt(path, e, context, unterminated, k) = (hunk \o body) \o note
      BY DEF EditAt, hunk, body, note
<1> QED  BY <1>9, <1>10 DEF q, y, next, now

\* The lines that a file's first edits add.
AddsUpTo(path, e, k) ==
    {AddedLine(path, NewLineAt(e, m), e[m].line) : m \in {l \in 1..k : e[l].op = "add"}}

\* One more edit adds its line, if it adds one.
LEMMA AddsGrow ==
    ASSUME NEW path, NEW e, NEW k \in Nat, k # 0
    PROVE  AddsUpTo(path, e, k) =
               AddsUpTo(path, e, k - 1)
               \cup (IF e[k].op = "add" THEN {AddedLine(path, NewLineAt(e, k), e[k].line)} ELSE {})
<1> DEFINE F(m) == AddedLine(path, NewLineAt(e, m), e[m].line)
           I(j) == {l \in 1..j : e[l].op = "add"}
<1>1. I(k) = I(k - 1) \cup (IF e[k].op = "add" THEN {k} ELSE {})
    <2>1. 1..k = (1..k - 1) \cup {k}
          OBVIOUS
    <2> QED  BY <2>1
<1> HIDE DEF F, I
<1>2. {F(m) : m \in I(k)} = {F(m) : m \in I(k - 1)} \cup (IF e[k].op = "add" THEN {F(k)} ELSE {})
      BY <1>1
<1> QED  BY <1>2 DEF AddsUpTo, F, I

\* The edits of a file, read one by one.
LEMMA EditsAreRead ==
    ASSUME NEW C, NEW T, NEW e \in Seq(EditsOver(PlainLines(C, T))), NEW U, T \subseteq U,
           <<>> \in U, NEW path \in U, path # <<>>, NEW context \in BOOLEAN, NEW unterminated,
           NEW selected, NEW off, NEW added, NEW old, NEW new,
           NEW a, NEW b \in [0..Len(e) -> Nat], b[0] = 0, Leads(e, old, new, a, b)
    PROVE  LET s == [k \in DOMAIN e |-> PartAt(path, e, context, unterminated, k)]
               r == ReadLines(Reader(path, 0, off, added), FlattenSeq(s), selected)
           IN  /\ s \in Seq(Seq(Raws(C, U))) /\ FlattenSeq(s) \in Seq(Raws(C, U))
               /\ r.added = IF path \in selected THEN added \cup AddsUpTo(path, e, Len(e)) ELSE added
<1> DEFINE n == Len(e)
           R == Raws(C, U)
           Part(k) == PartAt(path, e, context, unterminated, k)
           s == [k \in 1..n |-> Part(k)]
           q == Reader(path, 0, off, added)
           Adds(k) == IF path \in selected THEN added \cup AddsUpTo(path, e, k) ELSE added
<1>1. /\ n \in Nat /\ DOMAIN e = 1..n
      /\ \A k \in 1..n : NewLineAt(e, k) = 1 + b[k - 1] /\ 1 + b[k - 1] \in Nat
                         /\ e[k].op \in Ops
                         /\ b[k] = b[k - 1] + (IF e[k].op = "cut" THEN 0 ELSE 1)
    <2>1. \A k \in 1..n : NewLineAt(e, k) = 1 + b[k - 1]
          BY LinesBefore
    <2>2. \A k \in 1..n : k - 1 \in 0..n
          OBVIOUS
    <2>3. \A k \in 1..n : b[k - 1] \in Nat
          BY <2>2
    <2> QED  BY <2>1, <2>3 DEF Leads
<1>2. \A k \in 1..n : Part(k) \in Seq(R)
    <2> SUFFICES ASSUME NEW k \in 1..n
                 PROVE  Part(k) \in Seq(R)
        OBVIOUS
    <2>1. e \in Seq(EditsOver(LinesOver(C, T)))
        <3>1. EditsOver(PlainLines(C, T)) \subseteq EditsOver(LinesOver(C, T))
              BY DEF EditsOver, PlainLines
        <3> QED  BY <3>1, SeqMonotonic
    <2>2. NewLineAt(e, k) \in Nat
          BY <1>1
    <2> DEFINE hunk == HunkAt(path, e, context, k)
               body == <<BodyLine(e[k])>>
               note == NoteAt(path, e, unterminated, k)
    <2>3. hunk \in Seq(R) /\ body \in Seq(R) /\ note \in Seq(R)
          BY <2>1, <2>2, PartsAreRaws
    <2> HIDE DEF hunk, body, note, R
    <2>4. (hunk \o body) \o note \in Seq(R) /\ <<>> \in Seq(R)
          BY <2>3
    <2> QED  BY <2>4 DEF PartAt, EditAt, hunk, body, note
<1> HIDE DEF R, Part, q
<1>3. s \in Seq(Seq(R)) /\ Len(s) = n /\ \A k \in 1..n : s[k] = Part(k)
    <2>1. s \in [1..n -> Seq(R)]
          BY <1>2
    <2> QED  BY <1>1, <2>1, FunctionIsSequence, SMTT(30)
<1> HIDE DEF s
<1>a. PICK g \in [0..Len(s) -> Seq(R)] : /\ g[0] = <<>>
                                         /\ \A k \in 1..Len(s) : g[k] = g[k - 1] \o s[k]
                                         /\ FlattenSeq(s) = g[Len(s)]
    <2>1. s \in Seq(Seq(R))
          BY <1>3
    <2> QED  BY <2>1, FlattenIs
<1>4. /\ g \in [0..n -> Seq(R)] /\ g[0] = <<>>
      /\ \A k \in 1..n : g[k] = g[k - 1] \o s[k]
      /\ FlattenSeq(s) = g[n]
    <2>1. Len(s) = n
          BY <1>3
    <2> HIDE DEF n
    <2> QED  BY <1>a, <2>1
<1> DEFINE J(k, line, in_hunk) ==
               /\ ReadLines(q, g[k], selected) = Reader(path, line, in_hunk, Adds(k))
               /\ k \in ShownAt(e, context) => in_hunk = TRUE /\ line = 1 + b[k]
           S == {k \in Nat : k <= n => \E line, in_hunk : J(k, line, in_hunk)}
<1>5. 0 \in S
    <2>1. AddsUpTo(path, e, 0) = {}
          BY DEF AddsUpTo
    <2>2. Adds(0) = added
          BY <2>1
    <2>3. 0 \notin ShownAt(e, context)
          BY <1>1 DEF ShownAt, ChangedAt
    <2>4. ReadLines(q, g[0], selected) = q
          BY <1>4, ReadNothing
    <2>5. q = Reader(path, 0, off, Adds(0))
          BY <2>2 DEF q
    <2> HIDE DEF Adds
    <2>6. J(0, 0, off)
          BY <2>3, <2>4, <2>5
    <2> HIDE DEF J
    <2> QED  BY <2>6
<1>6. ASSUME NEW k \in S
      PROVE  k + 1 \in S
    <2>1. CASE ~(k + 1 <= n)
          BY <1>6, <2>1
    <2>2. CASE k + 1 <= n
        <3> DEFINE j == k + 1
        <3>1. k \in Nat /\ k <= n /\ j \in 1..n /\ j - 1 = k /\ j \in Nat /\ j # 0 /\ k \in 0..n /\ j \in 0..n
              BY <1>1, <2>2
        <3> HIDE DEF J
        <3>2. PICK line, in_hunk : J(k, line, in_hunk)
              BY <3>1
        <3> HIDE DEF j
        <3>3. /\ ReadLines(q, g[k], selected) = Reader(path, line, in_hunk, Adds(k))
              /\ k \in ShownAt(e, context) => in_hunk = TRUE /\ line = 1 + b[k]
              BY <3>2 DEF J
        <3>4. g[j] = g[k] \o Part(j) /\ g[k] \in Seq(R) /\ Part(j) \in Seq(R)
              BY <1>2, <1>3, <1>4, <3>1
        <3>5. ReadLines(q, g[j], selected)
                  = ReadLines(Reader(path, line, in_hunk, Adds(k)), Part(j), selected)
              BY <3>3, <3>4, ReadOn
        <3>6. NewLineAt(e, j) = 1 + b[k] /\ 1 + b[k] \in Nat
              BY <1>1, <3>1
        <3>7. AddsUpTo(path, e, j) =
                  AddsUpTo(path, e, k)
                  \cup (IF e[j].op = "add" THEN {AddedLine(path, 1 + b[k], e[j].line)} ELSE {})
              BY <3>1, <3>6, AddsGrow
        <3>8. Adds(j) = IF e[j].op = "add" /\ path \in selected
                        THEN Adds(k) \cup {AddedLine(path, 1 + b[k], e[j].line)} ELSE Adds(k)
            <4> DEFINE new_line == {AddedLine(path, 1 + b[k], e[j].line)}
                       before == AddsUpTo(path, e, k)
                       after == AddsUpTo(path, e, j)
            <4>1. after = before \cup (IF e[j].op = "add" THEN new_line ELSE {})
                  BY <3>7
            <4> HIDE DEF new_line, before, after
            <4>2. (IF path \in selected THEN added \cup after ELSE added)
                      = IF e[j].op = "add" /\ path \in selected
                        THEN (IF path \in selected THEN added \cup before ELSE added) \cup new_line
                        ELSE IF path \in selected THEN added \cup before ELSE added
                  BY <4>1
            <4> QED  BY <4>2 DEF new_line, before, after
        <3> HIDE DEF Adds
        <3>9. CASE j \in ShownAt(e, context)
            <4> DEFINE c == 1 + b[k]
                       next == LineAfter(e[j], c)
                       before == Adds(k)
                       now == Adds(j)
                       yes == TRUE
            <4>1. Part(j) = EditAt(path, e, context, unterminated, j)
                  BY <3>9 DEF Part, PartAt
            <4>2. ReadLines(Reader(path, line, in_hunk, before),
                            EditAt(path, e, context, unterminated, j), selected)
                      = Reader(path, next, yes, now)
                <5>1. c \in Nat /\ NewLineAt(e, j) = c /\ j \in 1..Len(e)
                      BY <3>1, <3>6
                <5>2. IsTrue(yes) /\ (j - 1 \in ShownAt(e, context) => in_hunk = yes /\ line = c)
                      BY <3>1, <3>3 DEF IsTrue
                <5>3. now = AddedWith(e[j], path, c, selected, before)
                      BY <3>8 DEF AddedWith
                <5> HIDE DEF c, before, now, yes
                <5>4. ReadLines(Reader(path, line, in_hunk, before),
                                EditAt(path, e, context, unterminated, j), selected)
                          = Reader(path, LineAfter(e[j], c), yes,
                                   AddedWith(e[j], path, c, selected, before))
                      BY <5>1, <5>2, EditIsRead
                <5> QED  BY <5>3, <5>4
            <4>3. ReadLines(q, g[j], selected) = Reader(path, next, TRUE, Adds(j))
                  BY <3>5, <4>1, <4>2
            <4>4. next = 1 + b[j]
                <5>1. b[j] = b[k] + (IF e[j].op = "cut" THEN 0 ELSE 1) /\ b[k] \in Nat
                      BY <1>1, <3>1
                <5> QED  BY <5>1 DEF LineAfter
            <4> HIDE DEF next
            <4>5. J(j, next, TRUE)
                  BY <4>3, <4>4 DEF J
            <4> QED  BY <3>1, <4>5 DEF j
        <3>10. CASE j \notin ShownAt(e, context)
            <4>1. Part(j) = <<>>
                  BY <3>10 DEF Part, PartAt
            <4>2. e[j].op = "keep"
                  BY <1>1, <3>1, <3>10 DEF ShownAt, ChangedAt
            <4>3. Adds(j) = Adds(k)
                  BY <3>8, <4>2
            <4>4. ReadLines(q, g[j], selected) = Reader(path, line, in_hunk, Adds(j))
                  BY <3>5, <4>1, <4>3, ReadNothing
            <4>5. J(j, line, in_hunk)
                  BY <3>10, <4>4 DEF J
            <4> QED  BY <3>1, <4>5 DEF j
        <3> QED  BY <3>9, <3>10
    <2> QED  BY <2>1, <2>2, Zenon
<1> HIDE DEF S
<1>7. S = Nat
    <2>1. S \subseteq Nat
          BY DEF S
    <2> QED  BY <1>5, <1>6, <2>1, Induction
<1>8. ReadLines(q, FlattenSeq(s), selected).added = Adds(n)
    <2> HIDE DEF J
    <2>1. PICK line, in_hunk : J(n, line, in_hunk)
          BY <1>1, <1>7 DEF S
    <2>2. ReadLines(q, FlattenSeq(s), selected) = Reader(path, line, in_hunk, Adds(n))
          BY <1>4, <2>1 DEF J
    <2> HIDE DEF Adds
    <2> QED  BY <2>2 DEF Reader
<1>9. FlattenSeq(s) \in Seq(R)
      BY <1>1, <1>4
<1> HIDE DEF Adds
<1>10. s = [k \in DOMAIN e |-> PartAt(path, e, context, unterminated, k)]
      BY <1>1 DEF s, Part
<1> QED  BY <1>3, <1>8, <1>9, <1>10 DEF R, q, Adds

\* Lines that are read in three parts.
LEMMA ReadThree ==
    ASSUME NEW reader, NEW selected, NEW x, NEW y, NEW z
    PROVE  ReadLines(reader, <<x, y, z>>, selected)
               = ReadLine(ReadLine(ReadLine(reader, x, selected), y, selected), z, selected)
<1> DEFINE one == ReadLine(reader, x, selected)
           two == ReadLine(one, y, selected)
           three == ReadLine(two, z, selected)
           raws == <<x, y, z>>
           f == [i \in {0, 1, 2, 3} |-> IF i = 0 THEN reader ELSE IF i = 1 THEN one
                                        ELSE IF i = 2 THEN two ELSE three]
<1>1. /\ Len(raws) = 3 /\ raws[1] = x /\ raws[2] = y /\ raws[3] = z
      /\ raws \in Seq({x, y, z})
      OBVIOUS
<1>2. f[0] = reader /\ f[1] = one /\ f[2] = two /\ f[3] = three
    <2> HIDE DEF one, two, three
    <2> QED  OBVIOUS
<1> HIDE DEF f
<1>3. \A i \in 1..3 : (i = 1 /\ i - 1 = 0) \/ (i = 2 /\ i - 1 = 1) \/ (i = 3 /\ i - 1 = 2)
      OBVIOUS
<1>4. /\ f[1] = ReadLine(f[0], raws[1], selected)
      /\ f[2] = ReadLine(f[1], raws[2], selected)
      /\ f[3] = ReadLine(f[2], raws[3], selected)
      BY <1>1, <1>2
<1> HIDE DEF raws
<1>5. \A i \in 1..3 : f[i] = ReadLine(f[i - 1], raws[i], selected)
      BY <1>3, <1>4
<1>6. IsReading(f, reader, raws, selected)
      BY <1>1, <1>2, <1>5 DEF IsReading
<1>7. ReadLines(reader, raws, selected) = f[3]
      BY <1>1, <1>6, ReadingIs
<1> QED  BY <1>2, <1>7 DEF raws

\* What is read of what is printed of edits.
AddedOf(path, e, selected, added) ==
    IF path \in selected THEN added \cup AddsUpTo(path, e, Len(e)) ELSE added

\* What is read of the print of edits is what they add.
LEMMA PrintedEditsAreRead ==
    ASSUME NEW C, NEW T, NEW e \in Seq(EditsOver(PlainLines(C, T))), NEW old, NEW new,
           Script(e, old, new, 1, 1),
           NEW U, T \subseteq U, <<>> \in U, NEW path \in U, path # <<>>, NEW context \in BOOLEAN,
           NEW unterminated, NEW selected, NEW reader
    PROVE  /\ PrintOf(path, e, context, unterminated) \in Seq(Raws(C, U))
           /\ ReadLines(reader, PrintOf(path, e, context, unterminated), selected).added
                  = AddedOf(path, e, selected, reader.added)
<1> DEFINE R == Raws(C, U)
           d == PrintOf(path, e, context, unterminated)
           s == [k \in DOMAIN e |-> PartAt(path, e, context, unterminated, k)]
           headers == HeadersOf(path)
           body == FlattenSeq(s)
           q == Reader(path, 0, FALSE, reader.added)
           added == reader.added
           Now == IF path \in selected THEN added \cup AddsUpTo(path, e, Len(e)) ELSE added
<1>2. d = IF ChangedAt(e) = {} THEN <<>> ELSE headers \o body
      BY DEF PrintOf
<1> HIDE DEF d
<1>3. PICK a \in [0..Len(e) -> Nat], b \in [0..Len(e) -> Nat] :
          a[0] = 1 - 1 /\ b[0] = 1 - 1 /\ Leads(e, old, new, a, b)
      BY DEF Script
<1>4. body \in Seq(R) /\ ReadLines(q, body, selected).added = Now
    <2>1. b[0] = 0
          BY <1>3
    <2> DEFINE no == FALSE
    <2>2. b \in [0..Len(e) -> Nat] /\ Leads(e, old, new, a, b)
          BY <1>3
    <2> HIDE DEF added, no
    <2>3. LET p == [k \in DOMAIN e |-> PartAt(path, e, context, unterminated, k)]
              r == ReadLines(Reader(path, 0, no, added), FlattenSeq(p), selected)
          IN  /\ p \in Seq(Seq(Raws(C, U))) /\ FlattenSeq(p) \in Seq(Raws(C, U))
              /\ r.added = IF path \in selected THEN added \cup AddsUpTo(path, e, Len(e)) ELSE added
          BY <2>1, <2>2, EditsAreRead
    <2> QED  BY <2>3 DEF added, no
<1>5. ASSUME ChangedAt(e) = {}
      PROVE  d \in Seq(R) /\ ReadLines(reader, d, selected).added = Now
    <2>1. d = <<>>
          BY <1>2, <1>5
    <2>2. \A k \in DOMAIN e : e[k].op = "keep"
          BY <1>5 DEF ChangedAt
    <2>3. AddsUpTo(path, e, Len(e)) = {}
        <3>1. DOMAIN e = 1..Len(e)
              OBVIOUS
        <3>2. {l \in 1..Len(e) : e[l].op = "add"} = {}
              BY <2>2, <3>1
        <3> QED  BY <3>2 DEF AddsUpTo
    <2>4. ReadLines(reader, d, selected) = reader
          BY <2>1, ReadNothing
    <2>5. d \in Seq(R)
        <3> HIDE DEF R
        <3>1. <<>> \in Seq(R)
              OBVIOUS
        <3> QED  BY <2>1, <3>1
    <2> QED  BY <2>3, <2>4, <2>5
<1>6. ASSUME ChangedAt(e) # {}
      PROVE  d \in Seq(R) /\ ReadLines(reader, d, selected).added = Now
    <2> HIDE DEF body, R, s
    <2>1. d = headers \o body
          BY <1>2, <1>6
    <2>2. headers \in Seq(R)
        <3> DEFINE T1 == {Raw(<<"d">>, <<>>, path, 0), Raw(<<"-", "-", "-", Space>>, <<>>, path, 0),
                          Raw(<<"+", "+", "+", Space>>, <<>>, path, 0)}
        <3>1. \A h \in Heads(C), t \in U, p \in U, i \in Nat : Raw(h, t, p, i) \in R
              BY DEF Raw, Raws, R
        <3>2. /\ <<"d">> \in Heads(C) /\ <<"-", "-", "-", Space>> \in Heads(C)
              /\ <<"+", "+", "+", Space>> \in Heads(C)
              BY HeadsOfHeaders
        <3>3. /\ Raw(<<"d">>, <<>>, path, 0) \in R /\ Raw(<<"-", "-", "-", Space>>, <<>>, path, 0) \in R
              /\ Raw(<<"+", "+", "+", Space>>, <<>>, path, 0) \in R
              BY <3>1, <3>2
        <3>4. \A x, y, z \in R : <<x, y, z>> \in Seq(R)
              OBVIOUS
        <3> QED  BY <3>3, <3>4 DEF HeadersOf
    <2>3. ReadLines(reader, headers, selected) = q
        <3> DEFINE x == Raw(<<"d">>, <<>>, path, 0)
                   y == Raw(<<"-", "-", "-", Space>>, <<>>, path, 0)
                   z == Raw(<<"+", "+", "+", Space>>, <<>>, path, 0)
        <3>1. headers = <<x, y, z>>
              BY DEF HeadersOf
        <3>2. ReadLine(ReadLine(ReadLine(reader, x, selected), y, selected), z, selected) = q
              BY HeadersAreRead, Zenon
        <3> HIDE DEF x, y, z, q
        <3>3. ReadLines(reader, <<x, y, z>>, selected)
                  = ReadLine(ReadLine(ReadLine(reader, x, selected), y, selected), z, selected)
              BY ReadThree
        <3> QED  BY <3>1, <3>2, <3>3
    <2> HIDE DEF headers, q
    <2>4. headers \o body \in Seq(R)
          BY <1>4, <2>2
    <2>5. ReadLines(reader, headers \o body, selected)
              = ReadLines(ReadLines(reader, headers, selected), body, selected)
          BY <1>4, <2>2, ReadOn
    <2>6. ReadLines(reader, d, selected).added = Now
          BY <1>4, <2>1, <2>3, <2>5
    <2> QED  BY <2>1, <2>4, <2>6
<1> QED  BY <1>5, <1>6 DEF AddedOf, d

\* What is read of the diff of a file.
LEMMA FileIsRead ==
    ASSUME NEW C, NEW T, NEW old \in Seq(PlainLines(C, T)), NEW new \in Seq(PlainLines(C, T)),
           NEW U, T \subseteq U, <<>> \in U, NEW path \in U, path # <<>>, NEW context \in BOOLEAN,
           NEW unterminated, NEW selected, NEW reader
    PROVE  /\ FileDiff(path, old, new, context, unterminated) \in Seq(Raws(C, U))
           /\ ReadLines(reader, FileDiff(path, old, new, context, unterminated), selected).added
                  = AddedOf(path, Edits(old, new), selected, reader.added)
<1> DEFINE e == Edits(old, new)
           d == FileDiff(path, old, new, context, unterminated)
<1>1. e \in Seq(EditsOver(PlainLines(C, T))) /\ Script(e, old, new, 1, 1)
      BY EditsAreAScript
<1>2. d = PrintOf(path, e, context, unterminated)
      BY FileDiffIs
<1> HIDE DEF d, e
<1>3. /\ PrintOf(path, e, context, unterminated) \in Seq(Raws(C, U))
      /\ ReadLines(reader, PrintOf(path, e, context, unterminated), selected).added
             = AddedOf(path, e, selected, reader.added)
      BY <1>1, PrintedEditsAreRead
<1> QED  BY <1>2, <1>3 DEF d, e

-----------------------------------------------------------------------------
(* The diff of a tree.                                                     *)

\* A set as a sequence: of its members, each of them.
LEMMA SetToSeqHasAll ==
    ASSUME NEW S, IsFiniteSet(S)
    PROVE  /\ SetToSeq(S) \in Seq(S)
           /\ \A x \in S : \E i \in 1..Len(SetToSeq(S)) : SetToSeq(S)[i] = x
<1> DEFINE n == Cardinality(S)
           P(f) == f \in [1..n -> S] /\ IsInjective(f)
<1>1. n \in Nat
      BY FS_CardinalityType
<1>2. \E f : P(f)
    <2>1. PICK k \in Nat : ExistsBijection(1..k, S)
          BY FS_NatBijection
    <2>2. k = n
          BY <2>1, FS_CountingElements
    <2>3. PICK f \in Bijection(1..n, S) : TRUE
          BY <2>1, <2>2 DEF ExistsBijection
    <2>4. f \in [1..n -> S]
          BY DEF Bijection, Injection
    <2>5. IsInjective(f)
          BY <2>4 DEF Bijection, Injection, IsInjective
    <2> QED  BY <2>4, <2>5
<1>3. SetToSeq(S) \in [1..n -> S] /\ IsInjective(SetToSeq(S))
    <2>1. \E f \in [1..n -> S] : IsInjective(f)
          BY <1>2
    <2> QED  BY <2>1, Zenon DEF SetToSeq
<1> DEFINE q == SetToSeq(S)
<1> HIDE DEF q
<1>4. q \in Seq(S) /\ Len(q) = n
      BY <1>1, <1>3 DEF q
<1>5. q \in Surjection(1..n, S)
    <2>1. q \in Injection(1..n, S)
          BY <1>3 DEF q, Injection, IsInjective
    <2>2. Cardinality(1..n) = n
          BY <1>1, FS_Interval
    <2> QED  BY <2>1, <2>2, FS_Injection
<1>6. \A x \in S : \E i \in 1..Len(q) : q[i] = x
      BY <1>4, <1>5 DEF Surjection
<1> QED  BY <1>4, <1>6 DEF q

\* A tree whose files are of plain lines.
OfPlainLines(C, T, P, tree) == \A p \in P : tree[p] \in Seq(PlainLines(C, T))

\* What the diff of a file adds.
AddsIn(old, new, p) == AddsUpTo(p, Edits(old[p], new[p]), Len(Edits(old[p], new[p])))

\* What the marks of a diff of the files P are over.
MarksOver(T, P) == (T \cup {<<>>}) \cup P

\* A file of a tree.
LEMMA FileOfTreeIsRead ==
    ASSUME NEW C, NEW T, NEW P, <<>> \notin P, NEW p \in P,
           NEW before \in Seq(PlainLines(C, T)), NEW after \in Seq(PlainLines(C, T)),
           NEW context \in BOOLEAN, NEW ends, NEW selected, NEW reader
    PROVE  /\ FileDiff(p, before, after, context, ends)
                 \in Seq(Raws(C, MarksOver(T, P)))
           /\ ReadLines(reader, FileDiff(p, before, after, context, ends), selected).added
                 = AddedOf(p, Edits(before, after), selected, reader.added)
<1> DEFINE U == MarksOver(T, P)
<1>1. T \subseteq U /\ <<>> \in U /\ p \in U /\ p # <<>>
      BY DEF MarksOver
<1> HIDE DEF U
<1>2. /\ FileDiff(p, before, after, context, ends) \in Seq(Raws(C, U))
      /\ ReadLines(reader, FileDiff(p, before, after, context, ends), selected).added
             = AddedOf(p, Edits(before, after), selected, reader.added)
      BY <1>1, FileIsRead, SMTT(30)
<1> QED  BY <1>2 DEF U

\* What is read of the diff of a tree is what the diffs of its files add.
LEMMA TreeIsRead ==
    ASSUME NEW C, NEW T, NEW P, IsFiniteSet(P), <<>> \notin P,
           NEW old, NEW new, DOMAIN new = P, OfPlainLines(C, T, P, old), OfPlainLines(C, T, P, new),
           NEW context \in BOOLEAN, NEW unterminated, NEW selected
    PROVE  AddedLines(TreeDiff(old, new, context, unterminated), selected)
               = UNION {AddsIn(old, new, p) : p \in P \cap selected}
<1> DEFINE U == MarksOver(T, P)
           R == Raws(C, U)
           paths == SetToSeq(P)
           n == Len(paths)
           F(p) == FileDiff(p, old[p], new[p], context, p \in unterminated)
           s == [k \in DOMAIN paths |-> F(paths[k])]
           q == Reader(<<>>, 0, FALSE, {})
           A(p) == AddsIn(old, new, p)
<1>1. paths \in Seq(P) /\ \A p \in P : \E i \in 1..n : paths[i] = p
      BY SetToSeqHasAll
<1>2. TreeDiff(old, new, context, unterminated) = FlattenSeq(s)
    <2>1. DOMAIN new = P
          OBVIOUS
    <2> QED  BY <2>1, Zenon DEF TreeDiff
<1> HIDE DEF paths
<1>3. n \in Nat /\ DOMAIN paths = 1..n /\ \A i \in 1..n : paths[i] \in P
      BY <1>1
<1>4. ASSUME NEW p \in P, NEW reader
      PROVE  /\ F(p) \in Seq(R)
             /\ ReadLines(reader, F(p), selected).added =
                    IF p \in selected THEN reader.added \cup A(p) ELSE reader.added
    <2> DEFINE before == old[p]
               after == new[p]
               ends == p \in unterminated
               e == Edits(before, after)
    <2>1. before \in Seq(PlainLines(C, T)) /\ after \in Seq(PlainLines(C, T))
          BY <1>4 DEF OfPlainLines
    <2> HIDE DEF before, after, ends
    <2>3. /\ FileDiff(p, before, after, context, ends) \in Seq(R)
          /\ ReadLines(reader, FileDiff(p, before, after, context, ends), selected).added
                 = AddedOf(p, e, selected, reader.added)
          BY <1>4, <2>1, FileOfTreeIsRead, SMTT(30)
    <2>4. A(p) = AddsUpTo(p, e, Len(e))
          BY DEF AddsIn, before, after
    <2> QED  BY <2>3, <2>4 DEF AddedOf, before, after, ends
<1> HIDE DEF U, R, F, A, q
<1>5. s \in Seq(Seq(R)) /\ Len(s) = n /\ \A k \in 1..n : s[k] = F(paths[k])
    <2>1. s = [k \in 1..n |-> F(paths[k])]
          BY <1>3
    <2>2. s \in [1..n -> Seq(R)]
          BY <1>3, <1>4, <2>1
    <2> QED  BY <1>3, <2>1, <2>2, FunctionIsSequence
<1> HIDE DEF s
<1>a. PICK g \in [0..Len(s) -> Seq(R)] : /\ g[0] = <<>>
                                         /\ \A k \in 1..Len(s) : g[k] = g[k - 1] \o s[k]
                                         /\ FlattenSeq(s) = g[Len(s)]
    <2>1. s \in Seq(Seq(R))
          BY <1>5
    <2> QED  BY <2>1, FlattenIs
<1> HIDE DEF n
<1>6. /\ g \in [0..n -> Seq(R)] /\ g[0] = <<>>
      /\ \A k \in 1..n : g[k] = g[k - 1] \o s[k]
      /\ FlattenSeq(s) = g[n]
    <2>1. Len(s) = n
          BY <1>5
    <2> QED  BY <1>a, <2>1
<1> DEFINE Read(k) == {paths[i] : i \in 1..k} \cap selected
           Adds(k) == UNION {A(p) : p \in Read(k)}
           S == {k \in Nat : k <= n => ReadLines(q, g[k], selected).added = Adds(k)}
<1>7. 0 \in S
    <2>1. Read(0) = {}
          OBVIOUS
    <2>2. Adds(0) = {}
          BY <2>1
    <2>3. ReadLines(q, g[0], selected) = q
          BY <1>6, ReadNothing
    <2>4. q.added = {}
          BY DEF Reader, q
    <2> HIDE DEF Adds
    <2> QED  BY <2>2, <2>3, <2>4
<1>8. ASSUME NEW k \in S
      PROVE  k + 1 \in S
    <2>1. CASE ~(k + 1 <= n)
          BY <1>8, <2>1
    <2>2. CASE k + 1 <= n
        <3> DEFINE j == k + 1
                   p == paths[j]
                   reader == ReadLines(q, g[k], selected)
        <3>1. k \in Nat /\ k <= n /\ j \in 1..n /\ j - 1 = k /\ j \in Nat /\ k \in 0..n
              BY <1>3, <2>2
        <3>2. Read(j) = Read(k) \cup ({p} \cap selected)
            <4>1. 1..j = (1..k) \cup {j}
                  BY <3>1
            <4> HIDE DEF j
            <4>2. {paths[i] : i \in 1..j} = {paths[i] : i \in 1..k} \cup {p}
                  BY <4>1
            <4> QED  BY <4>2
        <3>3. Adds(j) = IF p \in selected THEN Adds(k) \cup A(p) ELSE Adds(k)
            <4> HIDE DEF Read, j, p
            <4>1. CASE p \in selected
                <5>1. Read(j) = Read(k) \cup {p}
                      BY <3>2, <4>1
                <5>2. UNION {A(x) : x \in Read(j)} = (UNION {A(x) : x \in Read(k)}) \cup A(p)
                      BY <5>1
                <5> QED  BY <4>1, <5>2
            <4>2. CASE p \notin selected
                <5>1. Read(j) = Read(k)
                      BY <3>2, <4>2
                <5> QED  BY <4>2, <5>1
            <4> QED  BY <4>1, <4>2
        <3> HIDE DEF Adds, j
        <3>4. p \in P
              BY <1>3, <3>1
        <3>5. g[j] = g[k] \o F(p) /\ g[k] \in Seq(R) /\ F(p) \in Seq(R)
              BY <1>4, <1>5, <1>6, <3>1, <3>4
        <3> HIDE DEF p
        <3>6. ReadLines(q, g[j], selected) = ReadLines(reader, F(p), selected)
              BY <3>5, ReadOn
        <3>7. reader.added = Adds(k)
              BY <3>1
        <3> HIDE DEF reader
        <3>8. ReadLines(reader, F(p), selected).added =
                    IF p \in selected THEN reader.added \cup A(p) ELSE reader.added
              BY <1>4, <3>4
        <3>9. ReadLines(q, g[j], selected).added = Adds(j)
              BY <3>3, <3>6, <3>7, <3>8
        <3> QED  BY <3>1, <3>9 DEF j
    <2> QED  BY <2>1, <2>2
<1> HIDE DEF S
<1>9. S = Nat
    <2>1. S \subseteq Nat
          BY DEF S
    <2> QED  BY <1>7, <1>8, <2>1, Induction
<1>10. ReadLines(q, FlattenSeq(s), selected).added = Adds(n)
    <2>1. n \in S /\ n <= n
          BY <1>3, <1>9
    <2>2. ReadLines(q, g[n], selected).added = Adds(n)
          BY <2>1 DEF S
    <2> QED  BY <1>6, <2>2
<1>11. Read(n) = P \cap selected
    <2>1. {paths[i] : i \in 1..n} = P
          BY <1>1, <1>3 DEF n
    <2> QED  BY <2>1
<1>12. AddedLines(TreeDiff(old, new, context, unterminated), selected)
           = ReadLines(q, FlattenSeq(s), selected).added
      BY <1>2 DEF AddedLines, q
<1> HIDE DEF Read
<1> QED  BY <1>10, <1>11, <1>12 DEF A

-----------------------------------------------------------------------------
(* Where lines were added.                                                 *)

\* The counts of a script do not go down.
LEMMA CountsRise ==
    ASSUME NEW n \in Nat, NEW a \in [0..n -> Nat], \A k \in 1..n : a[k - 1] <= a[k],
           NEW i \in 0..n, NEW j \in 0..n, i <= j
    PROVE  a[i] <= a[j]
<1> DEFINE S == {k \in Nat : i + k <= n => a[i] <= a[i + k]}
<1>1. 0 \in S
    <2>1. i + 0 = i /\ a[i] \in Nat
          OBVIOUS
    <2> QED  BY <2>1
<1>2. ASSUME NEW k \in S
      PROVE  k + 1 \in S
    <2>1. CASE i + (k + 1) <= n
        <3> DEFINE m == i + (k + 1)
        <3>1. k \in Nat /\ i + k <= n /\ m \in 1..n /\ m - 1 = i + k /\ i + k \in 0..n /\ m \in 0..n
              BY <1>2, <2>1
        <3>2. a[i] <= a[i + k]
              BY <1>2, <3>1
        <3> HIDE DEF m
        <3>3. a[i + k] <= a[m]
              BY <3>1
        <3>4. a[i] \in Nat /\ a[i + k] \in Nat /\ a[m] \in Nat
              BY <3>1
        <3>5. a[i] <= a[m]
              BY <3>2, <3>3, <3>4
        <3> QED  BY <3>1, <3>5 DEF m
    <2>2. CASE ~(i + (k + 1) <= n)
          BY <1>2, <2>2
    <2> QED  BY <2>1, <2>2
<1> HIDE DEF S
<1>3. S = Nat
    <2>1. S \subseteq Nat
          BY DEF S
    <2> QED  BY <1>1, <1>2, <2>1, Induction
<1>4. j - i \in S /\ i + (j - i) = j
      BY <1>3
<1> QED  BY <1>4 DEF S

\* What the diff of a file adds is in the new file where it says.
LEMMA AddsAreThere ==
    ASSUME NEW X, NEW old \in Seq(X), NEW new \in Seq(X), NEW path, NEW e \in Seq(EditsOver(X)),
           Script(e, old, new, 1, 1), NEW l \in AddsUpTo(path, e, Len(e))
    PROVE  /\ l.path = path /\ l.line_number \in DOMAIN new
           /\ new[l.line_number] = l.text
<1>1. PICK a \in [0..Len(e) -> Nat], b \in [0..Len(e) -> Nat] :
          b[0] = 1 - 1 /\ Leads(e, old, new, a, b)
      BY DEF Script
<1>2. PICK m \in 1..Len(e) : e[m].op = "add" /\ l = AddedLine(path, NewLineAt(e, m), e[m].line)
      BY DEF AddsUpTo
<1>3. l.path = path /\ l.line_number = NewLineAt(e, m) /\ l.text = e[m].line
      BY <1>2 DEF AddedLine
<1>4. NewLineAt(e, m) = 1 + b[m - 1]
    <2>1. b[0] = 0 /\ Len(e) \in Nat
          BY <1>1
    <2> QED  BY <1>1, <2>1, LinesBefore
<1>5. b[m] = b[m - 1] + 1 /\ b[m] \in DOMAIN new /\ e[m].line = new[b[m]] /\ b[m - 1] \in Nat
    <2>1. m - 1 \in 0..Len(e)
          OBVIOUS
    <2> QED  BY <1>1, <1>2, <2>1 DEF Leads
<1>6. l.line_number = b[m]
      BY <1>3, <1>4, <1>5
<1> QED  BY <1>3, <1>5, <1>6

\* What it does not add was there before, in that order.
LEMMA OthersWereThere ==
    ASSUME NEW X, NEW old \in Seq(X), NEW new \in Seq(X), NEW path, NEW e \in Seq(EditsOver(X)),
           Script(e, old, new, 1, 1), NEW numbers,
           \A l \in AddsUpTo(path, e, Len(e)) : l.line_number \in numbers
    PROVE  WasThere((DOMAIN new) \ numbers, new, old)
<1> DEFINE n == Len(e)
           kept == (DOMAIN new) \ numbers
<1>1. PICK a \in [0..n -> Nat], b \in [0..n -> Nat] :
          /\ a[0] = 1 - 1 /\ b[0] = 1 - 1
          /\ a[n] = Len(old) /\ b[n] = Len(new)
          /\ Leads(e, old, new, a, b)
      BY DEF Script
<1>2. /\ n \in Nat
      /\ \A k \in 1..n : /\ e[k].op \in Ops
                         /\ a[k] = a[k - 1] + (IF e[k].op = "add" THEN 0 ELSE 1)
                         /\ b[k] = b[k - 1] + (IF e[k].op = "cut" THEN 0 ELSE 1)
                         /\ e[k].op # "add" => a[k] \in DOMAIN old /\ e[k].line = old[a[k]]
                         /\ e[k].op # "cut" => b[k] \in DOMAIN new /\ e[k].line = new[b[k]]
      BY <1>1 DEF Leads
<1> HIDE DEF n, kept
\* A line that is not added is kept by one edit.
<1> DEFINE Keeps(i, k) == k \in 1..n /\ e[k].op = "keep" /\ b[k] = i
<1>3. ASSUME NEW i \in kept
      PROVE  \E k \in 1..n : Keeps(i, k)
    <2> DEFINE S == {k \in 0..n : i <= b[k]}
    <2>1. i \in 1..Len(new) /\ i \notin numbers /\ Len(new) \in Nat
          BY <1>3 DEF kept
    <2>2. n \in S
          BY <1>1, <1>2, <2>1
    <2>3. PICK k \in S : \A m \in S : k <= m
        <3>1. S \subseteq Nat
              OBVIOUS
        <3> HIDE DEF S
        <3> QED  BY <2>2, <3>1, LeastMember
    <2>4. k \in 1..n
        <3>1. b[0] = 0
              BY <1>1
        <3>2. k # 0
              BY <2>1, <2>3, <3>1
        <3> QED  BY <1>2, <2>3, <3>2
    <2>5. b[k - 1] < i
        <3>1. k - 1 \in 0..n /\ ~(k <= k - 1)
              BY <1>2, <2>4
        <3>2. k - 1 \notin S
              BY <2>3, <3>1
        <3>3. b[k - 1] \in Nat /\ ~(i <= b[k - 1])
              BY <3>1, <3>2
        <3> QED  BY <2>1, <3>3
    <2>6. i <= b[k] /\ b[k] \in Nat /\ b[k - 1] \in Nat
        <3>1. k - 1 \in 0..n /\ k \in 0..n
              BY <1>2, <2>4
        <3> QED  BY <2>3, <3>1
    <2>7. e[k].op # "cut" /\ b[k] = i /\ b[k - 1] = i - 1
        <3>1. b[k] = b[k - 1] + (IF e[k].op = "cut" THEN 0 ELSE 1)
              BY <1>2, <2>4
        <3>2. e[k].op # "cut"
              BY <2>1, <2>5, <2>6, <3>1
        <3>3. b[k] = b[k - 1] + 1
              BY <3>1, <3>2
        <3> QED  BY <2>1, <2>5, <2>6, <3>2, <3>3
    <2>8. e[k].op # "add"
        <3> SUFFICES ASSUME e[k].op = "add"
                     PROVE  FALSE
            OBVIOUS
        <3> DEFINE l == AddedLine(path, NewLineAt(e, k), e[k].line)
        <3>1. NewLineAt(e, k) = 1 + b[k - 1]
            <4>1. b[0] = 0 /\ Len(e) \in Nat
                  BY <1>1
            <4> QED  BY <1>1, <2>4, <4>1, LinesBefore DEF n
        <3>2. l.line_number = i
              BY <2>1, <2>7, <3>1 DEF AddedLine
        <3>3. l \in AddsUpTo(path, e, Len(e))
              BY <2>4 DEF AddsUpTo, n
        <3> QED  BY <2>1, <3>2, <3>3
    <2>9. e[k].op = "keep"
          BY <1>2, <2>4, <2>7, <2>8 DEF Ops
    <2> QED  BY <2>4, <2>7, <2>9
<1> DEFINE K(i) == CHOOSE k \in 1..n : Keeps(i, k)
<1>4. \A i \in kept : K(i) \in 1..n /\ Keeps(i, K(i))
    <2> HIDE DEF Keeps
    <2> QED  BY <1>3, Zenon
<1> HIDE DEF K
<1> DEFINE at == [i \in kept |-> a[K(i)]]
<1>5. ASSUME NEW i \in kept
      PROVE  /\ at[i] = a[K(i)] /\ a[K(i)] \in DOMAIN old /\ new[i] = old[a[K(i)]]
    <2>1. K(i) \in 1..n /\ e[K(i)].op = "keep" /\ b[K(i)] = i
          BY <1>4, <1>5
    <2>2. a[K(i)] \in DOMAIN old /\ e[K(i)].line = old[a[K(i)]] /\ e[K(i)].line = new[b[K(i)]]
          BY <1>2, <2>1
    <2> QED  BY <1>5, <2>1, <2>2
<1>6. ASSUME NEW i \in kept, NEW j \in kept, i < j
      PROVE  at[i] < at[j]
    <2> DEFINE k == K(i)
               m == K(j)
    <2>1. k \in 1..n /\ b[k] = i /\ m \in 1..n /\ e[m].op = "keep" /\ b[m] = j
          BY <1>4, <1>6
    <2>2. at[i] = a[k] /\ at[j] = a[m]
          BY <1>5, <1>6
    <2> HIDE DEF k, m
    <2>3. i \in Nat /\ j \in Nat
          BY <1>6 DEF kept
    <2>4. k < m
        <3> SUFFICES ASSUME m <= k
                     PROVE  FALSE
            BY <1>2, <2>1
        <3>1. \A x \in 1..n : b[x - 1] <= b[x]
            <4> SUFFICES ASSUME NEW x \in 1..n
                         PROVE  b[x - 1] <= b[x]
                OBVIOUS
            <4>1. x - 1 \in 0..n
                  BY <1>2
            <4>2. b[x - 1] \in Nat
                  BY <4>1
            <4>3. b[x] = b[x - 1] + (IF e[x].op = "cut" THEN 0 ELSE 1)
                  BY <1>2
            <4>4. CASE e[x].op = "cut"
                  BY <4>2, <4>3, <4>4
            <4>5. CASE e[x].op # "cut"
                  BY <4>2, <4>3, <4>5
            <4> QED  BY <4>4, <4>5
        <3>2. m \in 0..n /\ k \in 0..n
              BY <1>2, <2>1
        <3>3. b[m] <= b[k]
              BY <1>2, <3>1, <3>2, CountsRise
        <3> QED  BY <1>6, <2>1, <2>3, <3>3
    <2>5. a[k] <= a[m - 1]
        <3>1. \A x \in 1..n : a[x - 1] <= a[x]
            <4> SUFFICES ASSUME NEW x \in 1..n
                         PROVE  a[x - 1] <= a[x]
                OBVIOUS
            <4>1. x - 1 \in 0..n
                  BY <1>2
            <4>2. a[x - 1] \in Nat
                  BY <4>1
            <4>3. a[x] = a[x - 1] + (IF e[x].op = "add" THEN 0 ELSE 1)
                  BY <1>2
            <4>4. CASE e[x].op = "add"
                  BY <4>2, <4>3, <4>4
            <4>5. CASE e[x].op # "add"
                  BY <4>2, <4>3, <4>5
            <4> QED  BY <4>4, <4>5
        <3>2. m - 1 \in 0..n /\ k \in 0..n /\ k <= m - 1
              BY <1>2, <2>1, <2>4
        <3> QED  BY <1>2, <3>1, <3>2, CountsRise
    <2>6. a[m] = a[m - 1] + 1 /\ a[m - 1] \in Nat /\ a[k] \in Nat
        <3>1. m - 1 \in 0..n /\ k \in 0..n
              BY <1>2, <2>1
        <3> QED  BY <1>2, <2>1, <3>1
    <2> QED  BY <2>2, <2>5, <2>6
<1>7. at \in [kept -> DOMAIN old]
      BY <1>5
<1>8. \A i \in kept : new[i] = old[at[i]] /\ \A j \in kept : i < j => at[i] < at[j]
      BY <1>5, <1>6
<1> HIDE DEF at
<1> QED  BY <1>7, <1>8 DEF WasThere, kept

-----------------------------------------------------------------------------
(* What a command says was added.                                          *)

\* What the last command said is of two trees.
SaidOf(r) ==
    /\ r.from \in Trees /\ r.to \in Trees
    /\ \E context \in BOOLEAN : r.lines = AddedIn(r.from, r.to, context)

\* What holds between commands.
GateInv ==
    /\ main \in Trees /\ head \in Trees /\ work \in Trees
    /\ report # NoReport => SaidOf(report)

\* A command says what it said of the trees it was run on.
LEMMA SaidIs ==
    ASSUME NEW command, NEW from \in Trees, NEW to \in Trees, NEW context \in BOOLEAN, NEW found
    PROVE  SaidOf(Said(command, from, to, AddedIn(from, to, context), found))
BY DEF SaidOf, Said

\* No command makes it say something else.
LEMMA GateInvStays == GateInv /\ [GateNext]_gateVars => GateInv'
<1> SUFFICES ASSUME GateInv, [GateNext]_gateVars
             PROVE  GateInv'
    OBVIOUS
<1> USE DEF GateInv
<1>1. ASSUME NEW path \in Paths, Rewrite(path)
      PROVE  GateInv'
    <2>1. work' \in Trees
          BY <1>1 DEF Rewrite, Trees
    <2> QED  BY <1>1, <2>1 DEF Rewrite
<1>2. CASE Commit
      BY <1>2 DEF Commit
<1>3. ASSUME NEW context \in BOOLEAN, LintDiff(context)
      PROVE  GateInv'
    <2>1. PICK found : report' = Said("lint", head, work, AddedIn(head, work, context), found)
          BY <1>3 DEF LintDiff, LintLines, SayLint
    <2>2. SaidOf(Said("lint", head, work, AddedIn(head, work, context), found))
          BY SaidIs
    <2> QED  BY <1>3, <2>1, <2>2 DEF LintDiff, SaidOf
<1>4. CASE CheckMerge
    <2> DEFINE no == FALSE
    <2>1. no \in BOOLEAN /\ CheckLines(AddedIn(main, head, no))
          BY <1>4 DEF CheckMerge
    <2> HIDE DEF no
    <2>2. PICK found : report' = Said("check", main, head, AddedIn(main, head, no), found)
          BY <2>1 DEF CheckLines, SayChecked
    <2>3. SaidOf(Said("check", main, head, AddedIn(main, head, no), found))
          BY <2>1, SaidIs
    <2> QED  BY <1>4, <2>2, <2>3 DEF CheckMerge, SaidOf
<1>5. CASE Merge
      BY <1>5 DEF Merge
<1>6. CASE CreateBaseline
      BY <1>6 DEF CreateBaseline
<1>7. ASSUME NEW allow_growth \in BOOLEAN, UpdateBaseline(allow_growth)
      PROVE  GateInv'
      BY <1>7 DEF UpdateBaseline
<1>8. CASE UNCHANGED gateVars
      BY <1>8 DEF gateVars, SaidOf
<1> QED  BY <1>1, <1>2, <1>3, <1>4, <1>5, <1>6, <1>7, <1>8 DEF GateNext

\* The texts of the files, over leads of C and texts of T.
PlainOver(C, T) ==
    /\ IsFiniteSet(Paths) /\ <<>> \notin Paths
    /\ \A p \in Paths : FileTexts[p] \subseteq Seq(PlainLines(C, T))

\* They are over those they have.
LEMMA TextsAreOverTheirs == PlainTexts => \E C, T : PlainOver(C, T)
<1> SUFFICES ASSUME PlainTexts
             PROVE  \E C, T : PlainOver(C, T)
    OBVIOUS
<1> DEFINE L == UNION {ToSet(text) : text \in UNION {FileTexts[p] : p \in Paths}}
           C == UNION {ToSet(l.lead) : l \in L}
           T == {l.text : l \in L}
<1>1. ASSUME NEW p \in Paths, NEW text \in FileTexts[p]
      PROVE  text \in Seq(PlainLines(C, T))
    <2>1. text \in Seq(ToSet(text)) /\ ToSet(text) \subseteq L
          BY <1>1 DEF PlainTexts
    <2>2. ASSUME NEW l \in ToSet(text)
          PROVE  l \in PlainLines(C, T)
        <3>1. /\ l = Line(l.lead, l.text) /\ l.lead \in Seq(ToSet(l.lead))
              /\ PlainLead(l.lead)
              BY <1>1, <2>2 DEF PlainTexts, PlainLead
        <3>2. l \in L
              BY <2>1, <2>2
        <3>3. ToSet(l.lead) \subseteq C /\ l.text \in T
              BY <3>2
        <3> HIDE DEF C, T, L
        <3>4. l.lead \in Seq(C)
              BY <3>1, <3>3
        <3> QED  BY <3>1, <3>3, <3>4 DEF PlainLines, LinesOver
    <2> HIDE DEF C, T, L
    <2>3. ToSet(text) \subseteq PlainLines(C, T)
          BY <2>2
    <2> QED  BY <2>1, <2>3
<1> HIDE DEF C, T
<1>2. PlainOver(C, T)
      BY <1>1 DEF PlainOver, PlainTexts
<1> QED  BY <1>2

\* Trees are of the texts that files may hold.
LEMMA TreesAreOfPlainLines ==
    ASSUME NEW C, NEW T, PlainOver(C, T), NEW t \in Trees
    PROVE  DOMAIN t = Paths /\ OfPlainLines(C, T, Paths, t)
BY DEF PlainOver, Trees, OfPlainLines

\* The diff of two trees says where what it adds is.
LEMMA DiffsAreInPlace ==
    ASSUME NEW C, NEW T, PlainOver(C, T), NEW old \in Trees, NEW new \in Trees,
           NEW context \in BOOLEAN, NEW lines, lines = AddedIn(old, new, context)
    PROVE  /\ \A l \in lines : /\ l.line_number \in DOMAIN new[l.path]
                               /\ new[l.path][l.line_number] = l.text
           /\ \A p \in Selected :
                 WasThere((DOMAIN new[p])
                              \ {l.line_number : l \in {m \in lines : m.path = p}}, new[p], old[p])
<1> DEFINE X == PlainLines(C, T)
           E(p) == Edits(old[p], new[p])
<1>1. lines = UNION {AddsIn(old, new, p) : p \in Selected}
    <2>1. /\ IsFiniteSet(Paths) /\ <<>> \notin Paths
          /\ DOMAIN new = Paths /\ OfPlainLines(C, T, Paths, old) /\ OfPlainLines(C, T, Paths, new)
          BY TreesAreOfPlainLines DEF PlainOver
    <2>2. AddedLines(TreeDiff(old, new, context, Unterminated), Selected)
              = UNION {AddsIn(old, new, p) : p \in Paths \cap Selected}
          BY <2>1, TreeIsRead
    <2>3. Paths \cap Selected = Selected
          BY DEF Selected
    <2> QED  BY <2>2, <2>3 DEF AddedIn
<1>2. ASSUME NEW p \in Selected
      PROVE  /\ old[p] \in Seq(X) /\ new[p] \in Seq(X)
             /\ E(p) \in Seq(EditsOver(X)) /\ Script(E(p), old[p], new[p], 1, 1)
             /\ AddsIn(old, new, p) = AddsUpTo(p, E(p), Len(E(p)))
    <2>1. old[p] \in Seq(X) /\ new[p] \in Seq(X)
          BY <1>2, TreesAreOfPlainLines DEF OfPlainLines, Selected
    <2> HIDE DEF X
    <2> QED  BY <2>1, EditsAreAScript DEF AddsIn
<1> HIDE DEF X, E
<1>3. ASSUME NEW p \in Selected, NEW l \in AddsIn(old, new, p)
      PROVE  l.path = p /\ l.line_number \in DOMAIN new[p] /\ new[p][l.line_number] = l.text
    <2> DEFINE a == old[p]
               b == new[p]
               e == E(p)
    <2>1. /\ a \in Seq(X) /\ b \in Seq(X) /\ e \in Seq(EditsOver(X)) /\ Script(e, a, b, 1, 1)
          /\ l \in AddsUpTo(p, e, Len(e))
          BY <1>2, <1>3
    <2> HIDE DEF a, b, e
    <2>2. l.path = p /\ l.line_number \in DOMAIN b /\ b[l.line_number] = l.text
          BY <2>1, AddsAreThere
    <2> QED  BY <2>2 DEF b
<1>4. ASSUME NEW l \in lines
      PROVE  l.line_number \in DOMAIN new[l.path] /\ new[l.path][l.line_number] = l.text
    <2>1. PICK p \in Selected : l \in AddsIn(old, new, p)
          BY <1>1, <1>4
    <2> QED  BY <1>3, <2>1
<1>5. ASSUME NEW p \in Selected
      PROVE  WasThere((DOMAIN new[p])
                          \ {l.line_number : l \in {m \in lines : m.path = p}}, new[p], old[p])
    <2> DEFINE a == old[p]
               b == new[p]
               e == E(p)
               numbers == {l.line_number : l \in {m \in lines : m.path = p}}
    <2>1. /\ a \in Seq(X) /\ b \in Seq(X) /\ e \in Seq(EditsOver(X)) /\ Script(e, a, b, 1, 1)
          /\ AddsIn(old, new, p) = AddsUpTo(p, e, Len(e))
          BY <1>2, <1>5
    <2>2. \A l \in AddsIn(old, new, p) : l.line_number \in numbers
        <3> SUFFICES ASSUME NEW l \in AddsIn(old, new, p)
                     PROVE  l.line_number \in numbers
            OBVIOUS
        <3>1. l \in lines
              BY <1>1, <1>5
        <3>2. l.path = p
              BY <1>3, <1>5
        <3> QED  BY <3>1, <3>2
    <2> HIDE DEF a, b, e, numbers
    <2>3. \A l \in AddsUpTo(p, e, Len(e)) : l.line_number \in numbers
          BY <2>1, <2>2
    <2>4. WasThere((DOMAIN b) \ numbers, b, a)
          BY <2>1, <2>3, OthersWereThere
    <2> QED  BY <2>4 DEF a, b, numbers
<1> QED  BY <1>4, <1>5

\* So what the last command said is where it says.
LEMMA ReportsAreInPlace ==
    ASSUME PlainTexts
    PROVE  GateInv => LinesAreWhereTheyWereAdded
<1> SUFFICES ASSUME GateInv, report # NoReport
             PROVE  LinesAreWhereTheyWereAdded
    BY DEF LinesAreWhereTheyWereAdded
<1> DEFINE from == report.from
           to == report.to
           lines == report.lines
<1>1. PICK context \in BOOLEAN : from \in Trees /\ to \in Trees /\ lines = AddedIn(from, to, context)
      BY DEF GateInv, SaidOf
<1> HIDE DEF from, to, lines
<1>2. /\ \A l \in lines : /\ l.line_number \in DOMAIN to[l.path]
                          /\ to[l.path][l.line_number] = l.text
      /\ \A p \in Selected :
            WasThere((DOMAIN to[p])
                         \ {l.line_number : l \in {m \in lines : m.path = p}}, to[p], from[p])
    <2>1. PICK C, T : PlainOver(C, T)
          BY TextsAreOverTheirs
    <2> QED  BY <1>1, <2>1, DiffsAreInPlace
<1> QED  BY <1>2, Zenon DEF LinesAreWhereTheyWereAdded, from, to, lines

\* What a command calls added is in the new file at the line it names, with that text,
\* and everything else in the files it reads was there before, in that order: whatever
\* files are edited, cut and added to, committed and merged, with any context and any
\* files selected.  No file holds a line that begins with ++ or --.
THEOREM LinesAreInPlace ==
    ASSUME PlainTexts
    PROVE  GateSpec => []LinesAreWhereTheyWereAdded
<1>1. GateInit => GateInv
      BY DEF GateInit, GateInv
<1>2. GateInv => LinesAreWhereTheyWereAdded
      BY ReportsAreInPlace
<1> QED  BY <1>1, <1>2, GateInvStays, PTL DEF GateSpec
=============================================================================
