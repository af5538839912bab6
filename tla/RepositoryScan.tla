--------------------------- MODULE RepositoryScan ---------------------------
(***************************************************************************)
(* A scan of the repository (workflows/simple.py): files are found, read   *)
(* one after the other while they may be edited, turned into candidates    *)
(* and evidence, and stored in the workspace (workspace/state.py) in three *)
(* transactions.  A scan can stop at any step.                             *)
(***************************************************************************)
EXTENDS TerminologyGate, ScoutEvidence, LocalIngest

CONSTANTS
    BinaryTexts,       \* contents that look binary
    UndecodableTexts,  \* contents that are not text
    DirectPaths,       \* files that are named one by one
    MaxEdits,          \* bound on the edits while scans go on
    MaxScans           \* bound on the scans

ASSUME ScanAssumption ==
    /\ PathOrder \in Seq(ToSet(PathOrder))
    /\ Paths \subseteq ToSet(PathOrder)
    /\ \A p \in Paths : \A text \in FileTexts[p] : text \in Seq(ToSet(text))
    /\ ContextLines \in Nat

VARIABLES
    scan,       \* the scan that is going on
    documents,  \* path -> document in the workspace
    candidates, \* normalized surface -> candidate in the workspace
    packs,      \* normalized surface -> evidence in the workspace
    edits,      \* edits so far
    scans       \* scans so far

workspaceVars == <<documents, candidates, packs>>
scanVars == <<scan, documents, candidates, packs, edits, scans>>

\* Mutant: what refers to documents is stored before them.
StoreOrderReversed == <<"evidence", "candidates", "documents">>

\* The transactions of a scan, in their order.
StoreOrder == <<"documents", "candidates", "evidence">>

NoScan == [step |-> "idle", pending |-> {}, read |-> {}, found |-> {}, evidence |-> {}]

SizeOfLines(text) == FoldSeq(LAMBDA line, sum : SizeOfText(line) + 1 + sum, 0, text)

FileOf(lines) ==
    LET text == [i \in DOMAIN lines |-> lines[i].text]
    IN  File(SizeOfLines(text), lines \in BinaryTexts, lines \in UndecodableTexts, text)

\* The files there are.
Disk == [p \in {q \in Paths : work[q] # <<>>} |-> FileOf(work[p])]

KnownNormalized == {FoldedText(Entries[i].surface) : i \in DOMAIN Entries}

\* Rows are replaced, none is deleted.
Replaced(rows, new) ==
    [key \in DOMAIN new \cup DOMAIN rows |-> IF key \in DOMAIN new THEN new[key] ELSE rows[key]]

-----------------------------------------------------------------------------

ScanInit ==
    /\ scan = NoScan
    /\ documents = <<>> /\ candidates = <<>> /\ packs = <<>>
    /\ edits = 0 /\ scans = 0

BeginScan ==
    /\ scan.step = "idle"
    /\ scans < MaxScans /\ scans' = scans + 1
    /\ LET files == DiscoverLocalFiles(Disk, GitIgnoreRules(GitIgnore), DirectPaths)
       IN  scan' = [NoScan EXCEPT !.step = "read", !.pending = files]
    /\ UNCHANGED <<workspaceVars, edits>>

NextPath == CHOOSE p \in scan.pending : \A q \in scan.pending : Place(p) <= Place(q)

ReadFile ==
    /\ scan.step = "read" /\ scan.pending # {}
    /\ scan' = [scan EXCEPT !.pending = @ \ {NextPath},
                    !.read = @ \cup ToSet(ReadLocalDocument(Disk, NextPath))]
    /\ UNCHANGED <<workspaceVars, edits, scans>>

Discovered(found) ==
    scan' = [scan EXCEPT !.step = StoreOrder[1], !.found = found,
                         !.evidence = EvidencePacks(scan.read, found)]

\* Candidates and evidence are of the documents as they were read.
Discover ==
    /\ scan.step = "read" /\ scan.pending = {}
    /\ Discovered(DiscoveredCandidates(scan.read, KnownNormalized))
    /\ UNCHANGED <<workspaceVars, edits, scans>>

\* The scan after a transaction.
Stored(step) ==
    LET i == CHOOSE j \in DOMAIN StoreOrder : StoreOrder[j] = step
    IN  IF i = Len(StoreOrder) THEN NoScan ELSE [scan EXCEPT !.step = StoreOrder[i + 1]]

StoreDocuments ==
    /\ scan.step = "documents"
    /\ documents' = Replaced(documents, [p \in {d.path : d \in scan.read} |->
                                            CHOOSE d \in scan.read : d.path = p])
    /\ scan' = Stored("documents")
    /\ UNCHANGED <<candidates, packs, edits, scans>>

StoreCandidates ==
    /\ scan.step = "candidates"
    /\ candidates' = Replaced(candidates, [n \in {c.normalized : c \in scan.found} |->
                                              CHOOSE c \in scan.found : c.normalized = n])
    /\ scan' = Stored("candidates")
    /\ UNCHANGED <<documents, packs, edits, scans>>

StoreEvidence ==
    /\ scan.step = "evidence"
    /\ packs' = Replaced(packs, [n \in {e.normalized : e \in scan.evidence} |->
                                    CHOOSE e \in scan.evidence : e.normalized = n])
    /\ scan' = Stored("evidence")
    /\ UNCHANGED <<documents, candidates, edits, scans>>

\* The scan fails, or the process is stopped; what it had stored stays.
StopScan ==
    /\ scan.step # "idle"
    /\ scan' = NoScan
    /\ UNCHANGED <<workspaceVars, edits, scans>>

Edit(path) ==
    /\ edits < MaxEdits /\ edits' = edits + 1
    /\ Rewrite(path)
    /\ UNCHANGED <<scan, workspaceVars, scans>>

ScanSteps == BeginScan \/ ReadFile \/ Discover \/ StoreDocuments \/ StoreCandidates
             \/ StoreEvidence \/ StopScan

ScanNext ==
    \/ ScanSteps /\ UNCHANGED gateVars
    \/ \E path \in Paths : Edit(path)

ScanSpec == GateInit /\ ScanInit /\ [][ScanNext]_<<gateVars, scanVars>>

-----------------------------------------------------------------------------
(* Correctness.                                                            *)

\* "Positive snippets are centered on the exact occurrences stored in each candidate.
\* Negative snippets are selected from lines that share candidate tokens but do not
\* contain the exact candidate surface", in the documents as they were read, however
\* the files are edited meanwhile.
EvidenceIsEvidence ==
    \A pack \in scan.evidence :
        LET Lines(s) == (CHOOSE d \in scan.read : d.path = s.path).lines
            Says(line) == pack.normalized \in DOMAIN ExtractedSurfaces(line)
        IN  /\ \A s \in pack.positive : \E i \in s.start_line..s.end_line : Says(Lines(s)[i])
            /\ \A s \in pack.negative : ~Holds(Lines(s)[s.center], pack.surface)

\* Wherever scans stopped, a candidate of the workspace occurs in documents it holds,
\* and evidence is of a candidate it holds: later steps of a review look them up.
WorkspaceRefersToWhatItHolds ==
    /\ \A n \in DOMAIN candidates :
          \A o \in candidates[n].occurrences : o.path \in DOMAIN documents
    /\ \A n \in DOMAIN packs :
          /\ n \in DOMAIN candidates
          /\ \A s \in packs[n].positive \cup packs[n].negative : s.path \in DOMAIN documents
=============================================================================
