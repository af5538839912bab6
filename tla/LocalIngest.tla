----------------------------- MODULE LocalIngest -----------------------------
(***************************************************************************)
(* Which files a scan reads and what it makes of them (ingest/local.py).   *)
(* A file is its size, whether its bytes look binary or do not decode, and *)
(* its lines.                                                              *)
(***************************************************************************)
EXTENDS PathRules

CONSTANTS
    IngestGlobs,     \* include globs of a scan
    IngestExcludes,  \* exclude globs of a scan
    ExcludeDirs,     \* names of directories that are not walked
    AboveRoot,       \* names of the directories the repository is in
    TextSuffixes,    \* suffixes of text files
    TextNames,       \* names of text files without a suffix
    ProseSuffixes,   \* suffixes of prose
    PythonSuffixes,  \* suffixes of Python
    MaxFileBytes

File(size, binary, undecodable, lines) ==
    [size |-> size, binary |-> binary, undecodable |-> undecodable, lines |-> lines]

LooksLikeText(path) == SuffixOf(path) \in TextSuffixes \/ NameOf(path) \in TextNames

\* What is refused of a file before it is read.
Supported(tree, path, rules, direct) ==
    /\ tree[path].size <= MaxFileBytes
    /\ ~\E p \in IngestExcludes : ExcludedBy(path, Parts(path) \cup AboveRoot, p)
    /\ ~PathIgnored(path, rules)
    /\ LooksLikeText(path)
    /\ direct \/ \E p \in IngestGlobs : RepoPathMatches(path, p)

\* The walk leaves out what is in, or beneath, a directory of the name.
Walked(tree) == {path \in DOMAIN tree : (Parts(path) \cup AboveRoot) \cap ExcludeDirs = {}}

\* What the root and the paths named one by one amount to.
DiscoverLocalFiles(tree, rules, direct) ==
    {path \in Walked(tree) : Supported(tree, path, rules, FALSE)}
    \cup {path \in direct \cap DOMAIN tree : Supported(tree, path, rules, TRUE)}

Readable(tree, path) ==
    /\ path \in DOMAIN tree
    /\ tree[path].size <= MaxFileBytes
    /\ ~tree[path].binary
    /\ ~tree[path].undecodable

Document(path, lines) ==
    [path |-> path, lines |-> lines, prose |-> SuffixOf(path) \in ProseSuffixes,
     python |-> SuffixOf(path) \in PythonSuffixes]

\* A file that cannot be read by now is skipped.
ReadLocalDocument(tree, path) ==
    IF Readable(tree, path) THEN <<Document(path, tree[path].lines)>> ELSE <<>>
=============================================================================
