------------------------------ MODULE PathRules ------------------------------
(***************************************************************************)
(* Which paths of a repository a command looks at: include and exclude     *)
(* globs (path_globs.py, scout/git_merge.py) and the rules of .gitignore   *)
(* (ingest/local.py).  A path is a sequence of names, "/" and "."; a       *)
(* pattern may hold "*" too.                                               *)
(***************************************************************************)
EXTENDS Naturals, Sequences, SequencesExt

Slash == "/"
Dot == "."
Star == "*"

\* What is left when all leading tokens in a set are stripped.
LeftStripped(text, tokens) ==
    LET kept == {i \in DOMAIN text : text[i] \notin tokens}
    IN  IF kept = {} THEN <<>>
        ELSE SubSeq(text, CHOOSE i \in kept : \A j \in kept : i <= j, Len(text))

RightStripped(text, tokens) == Reverse(LeftStripped(Reverse(text), tokens))

\* The names of a path, which end before a slash or with the path.
Parts(path) ==
    LET Ends(i, j) == (i = 1 \/ path[i - 1] = Slash) /\ (j = Len(path) \/ path[j + 1] = Slash)
    IN  {SubSeq(path, s[1], s[2]) :
            s \in {t \in (DOMAIN path) \X (DOMAIN path) :
                      /\ t[1] <= t[2] /\ Ends(t[1], t[2])
                      /\ \A k \in t[1]..t[2] : path[k] # Slash}}

Parents(path) == {SubSeq(path, 1, i - 1) : i \in {j \in DOMAIN path : path[j] = Slash}} \ {<<>>}

\* The last name of a path.
NameOf(path) ==
    LET after == {i \in 0..Len(path) : i = 0 \/ path[i] = Slash}
    IN  SubSeq(path, 1 + CHOOSE i \in after : \A j \in after : j <= i, Len(path))

\* The suffix of a name; a name that begins with its only dot has none.
SuffixOf(path) ==
    LET name == NameOf(path)
        dots == {i \in 2..Len(name) - 1 : name[i] = Dot}
    IN  IF dots = {} THEN <<>>
        ELSE SubSeq(name, CHOOSE i \in dots : \A j \in dots : j <= i, Len(name))

\* fnmatch: a star stands for anything, slashes too.
FnMatch(path, pattern) ==
    LET Matches[i \in 1..Len(path) + 1, j \in 1..Len(pattern) + 1] ==
            IF j > Len(pattern) THEN i > Len(path)
            ELSE IF pattern[j] = Star
                 THEN Matches[i, j + 1] \/ (i <= Len(path) /\ Matches[i + 1, j])
            ELSE i <= Len(path) /\ path[i] = pattern[j] /\ Matches[i + 1, j + 1]
    IN  Matches[1, 1]

-----------------------------------------------------------------------------
(* Globs.                                                                  *)

Globstar == <<Star, Star, Slash>>

\* A pattern, with any of its "**/" left out.
GlobstarVariants(pattern) ==
    LET Shorter(p) == {SubSeq(p, 1, i - 1) \o SubSeq(p, i + 3, Len(p)) :
                          i \in {j \in 1..Len(p) - 2 : SubSeq(p, j, j + 2) = Globstar}}
        Reach[n \in 0..Len(pattern)] ==
            IF n = 0 THEN {pattern}
            ELSE Reach[n - 1] \cup UNION {Shorter(p) : p \in Reach[n - 1]}
    IN  Reach[Len(pattern) \div 3]

RepoPathMatches(path, pattern) ==
    /\ path # <<>> /\ LeftStripped(pattern, {Slash}) # <<>>
    /\ \E p \in GlobstarVariants(LeftStripped(pattern, {Slash})) : FnMatch(path, p)

\* An exclude pattern is a glob of the path or of its name, a directory ("x/"),
\* or the plain name of anything on the way.
ExcludedBy(path, parts, raw) ==
    LET relative == IF raw # <<>> /\ Head(raw) = Slash THEN Tail(raw) ELSE raw
        pattern == IF relative # <<>> /\ Last(relative) = Slash THEN relative \o <<Star, Star>>
                   ELSE relative
        plain == \A i \in DOMAIN pattern : pattern[i] \notin {Slash, Star}
    IN  /\ raw # <<>>
        /\ FnMatch(path, pattern) \/ FnMatch(NameOf(path), pattern) \/ (plain /\ pattern \in parts)

PathExcluded(path, patterns) == \E p \in patterns : ExcludedBy(path, Parts(path), p)

-----------------------------------------------------------------------------
(* .gitignore.                                                             *)

Rule(pattern, negated, directory_only, anchored) ==
    [pattern |-> pattern, negated |-> negated, directory_only |-> directory_only,
     anchored |-> anchored]

\* A line of .gitignore as a rule; "!" negates, a slash in front anchors, one at
\* the end is for directories.
ParsedRule(line) ==
    LET negated == line # <<>> /\ Head(line) = "!"
        body == IF negated THEN Tail(line) ELSE line
        anchored == body # <<>> /\ Head(body) = Slash
        rest == IF anchored THEN Tail(body) ELSE body
        directory_only == rest # <<>> /\ Last(rest) = Slash
    IN  Rule(IF directory_only THEN RightStripped(rest, {Slash}) ELSE rest,
             negated, directory_only, anchored)

\* The rules of a file: neither blank lines nor comments.
GitIgnoreRules(lines) ==
    SelectSeq([i \in DOMAIN lines |-> IF lines[i] # <<>> /\ Head(lines[i]) = "#"
                                      THEN ParsedRule(<<>>) ELSE ParsedRule(lines[i])],
              LAMBDA rule : rule.pattern # <<>>)

DirectoryRuleMatches(path, rule) ==
    \E parent \in Parents(path) :
        IF rule.anchored \/ Slash \in ToSet(rule.pattern)
        THEN \/ FnMatch(parent, rule.pattern)
             \/ FnMatch(parent, rule.pattern \o <<Slash, Star>>)
        ELSE \E part \in Parts(parent) : FnMatch(part, rule.pattern)

RuleMatches(path, rule) ==
    IF rule.directory_only THEN DirectoryRuleMatches(path, rule)
    ELSE IF rule.anchored \/ Slash \in ToSet(rule.pattern)
         THEN FnMatch(path, rule.pattern) \/ FnMatch(path, rule.pattern \o <<Slash, Star, Star>>)
    ELSE \E part \in Parts(path) : FnMatch(part, rule.pattern)

\* The last rule that matches decides.  The dots a path begins with are stripped.
PathIgnored(path, rules) ==
    LET normalized == LeftStripped(path, {Dot, Slash})
        matching == {i \in DOMAIN rules : RuleMatches(normalized, rules[i])}
    IN  matching # {} /\ ~rules[CHOOSE i \in matching : \A j \in matching : j <= i].negated

\* What the commands that read a diff look at.
PathSelected(path, includes, excludes, rules) ==
    /\ includes = {} \/ \E p \in includes : RepoPathMatches(path, p)
    /\ ~PathExcluded(path, excludes)
    /\ ~PathIgnored(path, rules)
=============================================================================
